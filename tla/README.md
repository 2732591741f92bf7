# Verification of gandalf

gandalf (`src/gandalf`) is a Python library with one entry point,
`merge_delta_table`: it takes a Spark DataFrame and lands it in a Delta table by
one of several strategies (SCD types 0, 1, 2, 3, 4 and 6, plain upsert,
overwrite).  The library keeps no state of its own.  What can go wrong is the
*table*: what a sequence of calls, of several jobs, with failures in between,
makes of the rows in it.  The modules in this directory model the strategies as
state machines over tables, check them with TLC on small instances and prove
every checked safety property with TLAPS for every value of the constants.

## 1. Inventory

| Component | Source | State | Operations |
|---|---|---|---|
| Orchestrator | `merge/merge_delta_table.py` | none but the call's own DataFrame, `df_count`, configuration | ten steps in order: table check, incremental filter, duplicate check, column check, checksum, surrogate key, casts, count, strategy, validation |
| SCD2 batch merge | `merge/merge_types.py: scd2_batch` | the target's rows with four control columns and a derived partition column | initial load (overwrite) or three staged legs and one MERGE |
| Upsert | `merge_types.py: upsert_merge`, `strategies.py: scd1_merge, scd1_delete_merge` | the target's rows | one MERGE, with `has_delete` after staging what the source lacks |
| SCD4 | `strategies.py: scd4_merge` | a current table and a history table | append to the history, then upsert the current table: two commits |
| SCD0 | `strategies.py: scd0_merge` | the target's rows | a comparison per protected column, then an insert-only MERGE |
| SCD3 | `strategies.py: scd3_merge` | the target's rows with previous columns | one MERGE that shifts current into previous |
| SCD6 | `strategies.py: scd6_merge` | as SCD2, with previous columns | a join with the current rows, then `scd2_batch` |
| Overwrites | `merge_types.py: overwrite, overwrite_partition` | the target's rows | one replacement |
| Guards | `utils/df_validations.py` | none | read a table or a schema, raise |
| Hashes | `utils/df_utils.py` | none | checksum, dimension and fact surrogate keys |
| Configuration | `scd/config.py, columns.py, constants.py, predicates.py` | immutable | validation, names, key conditions |
| Results, exceptions, public API | `scd/results.py, exceptions.py, __init__.py` | none | data classes, lazy imports |

**Interaction.**  The caller passes a DataFrame; the orchestrator calls the
guards, the hashes and then one strategy; strategies call `scd2_batch`,
`upsert_merge` and `_write_df`, which commit to Delta.  There are no threads,
callbacks or messages in the library.  Everything shared is a Delta table:
between two calls of one job, and between the calls of several jobs that write
the same table.

**What is hard here.**

* *Several reads and one or two commits.*  A call reads its target three to five
  times (watermark, emptiness, join partners, MERGE, validation), and each is a
  Spark job that sees the version of that moment.  Only the commit of a MERGE or
  a write is atomic.  SCD4 commits twice.
* *The validation comes after the commit.*  Step 10 raises when the table is
  wrong, but the load is on file by then; a failed call may or may not have
  written, and the caller's answer to either is a retry.
* *Time.*  Validity intervals come from the driver clock read before the commit;
  concurrent calls commit in another order than that of their instants.
* *SQL's NULL.*  Joins and ON conditions use `=`, `groupBy` in the duplicate check
  does not.
* *Options that interact*: `merge_cond` and the staged deletions, or the join of SCD6,
  `delta_col_filter` and deletion by absence, `ignore_update_cols` and checksums.
* *Columns by name.*  A call adds up to seven kinds of columns to its DataFrame, each
  replacing one of the same name in silence, and four checks in four places decide
  which names they ask for, for which merge types.

**What makes each component correct.**

* SCD2: at most one current row per key; versions of a key are disjoint
  intervals; a row that has ended never changes; a committed load is what readers
  see as current; no internal marker row is persisted; an initial load destroys
  nothing; `(ids, end_dt)` stays a key of the table; a row is in the partition its
  control column says.
* Upsert: one row per key; a committed MERGE leaves exactly the snapshot (over the
  earlier rows, or instead of them); targets catch up with a source that has gone
  quiet; an incremental filter loses nothing.
* SCD4: whatever the current table shows is on record in the history; with
  undisturbed calls the last record is the current row, and no change is recorded
  twice.
* SCD0: a protected column never changes.  SCD3: the previous column holds the
  value before the last change.  SCD6: SCD2's properties, and the previous column
  holds the value of the version before.
* Overwrites: exactly the partitions of the predicate change.
* Hashes: two rows that differ in a hashed column differ in their checksum, but for what
  counts as missing; two versions have two surrogate keys.
* Orchestrator, guards and configuration: what a call inserts under a name is what the
  name promises, and what the checks let through the merge can do.

`PROJECT.json` lists these components with their status and, under `hazards`,
each point of the code that a test would hardly reach.

## 2. Modules

| Module | What it is |
|---|---|
| `Scd2Batch` | pure operators: what one call of `scd2_batch` stages and what its MERGE makes of the table |
| `Scd2` | the machine: calls of `scd2`/`scd2_no_delete` by several jobs, step by step |
| `VersionedHistory` | abstract specification: live and past versions, and loads that are asked for and later done at once or dropped |
| `Scd2Proofs` | theorems about `Scd2` and `Scd2Columns` |
| `UpsertMerge` | pure operators: what `upsert_merge` makes of the table, with and without `has_delete` |
| `UpsertProofs` | lemmas about those operators, used by `Scd1Proofs` and `Scd4Proofs` |
| `Scd1` | the machine: a source that goes on changing, the incremental filter, calls of `scd1`/`scd1_delete` by several jobs |
| `Scd1Proofs` | theorems about `Scd1` |
| `Scd4` | the machine: history and current table, two commits, crashes and retries |
| `Scd4Proofs` | theorems about `Scd4` |
| `Scd0` | the machine: the comparisons of the protected columns one by one, then the insert-only MERGE |
| `Scd0Proofs` | theorems about `Scd0` |
| `Scd3` | the machine: the MERGE that shifts values into previous columns, reruns, ignored columns |
| `Scd3Proofs` | theorems about `Scd3` |
| `Scd6` | the machine: the enriching join and `scd2_batch` with two looks at an empty target, by several jobs |
| `Scd6Proofs` | theorems about `Scd6`, its refinement of `Scd2` among them |
| `DfUtils` | pure operators: checksum and surrogate keys as texts, up to the hash functions |
| `Scd2Columns` | `Scd2` with payloads that have named columns, and checksums and keys from `DfUtils` |
| `MergeCall` | one call by the names of its columns: parameters, configuration, schema checks, generated columns, casts, and what each strategy needs and writes |
| `MergeCallProofs` | theorems about `MergeCall` |
| `MCScd0`, `MCScd1`, `MCScd2`, `MCScd2Columns`, `MCScd3`, `MCScd4`, `MCScd6`, `MCMergeCall` | instances for TLC: join functions, payloads, calls and schemas |

`Scd2` EXTENDS `Scd2Batch`; `Scd2Columns` EXTENDS `Scd2` and `DfUtils`.  `Scd6` INSTANCEs
`Scd2Batch` with payloads that have business and previous columns, as `scd6_merge`
calls `scd2_batch` on the enriched rows, with its `merge_cond`, and INSTANCEs `Scd2` for the refinement.  `Scd1`,
`Scd3` and `Scd4` EXTEND `UpsertMerge`: `scd4_merge` calls `scd1_merge`, which calls
`upsert_merge`; `scd0_merge` and `scd3_merge` build the key condition and `merge_cond` in
the same way, for which `Scd0` and `Scd3` EXTEND it.  `MergeCall` stands beside the machines: it
says which calls reach them (with which columns), they say what those do to the rows.  Some
operators are preceded by a variant marked *Mutant*: a plausible bug that stands for
that operator when a property is tested for its power to fail.

### How state and actions correspond to the code

A **row** is a record: `key` stands for the tuple of the columns in `ids`, `val`
for the other business columns (in `Scd4` a record of columns and
checksum, in `Scd0`, `Scd2Columns` and `Scd3` a function of the column names, in `Scd6`
a record of business columns, previous columns and the number of a copy, since the join
gives a source row as often as it has partners).  A Delta table is a bag, so target rows carry an `id` that keeps equal
rows apart; no condition of the code reads it.  `CsOf` and `JoinOf` give a
payload its checksum and a key what MERGE compares of it (the ids, or the fact
surrogate key); both may collapse.

A **call** is the record `job[j]`: `pc` is the step the call will do next, the
other fields what it remembers between steps.  One action is the stretch of
the call between two points where another job can be seen:

| `Scd2` action | Code |
|---|---|
| `Start` | the caller calls `merge_delta_table` |
| `CheckSource`, `RejectSource` | steps 3 to 9: `check_duplicates(df, ids)`, `df.count()` |
| `Inspect` | `scd2_batch`: `now`, `limit(1).count() == 0` |
| `WritePhoto` | the initial load, an overwrite |
| `Merge`, `MergeRefused` | the legs and the MERGE, one Spark plan and one commit; or Delta refuses it |
| `RowCount`, `CheckCurrent`, `CheckBounds` | the three guards of step 10, each a read of its own |
| `Abort` | any exception not named above |

| `Scd1` action | Code |
|---|---|
| `WriteSource`, `DeleteSource` | external: the table the caller extracts from |
| `Start` | the caller takes a DataFrame of it, or of the partitions it names to `overwrite-partition` |
| `Filter` | step 2: `max(delta_col_filter)` of the target, the strict `>`; step 3 |
| `Merge` | `upsert_merge`, `overwrite` or `overwrite_partition`, or Delta refuses the MERGE |
| `Validate`, `Abort` | step 10, of the replaced partitions only for `overwrite-partition`; any exception |

| `Scd4` action | Code |
|---|---|
| `Inspect` | the instant, the emptiness test, whether the target has a checksum column |
| `Compare` | the left join with the target's checksums |
| `AppendHistory` | `_write_df(..., mode="append")`: the first commit |
| `UpsertCurrent`, `UpsertRejected` | `scd1_merge`: the second commit, or Delta refuses it |
| `Validate`, `Abort` | step 10, any exception between any two steps |

| `Scd0` action | Code |
|---|---|
| `Start` | the caller calls `merge_delta_table`; step 3 lets only feeds without duplicates through |
| `Compare`, `Reject` | one turn of the loop over `protected_columns`: a join with the target of that moment, counted |
| `Merge` | the MERGE with `whenNotMatchedInsertAll` and nothing else |
| `Validate`, `Abort` | step 10, any exception |

`Scd3` has the same actions without the comparisons: its `Merge` is the MERGE with the
change condition, the shift and the insertion, or Delta's refusal.

| `Scd6` action | Code |
|---|---|
| `Start` | the caller calls `merge_delta_table`, with a source that step 3 lets through |
| `Look` | `scd6_merge`: `limit(1).count() == 0` |
| `CheckEnriched` | `check_duplicates(enriched, ids)`, which evaluates the join a first time |
| `Inspect`, `WritePhoto`, `Merge` | as in `Scd2`; the join is evaluated again with the MERGE, so `Given` reads the target of that moment |
| `ValidateCurrent` | `validate_no_duplicate_current`, skipped on an initial load |
| `CheckCurrent`, `CheckBounds`, `Abort` | step 10, any exception |

`merge_cond` is a set of payloads, `Scope`: those of the target rows it holds of.  In `Scd6`
it restricts the MERGE, as in the code, and not the join of `scd6_merge`, whose partners are all
the current rows.  The variables `blind` and `beyond` of `Scd6` only remember which calls
saw an empty target and which keys ever had a row out of `merge_cond`; `calm` of
`Scd4` only whether calls have overlapped or stopped between two commits.

| `MergeCall` action | Code |
|---|---|
| `CheckParameters` | `SCDColumns`, `SCDConfig`, the parameter validation of `merge_delta_table` |
| `CheckTable`, `FilterRows`, `CheckDuplicates`, `CheckColumns` | steps 1 to 4 |
| `GenerateChecksum`, `GenerateSk`, `ConvertColumns` | steps 6 to 8 |
| `CheckSource` | `validate_scd_source_columns` |
| `AppendHistory` | the first commit of `scd4_merge` |
| `Merge` | the strategy: its own column checks, and the columns it names |
| `Validate` | the columns step 10 reads |

A column of the working DataFrame `df` is a record of where its value comes from and its
type, a string or a number; `row` is where the columns of an inserted row come from.
`pc = "refused"` is an exception before any write, `"failed"` one in the merge or after.

**Assumed of Delta and Spark (external).**  A MERGE, overwrite or append is
atomic and durable; a MERGE reads the version it replaces; a call that loses an
optimistic race raises (`Abort`); a MERGE in which two source rows modify one
target row is refused; without schema evolution, so is one that sets a column the
target lacks; `whenNotMatchedInsertAll` needs every target column in the source; an insert
with values and an overwrite may leave target columns NULL but name none the target
lacks; an append to the history takes any columns; `withColumn` replaces a column of that
name; a later read sees the last commit.

**Abstracted.**  The caller's DataFrame is one snapshot (a lazy, unpinned source
may be evaluated differently by steps 3, 9 and the MERGE).  Instants are distinct
and rise; a tick is the millisecond by which `scd2_batch` closes a version; the
clocks of several drivers agree.  The start of a version, the driver's instant, also stands for
the `current_timestamp()` that its surrogate key hashes, which Spark takes when it runs the
query.  `Inspect` of `Scd2`, `Scd4` and `Scd6` reads the driver's clock and looks whether the target
is empty in one action, although the look is a Spark job of its own: an instant that is taken and waits is
what the next step has anyway.  Every write of the source gets a stamp of its
own.  In the machines, rejected schemas, wrong types and missing columns are `Abort`: those
steps read and raise before anything is written; `MergeCall` says when.  Business partition
columns other than those `overwrite-partition` names, the values of casts, and logging are
left out.  `sha2` and `xxhash64` are one-to-one.  In `UpsertDelete`, copies of equal rows that
one call inserts count once.

## 3. Runs

Bounds are small because the behaviours are local: no operator relates rows of
different keys except `max` of the watermark, the row count and the surrogate keys, so two
keys show every interaction of keys, and one is enough where only the calls interact.

| Run | Instance | What it shows |
|---|---|---|
| `scd2_serial` | 1 job, 2 composite keys that spell one text, 3 payloads of 3 columns with a NULL, an empty string, one value in two columns and an ignored column, 3 loads on an empty table, partition on `end_dt` | `GuardsSilent`: what MERGE accepts, validation accepts. `Timeline`: versions are disjoint intervals. `PartitionAligned`, `Delivered`. `ChangesSeen`: what is loaded is current in every hashed column, though only checksums were compared. `SurrogateUnique`. `RefinesHistory`: the machine implements `VersionedHistory` with ordered loads: each commit is the load its own call asked for |
| `scd2_concurrent` | 2 jobs, 1 key, 2 payloads, 4 instants on a table already loaded | `UniqueCurrent`, `UniqueBounds`, `HistoryKept` in all interleavings with stale instants; `RefinesUnorderedHistory`: the same, but for the order of instants |
| `scd2_poisoned` | 1 job, 2 keys of which one has a NULL, `merge_cond` on one payload | `LatchedFailure`: from a tombstone on, no call ends well |
| `scd1_concurrent` | 2 jobs, one with `scd1` and `scd1_delete`, one with `scd1`, `overwrite` and `overwrite-partition`; 2 keys of which one has a NULL, 3 stamps, `merge_cond` that leaves one of them out | `LandsSource`: a commit is what its caller passed, over what it may leave. `UniqueKeys` of what MERGE can reach; `BeyondReach`: the rest stays and piles up; `LatchedFailure`: duplicates are reported until an overwrite |
| `scd1_incremental` | 1 job on a fact table, 2 keys with the same components in two orders, 4 writes, `delta_col_filter`, fair | `Catchable`: the filter loses nothing; `LandsSource`, `Converges` |
| `scd4_concurrent` | 2 jobs with crashes, 2 keys, 3 instants, an ignored column, table empty or not, with or without the checksum column | `AuditComplete`; `HistoryMirrors` and `NoRepeats` as long as calls neither overlap nor stop between their commits |
| `scd0_concurrent` | 2 jobs, 2 keys, 2 protected columns and one that is not, 3 commits | `ChangesRejected`: what was on file when a call began is never contradicted by a call that commits, although the columns are compared at different moments; `FirstForever`, `UniqueKeys` |
| `scd3` | 2 jobs, 2 keys, a tracked and an untracked column, each NULL or not, 3 commits, calls that ignore nothing or the tracked column | `ShiftsOnce`: the previous columns are the row before the step; `LandsFeed`; `RerunSettles`: a call made again changes nothing |
| `scd6` | 2 jobs on an empty table, 1 key, 4 payloads of which three agree in the tracked column and one is out of `merge_cond`, 4 instants, partition on `end_dt` | `PreviousIsBefore`: the previous columns are those of the version the MERGE ended; `EndedFiled`; `ChecksSilent`: a check of duplicates fails a call only on a table with a key that has a NULL or had a row out of `merge_cond`; `RefinesScd2`: until such a row is on file, but for previous columns and partition, every step is one of `scd2_no_delete` |
| `merge_call` | 16 calls of all types with 20 variations of each, 18 source schemas, 140 tables | `Provenance`: what is inserted under a name; `AdmittedMerges`: what passes the checks does not fail for a column, nor between two commits |
| `scd2_race` | 2 jobs on an empty table | *violated*: `InitialLoadOnlyOnEmpty` |
| `scd1_delete_filtered` | 1 job, `scd1_delete` with `delta_col_filter` | *violated*: `LandsSource` |

Three loads after the first are what it takes to insert, change, delete and
reinsert a key; four commits of two jobs let each job hold a stale instant while
the other commits twice.  Four writes of the source let one fall between each two
steps of a filtered call.  Three commits of `scd3` are an insertion, a change and a rerun of
it, by either job.  `MaxRuns`, `Vals` (as stamps) and `Ids` are the
counters' bounds; in `Scd1`, one free id per commit is enough and ids are reused.  In
`Scd6`, one key suffices for the join; NULL keys are in `scd2_poisoned`.  Behaviours in which only
the three payloads in scope are loaded are those without `merge_cond`; with the fourth, four instants
are enough for a row out of scope, the rows it causes and a join that doubles.
`scd0_concurrent`, `scd3`, `scd4_concurrent` and `scd6` treat their jobs, and the first two their
keys, as interchangeable (`Symmetry`), which is
sound because no action tells them apart and all their properties are safety.
The machines may start calls for ever until a bound is reached; a state with
no successor would be reported.  A call of `MergeCall` ends, so that deadlock is not checked
there.

Where a run's assumption matters: `GuardsSilent`, `Timeline`, `Delivered`,
`Catchable`, `ChangesSeen` and `Converges` are about one job, `HistoryMirrors` and `NoRepeats` about
one call at a time.  With two,
the row count can report a correct load as wrong, intervals can be inverted (a
version ended before it started), and a filtered call can write older rows back
under a watermark that has passed the newer ones.  No document of the repository
promises otherwise.

### Fairness

Only `Scd1` has a liveness property, checked with one job and the filter, and the only
scheduler is outside the library.  `FairSpec` assumes of it that each job is run again and again (weak
fairness of `Start` and `Validate`) and that not every run of it fails before it
commits (strong fairness of `Filter` and `Merge`, each of which competes with
`Abort`).  The source is under no fairness: `Converges` concerns behaviours in
which it goes quiet, and every behaviour of the instance does since stamps are
bounded.  Deletions are not bounded, but only a row that was written can be deleted.

### Findings

* `scd2_race` — the emptiness test and the overwrite are two transactions.  A call
  whose test came before another job's first load overwrites that load; both calls
  succeed.
* `scd1_delete_filtered` — `delta_col_filter` is refused for `scd2` because that is
  full-snapshot mode, but accepted for `scd1_delete`, which is as well: the rows the
  filter dropped look absent and are deleted.

Further observations made while modelling, without a run of their own:

* `values_to_delete` of `scd2_batch` stages every current row that the source lacks, also
  those `merge_cond` excludes.  These match nothing in the MERGE and are *inserted*: rows
  with `scd_checksum = 'deleted'`, `scd_is_current = 0` and no start, whereas
  `tests/test_merge_types.py` says that no such row is written.  Such a row has the
  `end_dt` of its still current sibling, 9999-12-31, so the validation fails from then on,
  for good: that consequence is `LatchedFailure` in `scd2_poisoned`.  Keys with a NULL take
  the same way, since they match nothing.
* `scd0_merge` compares only with the rows it sees: a row that another job inserts between
  the comparison and the MERGE is passed over in silence, and the call succeeds although its
  protected columns differ.  `ChangesRejected` therefore speaks of the rows on file
  when the call began; without `r.id < job[j].began` it fails with two jobs.
* A call of `scd4_merge` that stops between its two commits has recorded rows that never
  became current; its retry finds the old checksums and records them again
  (`NoRepeats` without `calm` fails), although `tests/test_scd_strategies_unit.py` says that
  an unchanged checksum is not recorded twice.  On a current table without a checksum column,
  it appends everything and is then refused by Delta, because the upsert sets the column that
  step 6 added.  `AdmittedMerges` allows just that.
* With `ignore_update_cols`, `scd4`'s history shows an ignored column's new value, the
  current table the old one beside the new checksum; they never meet again.
* `scd3_merge` shifts on a change of any column, so a change of an untracked column
  makes previous equal to current; and with an ignored column that differs, every rerun
  shifts again, so that one rerun wipes out the value before the last change.  `RerunSettles`
  and `ShiftsOnce` name the exception; `README.md` of the repository says that "reruns remain
  idempotent".
* `scd6_merge` joins with every current row, and its `merge_cond` reaches the MERGE alone.  A current
  row out of scope whose source changes is a partner of the join and is staged as changed, but does
  not end: both the new-rows leg and the changed-rows leg are inserted, the key then has three
  current rows, the checks raise, and the new rows' previous columns show a version that is still
  current.  If another job commits this between the check of the join and the MERGE, the join
  that the MERGE evaluates doubles the source row, which `scd2_no_delete` with the same `merge_cond`
  would not, so that even after an overwriting initial load the key may begin with equal rows.
  `PreviousIsBefore`, `ChecksSilent` and `RefinesScd2` are therefore about the keys, or the time, before a row
  out of `merge_cond` is on file (`beyond`); each of them fails in the run `scd6` without that condition.
* An `scd6` call that saw an empty target and commits after another job's first load inserts
  versions without previous values and partition: the versions in `blind`.
* With `has_delete`, a row with a NULL in its ids is staged for deletion by every call,
  matches nothing and is inserted again (`BeyondReach`).  A key whose row `merge_cond` leaves out is
  inserted a second time.
* `overwrite` with `delta_col_filter` is accepted, and replaces the table by the rows after
  the watermark, as `scd1_delete` would.
* `xxhash64` passes over NULLs: of a fact table, keys that differ in the place of a NULL share a
  row.  Texts with `||` in them can share a checksum.
* `column_check` asks nothing of the target's `sk_*` columns that the source lacks: a call that
  forgets `sk_name` inserts NULL keys (`Provenance` names the exception).  A dimension's key
  under a name without `sk_` in a column of numbers is cast to NULL.  A source column `deleted`
  is overwritten by the flag of `scd1_delete`, where the target has one.
* `sk_name`, `part_name` and the previous columns are not compared with each other: a surrogate
  key named like the checksum takes its place.
* The names under which `scd2_batch` stages its keys (`merge_key1`, ...) are not reserved: a
  source column, or a previous column of `scd6`, with such a name passes all checks
  (`AdmittedMerges` names the exception).
* Step 8 casts columns to the target's types, but step 4 has already refused a source whose
  types differ: of the columns `column_check` compares, none is ever cast to another type,
  whatever the repository's `README.md` says of casting.
* `SCDConfig.delete_mode` is validated and never read, although the README calls the
  deletes of `scd4` configurable.

## 4. Proofs

The theorems hold for any sets of jobs, keys and payloads and any bound; none
restricts how calls interleave or fail, but where `OneJob` says so.  Every theorem
that states a property of a run names it.

| Theorem | Under | Argument |
|---|---|---|
| `Scd2Proofs!TypeCorrect` | – | `TypeOK` with the rows of the staged legs typed one by one |
| `Scd2Proofs!UniqueCurrentAlways` | `Plain` | the feed of every call past step 3 has one row per key, and then MERGE inserts a current row only for a key whose current row it closes or that has none |
| `Scd2Proofs!UniqueBoundsAlways` | `Plain` | `BoundsInv`, below |
| `Scd2Proofs!PartitionAlwaysAligned` | `Plain` | `RowInv`: a current row ends at `Forever` and has the partition of that; the update clause moves it with its end |
| `Scd2Proofs!ComparableAlwaysUnique` | `Scope = Vals` | the same two invariants of the keys without a NULL: what MERGE cannot compare does not disturb what it can |
| `Scd2Proofs!DuplicatesNeverReported` | `Plain` | the two checks read a table of which the two theorems above hold |
| `Scd2Proofs!VersionsAlwaysTrue` | – | row by row of the legs and the MERGE; tombstones are excepted |
| `Scd2Proofs!InitialLoadAlwaysOnEmpty` | `Seeded` or `OneJob` | `PhotoInv`: a call that is about to overwrite found the table empty, and nothing can have filled it |
| `Scd2Proofs!HistoryAlwaysKept` | `Seeded` or `OneJob` | `PhotoInv`: no initial load meets rows, and a MERGE touches current rows only |
| `Scd2Proofs!RefinesUnorderedHistoryAlways` | `Plain`; `Seeded` or `OneJob` | `LoadInv`, and what a MERGE amounts to, below |
| `Scd2Proofs!TimelineAlways`, `RefinesHistoryAlways` | `Plain`, `OneJob` | `SerialInv`: every start and end on file is before the instant of the call in flight |
| `Scd2Proofs!DeliveredAlways`, `GuardsAlwaysSilent` | `Plain`, `OneJob`; the latter with finitely many keys | `SilentInv`: from the MERGE to the last guard the current rows are those of the feed, one for one |
| `Scd2Proofs!ChangesAlwaysSeen` | `Plain`, `OneJob`, `Columnar`, `ChecksumsApart` | `DeliveredAlways` with checksums read back to the columns; for the second part `StartsInv`, below |
| `Scd2Proofs!SurrogateAlwaysUnique` | `Plain`, `Columnar`, `SurrogatesApart` | `StartsInv`: the versions of a key begin at different instants; ids and instant are read back from the text |
| `Scd2Proofs!FailureStaysLatched` | `Seeded` or `OneJob` | `PoisonInv`, below; any keys, any `merge_cond` |
| `Scd1Proofs!TypeCorrect` | – | with the source's and the feeds' uniqueness, which no step disturbs |
| `Scd1Proofs!UniqueKeysAlways` | `KeysApart`, `PartByKey` | `UpsertUnique` and `UpsertDeleteUnique` of `UpsertProofs`, for the rows MERGE can reach, and that a replaced partition holds all rows of its keys |
| `Scd1Proofs!CatchableAlways` | `PlainKeys`, `Overwriting`, `OneJob`, filter set, `UpsertsOnly` | `WatermarkInv`, below |
| `Scd1Proofs!LandsSourceAlways` | `KeysApart`, `Overwriting`, no filter | `WholeFeed`: what a call merges is the snapshot it was given; then clause by clause of the MERGE |
| `Scd1Proofs!LandsFilteredAlways` | as `CatchableAlways` | `WatermarkInv`: what the filter dropped is on file already |
| `Scd1Proofs!BeyondReachAlways` | – | clause by clause: no clause matches such a row, and what has a NULL in its ids is inserted under a new id |
| `Scd1Proofs!FailureStaysLatched` | `KeysApart`, `CondOnUpdated` | `Identified`, below: of two rows with one key, either both are beyond reach, or both are matched by the same source row and updated alike, or MERGE is refused |
| `Scd3Proofs!TypeCorrect`, `ShiftsOnceAlways` | `Tabular` | a MERGE sets a row's previous columns from the row it read |
| `Scd3Proofs!LandsFeedAlways`, `RerunAlwaysSettles` | `Tabular`, `PlainKeys` | one row per key in the feed and the table, so that each target row has one partner; after the MERGE the change condition holds of none |
| `Scd4Proofs!TypeCorrect` | – | with the instants of calls in flight |
| `Scd4Proofs!AuditAlwaysComplete` | `PlainIds`, `ChecksumUpdated` | `AuditInv`, below |
| `Scd4Proofs!UniqueKeysAlways` | `PlainKeys`, the starting rows have one per key | `UpsertUnique` |
| `Scd4Proofs!HistoryAlwaysMirrors`, `NeverRepeats` | `PlainKeys`, `FaithfulPayloads` | `CalmInv`, below |
| `Scd0Proofs!TypeCorrect` | – | call by call |
| `Scd0Proofs!ChangesRejectedAlways` | – | `RejectInv`, below |
| `Scd0Proofs!FirstForeverAlways` | – | no step takes a row away or changes one |
| `Scd0Proofs!UniqueKeysAlways` | `PlainKeys` | `InsertUnique`: what is inserted has keys the table of that moment has not, and the feed of a call has one row per key |
| `Scd6Proofs!TypeCorrect`, `PreviousAlwaysBefore`, `EndedAlwaysFiled` | – | `Inv`, below |
| `Scd6Proofs!ChecksAlwaysSilent` | – | where the rows on file have no NULL keys and no key in `beyond`: from `Inv` one current row per key, and each key ends one version at an instant (`EndsOnce`), which a commit keeps as its instant is its own |
| `Scd6Proofs!RefinesScd2Always` | – | `StepBare`, below, for the steps from states with `beyond = {}` |
| `MergeCallProofs!TypeCorrect`, `ProvenanceAlways`, `AdmittedAlwaysMerge` | – | `Inv`, below |

The assumptions are on constants only.  `Plain` stands for `NullKeys = {}` and `Scope = Vals`:
no key has a NULL and there is no `merge_cond`.  What goes wrong without it is
in the findings, and `LatchedFailure`, which is about just that, does not assume it.  The theorems about
`Scd6` hold for any NULL keys and any `merge_cond`: what these make impossible is said in the properties.
`PlainKeys` says that MERGE compares the
ids themselves, none has a NULL, and there is no `merge_cond`; `PlainIds` only that
MERGE tells different keys apart; `KeysApart` that it tells apart those
without a NULL, `merge_cond` being free.  `Overwriting` says that nothing is in
`ignore_update_cols`, `ChecksumUpdated` only that the checksum is not, `CondOnUpdated` only
that `merge_cond` does not ask for a column that is.  `OneJob` says that
there is at most one job, `UpsertsOnly` that it calls with `scd1`, `Seeded` that the table has rows at the
start, `PartByKey` that a key has one partition.  `Tabular` says that payloads are all the functions from some set of
columns to some set of values; `FaithfulPayloads` that the checksum of a source row tells it from
every other source row, that the table's first rows were a source too, and that to keep the ignored columns twice, or of an equal row, is
to keep them once.  `Columnar` says that checksums are
those of `DfUtils`, hashed columns exist, and each key has a text for every one of the ids.  `ChecksumsApart` and
`SurrogatesApart` say that two sequences of tokens joined with `||` to one text are one
sequence, for the payloads, and for the ids, checksums and instants of the instance.  Nothing in the code ensures it, since
a value may contain `||`; it is what the hashes promise at best, and TLC evaluates it on the instance of
`scd2_serial` (`TextsAssumption`).  `MergeCall` assumes
that a call has the parameters of `merge_delta_table` and that types are strings or numbers.

Why the invariants have to be stronger than the properties:

* *Unique ends.*  That `(ids, end_dt)` is a key does not follow from its own truth
  before the step: the call about to MERGE closes with the instant it took long ago.
  `BoundsInv` adds that the instants of calls about to commit are pairwise distinct
  and that no row on file already ends one tick before one of them.
* *History.*  `PhotoInv` adds that a call about to overwrite has found the table empty and it
  still is, because the table had rows from the start or there is no other job; the run `scd2_race`
  shows what happens without it.
* *Keys without NULL.*  `KeyedInv` and `KeyedBoundsInv` are the invariants of unique current rows and ends for the
  rows of such keys alone.  A row with a NULL in its key is inserted by every call and closed by none, but no
  clause relates it to another key's.  `merge_cond` is excluded: the leg of the changed rows joins with all
  current rows, the MERGE matches those in scope, and a key whose row is out of scope gets a second one.
* *Starts.*  A surrogate key names a version if the versions of a key begin at different instants, and that a version
  differs from the one before needs both at the moment of the commit.  `StartsInv` says that a key begins
  one version at an instant, none at the instant of a call about to commit, and that a version has another
  checksum than the one that ended a tick before it.
* *The refinements of* `VersionedHistory`.  Three staged legs, merge keys, a sentinel and two clauses have to
  be one abstract step: the live versions of keys that changed or vanished end, those of the feed
  begin.  With unique current rows, checksums that are those of the payloads and
  `Forever` as the end of just the current rows (`RowInv`), a lemma gives the rows after a MERGE without legs
  and keys; the refinement and `Delivered` follow from it.  `LoadInv` says which loads are
  asked for: those of the calls about to commit, under instants of their own.
* *Guards.*  `GuardsSilent` compares numbers of rows: with one row per key on both sides, `Delivered` maps the feed
  into the current rows, and onto them for `scd2`, so that the counts agree.  Hence `SilentInv`
  is the two together.
* *The latched failure of* `Scd2`.  `PoisonInv` says that a tombstone ends where current rows do, and that beside it there is a
  current row of its key that is not reached: the key has a NULL or the payload is out of scope.
  No clause touches either, so the duplicate outlives every MERGE.
* *Watermark.*  `Catchable` is about the source now, but a call merges a snapshot it
  took earlier.  `WatermarkInv` says of a call in flight that its snapshot is itself
  within reach, that whatever the source has beyond the snapshot is stamped after
  the snapshot and after the target, and that what it will merge is what the
  filter gives *on the present target*.  The last part needs `OneJob`, and is what
  breaks with two jobs.  `MergeReaches` is the step: a row the filter kept is merged;
  a row it dropped was in the target and no merged row has its key.
* *The latched failure of* `Scd1`.  Two rows with one key that an update makes alike are still
  two, because an id is used once for a key that a MERGE can match (`Identified`); ids are
  otherwise reused.
* *Audit.*  `AuditComplete` is disturbed by the upsert, whose rows were recorded by
  another step, or left out there because the current table had them.  `AuditInv`
  carries over: what a call is about to append and the history together
  have every row of its feed, and from the append on the history alone has.  History
  only grows, so another job's steps cannot disturb it.
* *Mirror.*  `HistoryMirrors` speaks of the time between calls.  `CalmInv` says what holds within one as long as
  none has overlapped or stopped: before the append the tables agree; what is about to be
  appended is what the current table lacks; after the append the last record of a key is that of the feed, where the
  feed has it, and agrees with the current row elsewhere; and all instants on record are
  before that of the call.
* *Rejected changes.*  `ChangesRejected` is about all columns at once and the table now,
  but each column was compared alone with an earlier table.  `RejectInv` says of a
  call at column *n* that its feed agrees in the columns before *n* with the rows on file
  when it began.  `Compare` extends this by one column; a commit of another job adds only
  rows whose commit is not before the call's beginning, which is why the rows' ids
  and the commit count are part of the invariant.
* *Previous columns.*  A version of `Scd6` is compared with the one that ended a tick before it began, which must be the one
  the MERGE ended and no other.  `Inv` therefore has instants of the calls in flight that differ from each
  other and from all on file, which of them are `blind`, and, for the keys that are not in `beyond`, that
  their rows are in reach of the MERGE, one current row per comparable key, and ids that
  are unique within a key.  A key in `beyond` has none of this, nor does it keep it from the others: the
  rows that a MERGE stages for a key come from that key's rows alone.  It has to be remembered, since an initial
  load may take the row out of scope away while a call that joined with it is still to commit.
* *The refinement of* `Scd2`.  `Bare` takes the previous columns and the partition from a row.  Lemmas carry it through
  the operators of `Scd2Batch` one by one: while no row was ever out of `merge_cond`, the checksum does not
  see the previous columns and the join gives each source row one partner at most (from the unique current rows), so the legs, the refusal, the clauses and the
  duplicate checks of the bare table are the bare ones of the table.  `StepBare` then maps each action.
* *Columns.*  `Provenance` is about the inserted row, which only exists after the commit.  `Inv` of
  `MergeCallProofs` says at each step where the columns of `df` come from (`Holds`: from the source, or
  under the names of the checksum and the surrogate key), which checks are behind the
  call, and that step 10 finds its columns.  The key lemma is that `column_check` leaves out every
  generated name (`GeneratedUnchecked`), so that a source that passed has none of them.

Three models had to be corrected or sharpened for their proofs.  `TypeOK` of `Scd3` bound the union of its
target rows wrongly.  `Filed` of `Scd6` looked for the former row by its id alone, which two
keys may share; it now asks for the key and the payload too, as with two keys TLC violated `EndedFiled`.
`Scd6` had to remember the keys in `beyond`: that no row out of scope is on file is not
enough, by a behaviour of five instants, one more than the run has: an initial load without rows empties
the table, and a call that had joined with it overwrites, with doubled rows, what came after.
`AdmittedMerges` excused every versioned call without a partition, and did not excuse a previous column with a
staging name of `scd2_batch`, which no check forbids.

**Only model-checked.**

* `Converges`: liveness under fairness, out of the prover's reach.
* What the folds of `DfUtils` compute: that would take induction over data.  `ChangesAlwaysSeen` and
  `SurrogateAlwaysUnique` therefore start from texts that can be told apart, which TLC evaluates for the instance.
* The two runs that find a violation.  `InitialLoadAlwaysOnEmpty` and `LandsSourceAlways` prove the same
  properties where they do hold, which bounds the findings: the first needs two jobs on an empty
  table, the second the filter.
* That `scd6` without `merge_cond` inherits what `Scd2Proofs` proves is not a theorem of its own: `RefinesScd2Always`,
  with `beyond` empty for ever, and the theorems about `Scd2` have to be read together.  `tlapm` does not use theorems of an instance of
  `Scd2Proofs`.
* `HistoryMirrors` and `NoRepeats` with calls that overlap, `GuardsSilent`, `Timeline`, `Delivered` and
  `Catchable` with several jobs do not hold and are claimed nowhere.

## 5. Plan

Done, in this order, the most used strategies first: `Scd2Batch`, `Scd2`,
`VersionedHistory`, `Scd2Proofs`; `UpsertMerge`, `Scd1`, `Scd4`, `Scd0` and
their proofs; `Scd3`, `Scd6`, the overwrites in `Scd1`, `merge_cond` and NULL keys there,
`ignore_update_cols` in `Scd4`; `DfUtils` and `Scd2Columns`; `MergeCall`; the refinements and
one-job properties of `Scd2`, then `Scd3Proofs`, `Scd6Proofs`, `MergeCallProofs`; last the
texts of `Scd2Columns` and the keys that can be compared.

`merge_cond` in `Scd6` came last.  Every invariant and action property of the runs that pass is now stated by
a theorem (and `TypeOK` of `Scd6` by a theorem only).  Two extensions were
looked at and are false of the code: `UniqueCurrent` with `merge_cond`, as above, and `LandsSource` with
the filter where an overwrite is among the calls, since the filter leaves it with a part of the
source.  What could be added are models of what the next section lists.

## 6. Not modelled

* The text checks of `overwrite_partition` on its predicate (`OR`, `IS NOT NULL`, a word for
  each partition column) and the syntax of identifiers: they read text and raise, before
  anything is written.  `path_type` only chooses between two ways of naming a table.
* Types beyond a string and a number, the formats of dates, and what a cast does to a value.
* A DataFrame that changes while a call runs; stamps that two writes share; rows that other
  tools wrote into a target, as those with a NULL checksum, which no update clause of `scd2_batch` matches.
* Results, exceptions, the public API, logging, packaging, containers and CI keep no state.
  `scd2_cdc` always raises: in `MergeCall` it does, in the machines it has no step.
* The tests were read for what they promise.
