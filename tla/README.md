# A TLA+ verification of brus-backend-common

`brus_backend_common` is the shared Python library of the BRUS data pipeline: it
describes the tables of an S3 lakehouse (bronze, silver and gold buckets), and
holds the scripts that extract data from outside services and load it into those
tables.  This directory models the parts of it that take several steps against
shared state, checks them with TLC on small instances and proves the most
important results with TLAPS for every value of the constants.

Paths below are relative to `brus_backend_common/` unless they start with `src/`.

## 1. Inventory

### The system and its shared state

There is no database and no lock.  All state that outlives a process is an object
in S3, read and replaced as a whole: `CSVModel.exists` and `to_pandas_df` are one
`get_object`, `CSVModel.save` is one `put_object`.  The scripts are separate
processes started by a scheduler or by hand.  They meet in

* the bronze, gold and public objects of each data set, and
* one registry file shared by everybody, `external_load_date.csv`
  (`ExternalDataLoadDate`), to which `update_external_data_load_date` writes.

```
 Grants.gov --> extractors/fon.py --> FONBronze --> loaders/fon_gold.py ---> FONGold, public CSV
 upload ----------------------------> PARK bronze -> loaders/park_gold.py --> PARK gold
 upload, groups, GovInfo -----------> DEFC bronze -> loaders/defc_gold.py --> DEFC gold, public CSV
 upload ----------------------------> agency bronze -> loaders/agency_gold.py -> CGAC, FREC, SubTier
                        each of them --> external_load_date.csv (the registry)
```

### Components

| Component | Code | State it keeps | Operations | What is hard | What makes it correct |
|---|---|---|---|---|---|
| Load date registry | `models/lakehouse_model.py:399-591` | one CSV object, a row per name | upsert (read, second read in `next_id`, put), recreate | concurrent read-modify-write of the whole file; crash between calls | one row per name, own ids, other rows kept |
| PARK loader | `scripts/loaders/park_gold.py` | gold file, its load date | skip decision, load, date | time of upload read before the file; whole-second stamps; kills; other loaders' writes of stale registry rows | a load date never hides an upload that was not loaded |
| FON extractor | `scripts/extractors/fon.py` | bronze file | page loop, save, date | the remote list changes between pages | pages fit: nothing lost or repeated |
| FON loader | `scripts/loaders/fon_gold.py`, `helpers/pandas.py` | gold file, public CSV, date | clean, diff, save, publish, date | three writes, skipped runs that still record a date, local files | gold and date catch up; date sound; public follows gold |
| DEFC loader | `scripts/loaders/defc_gold.py` | gold file, registry, public CSV | derive, diff, save, date, export | three writes in order, only the first is compared next time; four inputs | a loaded run leaves public = gold; convergence |
| Agency loader | `scripts/loaders/agency_gold.py` | three gold files, three dates | check, read, per table: clean, diff, save, date | an exception between tables; a date that cannot be formatted | three tables of one file; loaded tables dated |
| HTTP retry helper | `helpers/scripts.py:35-124` | locals | call, sleep, raise | loop bound and retry budget interact | a result only after a success; the problem is raised; ends |
| CSV models | `models/lakehouse_model.py`, `models/reference.py` | the CSV objects | exists, count, next_id, initialize, save, read | see the loaders | see the loaders |
| Cleaning and diff | `helpers/scripts.py:127-316`, `helpers/pandas.py` | none | clean_data, check_dataframe_diff, conversions of single values | a strict threshold, required values before padding, ties of the sort | no row without a required value; fails exactly below 99 of 100; sees every change of content |
| Delta models, migrations | `models/lakehouse_model.py:60-396`, `scripts/create_migrate_lakehouse_model.py` | Delta tables, `current_migrations.csv` | initialize, migrate, save | creation in two steps; an argument looked at after the table was recreated | a create that ended well leaves a table that is complete |
| Query loading | `scripts/load_query_to_lakehouse.py` | Delta tables | a chain of queries | one of several fails; queries that call other scripts | the whole chain in order; failures reach the outermost caller |
| Generic helpers | `helpers/generic.py` | none | step, batch, fiscal year and period, deep_merge | bounds of slices, ends of years | equal to a reference definition |
| S3 helpers | `helpers/aws.py` | objects | download with retries, rename, list, delete | copy then delete; pages and limits of requests; other writers | no object lost; no key missed; no download without a file |
| Spark sessions, jobs | `helpers/spark.py`, `models/jobs.py` | the active session | create or reuse, stop | nested scripts share a session | only the creator stops it |
| URI retrieval | `helpers/uri.py` | none | dispatch on scheme | - | - |
| Configuration, lookups, logging | `config.py`, `lookups.py`, `logging.py`, `helpers/configs.py` | constants | - | - | - |
| Broker and USAS models | `models/broker.py`, `models/usas.py` | class dictionaries | - | - | - |

`PROJECT.json` lists the same components with their status and, under `hazards`,
every place in the code that is hard to test, at its line, with the properties
that cover it or the reason why none does.

### How the components interact

A loader calls the registry update after it has saved its table (DEFC and FON
and agency between or after other writes).  The loaders never call each other,
they interact through the objects: the FON extractor's `save` is what the FON
loader reads, and every registry update copies every other script's rows.  The
only component that also *reads* a decision from the registry is PARK.  DEFC uses
the HTTP retry helper to ask GovInfo.  `create_migrate_lakehouse_model
--recreate` blanks any of the objects at any time.  The helpers of `helpers/` are called by
the scripts, by other projects that use the library, and share no state with each other.

## 2. Modules

| Module | Models | Kind |
|---|---|---|
| `LoadRegistry` | what the registry promises: an atomic upsert of one's own row | abstract specification |
| `LoadDates` | `update_external_data_load_date`, `next_id`, `save`, `initialize`, call by call | detailed specification |
| `ParkGold` | `ParkLoader`, composed with `LoadDates` (EXTENDS; a PARK process enters the update with its start) | component, composition |
| `DefcGold` | `defc_gold.main` | component |
| `FonExtract` | `extract_fon_data` and `main` of the extractor | component |
| `FonGold` | `fon_gold.main`, `check_dataframe_diff` by outcome | component |
| `AgencyGold` | `agency_gold.main`, `load_cgac`, `load_frec`, `load_subtier` | component |
| `SparkScripts` | `create_migrate_lakehouse_model.main`, `load_query_to_lakehouse.main`, `SparkScriptSession`, the session of `LocalStrategy`, `DeltaModel.initialize` and `load_queries` | component |
| `RetryGet` | `get_with_exception_hand` | component |
| `S3Helpers` | download, rename, delete and list of `helpers/aws.py`, request by request | component |
| `GenericHelpers` | `fy`, `fy_period_calendar_dates`, `batch`, `step` | algorithms |
| `RowHelpers` | `clean_data`, `check_dataframe_diff`, the row derivations of the DEFC loader | algorithms |
| `Helpers` | a call of any of these helpers (EXTENDS the four modules) | composition |
| `LoadDatesProofs`, `ParkGoldProofs`, `DefcGoldProofs`, `FonExtractProofs`, `FonGoldProofs`, `AgencyGoldProofs`, `SparkScriptsProofs` | theorems about the module of that name | proofs |
| `HelperProofs` | theorems about `RetryGet`, `S3Helpers`, `GenericHelpers`, `RowHelpers` and `Helpers` | proofs |
| `MC...` | model values and definitions for TLC | instances |

Every module has the same shape.  A process is a record in `run`, `job` or `park`
with a `pc` and its locals; one action per stretch of code between two calls to
the outside (S3, a service); an ended process resets its locals and keeps only
how it ended.  Actions that are not the program's (uploads, people, services, kills)
stand in a section "The environment".  The operators called "Mutant of X" are
variants of X with a plausible mistake; no specification uses them, they show
that the properties notice the mistake.

### LoadDates and LoadRegistry

`dates` is the set of rows of the CSV object, `datesExist` whether the object is
there.  `Begin` takes the start time and stands for the load itself, `ReadDates`
is `to_pandas_df` (line 560), `NextId` the second read in `next_id` (line 431),
`SaveDates` the put (line 591), `Crash` a kill or a failed call between two of them.
`Upserted` is the branch of lines 572-590.  With `MaxInFlight` scripts in flight
the calls of different scripts interleave freely.  `LoadRegistry` knows a function from names
to `[id, start]` and two atomic steps.  The refinement
(`Registry == INSTANCE LoadRegistry WITH ... table <- Table`) is checked, and
proved, as `ImplementsRegistry` for scripts that run one after the other: the reads are
stutters, the put is the upsert, and load dates of a name only grow.

### ParkGold

Files are versions of the upload they hold.  `Head` reads `LastModified`,
`CheckRegistry`/`InitRegistry` are lines 59-61, `Decide` is the comparison of
line 76, `ReadBronze` the read and clean, `SaveGold` the save of the gold table
and the call of the update with the *start* of the load.  The loader's steps
`Start` (without `-f`) to `SaveGold` interleave with uploads, with recreated files, with kills
and with other loaders that carry copies of the PARK row in their dataframes.
`Granule` is how many ticks of the loader's clock a whole second of S3 is worth:
an upload gets any stamp less than `Granule` ticks behind the clock.

### RetryGet

`Call` is one turn of the loop: one request, any of the answers the two except
clauses tell apart, and what follows from it; `Sleep` is lines 111-117; `FallOut`
is the loop condition failing, after which line 124 reads a local that is not
bound.  The order of `validate` and `decode` inside a turn is not visible to the caller
and folded into the answers.

### DefcGold

A table is the triple of what it is derived from (raw file, groups, answer of
GovInfo), so two tables are equal when `check_dataframe_diff` finds no
difference.  `CheckTables`, `ReadRaw`, `Derive`, `Diff`, `SaveGold`, `Record`,
`Export` follow `main` from line 203 to 317.  The history variable `cut` says that
some execution ended between its save and its export.

### FonExtract

`remote` is the list that Grants.gov serves, in order; `Publish` and `Withdraw` change it
between two requests.  `FirstPage` is the first request with the hit count,
`NextPage` a turn of the loop, `Save` the save of the bronze table, `Fail` any
exception.  `kinds` remembers how the list has changed since the first answer.

### FonGold

`Read` (read and clean), `Diff`, `Save`, `PublishNumbers`, `Record` follow `main`.
A moment is the number of uploads so far, and the load date is a moment.
`behind` remembers that the gold table was last saved by a run that did not
publish it (no `-p`, or killed before the upload).

### AgencyGold

A raw file says per table which version of rows it holds, or that it uses one of
the custom codes, or that it has no rows.  `Compare` is the clean and the
comparison at the head of each `load_*` function, `Save` the save, `Date` the
registry update that follows, after which `main` goes on to the next table.
`Check` takes the start time and chooses `whole`: whether it has no microseconds.

### SparkScripts

A process has at most one active Spark session (`session`), and a stack of open
scripts (`frames`): a query may be a callable, and a callable may call the main of
another script.  `Enter` is `SparkScriptSession.__enter__`, `Exit` is `__exit__`, which runs
whether or not an exception is on its way out (`raising`).  Between them
`InitializeTable`, `AddFeature`, `CheckMigrate` are the body of
`create_migrate_lakehouse_model.main` and `CheckExists`, `Query` that of
`load_query_to_lakehouse.main`.  A Delta table is the log of the queries that wrote it.
A process in `Inherits` starts with a session of its caller, as a test or a Django
command may.  The body of a local job is `pass` today, so that a job only opens
and closes its session; the missing `try` around the `yield` in `models/jobs.py:60` cannot bite
yet and is what the variant `StopsIfOk` stands for.  No Delta model is registered in
`LAKEHOUSE_MODELS` in this repository: the Delta tables are those that the projects using
the library define, and a load of a CSV table always raises.  `CheckMigrate` is exact: without
`--migrate`, or with 0, a create ends; with any other value it raises, after the table was
initialized.

### S3Helpers

One bucket, and one call of a helper on it.  `Attempt` is a turn of the loop in
`download_s3_object` (lines 222-246), `NoAttemptLeft` its end without a turn; `Copy` and `Delete` are the
two requests of `rename_s3_object`, the second one also `delete_s3_object`; `ListPage` is one answer to
a listing, with the pages the resource API asks for by itself, and `DeleteObjects`
the request of `delete_s3_objects`.  A request that changes the bucket may have had its effect
although it raises.  `Put` is another process, `S3Kill` a kill.  `before` and `touched` remember
the bucket at the time of the call and the keys others have written since.

### GenericHelpers and RowHelpers

Pure functions, as operators without recursion.  `Slice` is Python's `a[i:j:sign]` for the bounds `step`
can compute, `Steps` what `step` yields, `Batch` what `batch` yields.  A date is a
record, `PeriodStart` and `PeriodEnd` are the two results of `fy_period_calendar_dates`.

A table is a function from its index to its rows, as a dataframe is; of a column only what the code tells apart is kept.
`NotNull`, `Kept`, `Padded`, `CleanRows`, `ThresholdExceeded` are the steps of `clean_data` in their order; the rows it keeps keep their
index.  In the run the tables given to it are runs of equal rows (`MCHelpers`), so that those of a hundred rows, where the threshold bites, are few.  `Differ` is `check_dataframe_diff`
for a given order of ties: `sort_values` by one column sorts ties in any order, but
equal key columns in the same way.  `Merged` is the merge of the DEFC loader on the public law,
as pairs of a row and a derived row of its title, `Earliest` the date of a derived row, `GroupOf` the group mapping, and `DefcRows` the
table with the added outliers.

### Helpers

A behaviour is one call: of the retried GET (`user = "http"`), of an S3 helper
(`"s3"`), or of a pure function with any of `Arguments` (`"pure"`).  `CallPeriod` to `CallDefc` add the
errors the functions raise themselves to what their operators return.  The tables among the arguments are constants, sets of sequences of rows
(`TablesAssumption`), to which the run gives small values and the theorems none.

## 3. Runs

| Run | Question | Bounds | Distinct states |
|---|---|---|---|
| `LoadDates_serial` | do scripts that run one after the other (two of them for the same name) implement the abstract registry? | 3 scripts, 1 in flight, clock 7 | 823 |
| `ParkGold_one` | does the load date ever hide an upload, is a skip justified, are names unique, with everything interleaved? | 1 PARK process, 1 other loader overlapping, second = 2 ticks, clock 6 | 470,835 |
| `Helpers_calls` | does every helper, on any argument, end as it says? | budgets -1 to 13; 3 keys, 2 with the prefix, 2 contents, pages of 1, deletes of 2, retry counts -1, 0, 2, 2 writes by others; lists of 5, steps up to 6, tables of 3 rows to compare, of up to 102 rows to clean, raw DEFC tables of 3 with 3 titles | 538,183 |
| `DefcGold_kills` | gold, public and inputs over many runs, with one kill and three changes | 2 raw files, 2 group files, 3 answers | 102,248 |
| `FonExtract_append` | do pages fit while the list changes, is anything pulled twice? | lists of up to 5, pages of 2, 2 changes | 59,742 |
| `FonGold_runs` | gold, date and public over uploads, manual runs and a kill | 3 uploads, 2 contents, 1 manual run, 1 kill | 159,586 |
| `AgencyGold_kills` | three tables, one file, whatever stops a run | 2 versions, 2 changes, 1 kill | 349,535 |
| `SparkScripts_nested` | who stops a session, and what is true after a script that ended well? | 2 processes, one with its caller's session; 1 Delta table with 2 queries, 1 CSV table; 3 scripts, nested up to 3 deep | 357,450 |
| `LoadDates_lost` (violation) | is another script's row kept? | 3 scripts, 2 in flight | - |
| `ParkGold_second` (violation) | is a skipped upload always a loaded one? | as `ParkGold_one` | - |
| `RetryGet_default` (violation) | is the problem what is raised, with the default budget? | budget 12 | - |
| `DefcGold_cut` (violation) | does the public file converge after a cut-off run? | 1 change, 1 kill | - |

Deadlock is not checked: every model may really stop, when the scheduler starts nothing
more and the bounds on changes are used up.

**Why the bounds are enough.**  In the loaders the interesting cases need one
execution that is stopped in each of its gaps and one that follows it, with an
input change before, between and after: one kill, two or three changes and an
unbounded number of scheduled runs give all of them.  Two contents suffice where
code only tests equality.  For `LoadDates` two scripts of one name and one of another
give an update of an old row, a new row next to an old one, and an empty file.  For `ParkGold` one
other loader is enough to carry a stale copy of the PARK row; what it writes of
its own does not meet the PARK row, and the proof covers any number.  A `Granule` of 2
separates equal stamps from equal times.  Lists of 0 to 7 rows with pages of 2 reach hit
counts below, at and above one, two and three pages.
For `SparkScripts` three levels are an outermost, a middle and an innermost script, two queries
are a first and a last one, and two processes meet in the tables only.

In `Helpers` all budgets the retried GET tells apart are tried.  With pages of one key a listing of two keys has
two pages, and another process can write before, at and behind the marker between them; a
delete of three keys is over the limit.  The years are those
around both ends of the accepted range and the three kinds of leap year rules; periods
go one beyond both ends.  The tables to clean have 98 to 102 rows of at most two kinds, so that the quotient of dropped
rows is below, at and above one in a hundred, or a few.  Three rows with two keys give ties in front, at
the end and throughout.  Three raw DEFC rows with four codes, one of them "9", and three titles may all differ, or share a title or a code.

**Fairness.**  `DefcGold`, `FonGold` and `AgencyGold` assume weak fairness of the steps
of a started execution (a script is sequential code; each call to S3 or to a
service has a timeout and returns or raises) and of `Scheduled` (the scripts are
meant to be run by a scheduler, again and again).  Uploads, people, kills and
answers of services are under no fairness, and each liveness property has the
premise that the input becomes and stays loadable.  `Helpers` assumes that a call goes on (weak fairness of `Get`, `S3Request`
and `Pure`): `requests.get` is called with a timeout, `time.sleep` returns and boto3 has timeouts of its own.
`RetryGet`'s own specification assumes that a possible turn is taken.
The other specifications assume none, and have safety properties only.

### What the passing runs show

* Scripts that update the registry one after the other implement one atomic step each, with
  ids of their own, wherever they are killed.
* One row per registered name, however updates interleave, crash, or the file is
  recreated: `pd.concat` appends only to the dataframe that lacked the name.
* For PARK, recording the *start* of the load is what makes the skip decision sound:
  `SaveGoldEndTime`, the same code with the end, is caught by `LoadDateSound`.
* A skipped PARK run has loaded what it looked at, except for a tie of stamps
  (`SkippedIsDoneOrTied`).
* For DEFC and FON no cut-off run, blanked table, local file or degraded answer of GovInfo keeps the gold
  table from ending up equal to what its inputs say (`GoldConverges`).
* A DEFC run that loaded leaves the public file equal to gold, and one that skipped finds it so unless an earlier run was
  cut off between its save and its export (`EndsPublic`).
* FON's load date catches up although the last runs are skipped ones, and never
  claims more than gold holds; a run with `-p` leaves the public file in step with gold, unless the run that
  saved gold did not publish it (`PublicFollows`).
* The pages of the FON extractor fit together, and nothing listed at the first answer is lost while the list
  only grows at its end; nothing is pulled twice while rows are only appended, or only taken off.
* The three agency tables end up from one file even if runs stop between tables,
  because each table is compared on its own (`OneFile`), and what a run loaded it has dated.
* A session lives as long as the script that created it, however scripts nest and raise
  (`SessionsInOrder`); a load that ended well has run its whole chain in order (`LoadedWhole`), and no script ends well
  after one nested in it has raised (`FailurePropagates`).
* A create that was cut off before `add_feature` is completed by the next one (`CreatedIsReady`).
* A retried GET returns only what a last successful request answered, and a budget other than the default
  is used up exactly before an expected problem is raised (`ReturnsOnlySuccess`, `Verdict`); every call of a helper ends (`CallEnds`).
* A rename never loses an object to a failure or a kill, only to another writer of its keys; a
  download ends with a file or an exception; listings of several pages miss no
  key that is left alone, and of the keys that are left alone a delete has removed exactly the ones it counts (`NothingMissed`).
* The dates of a fiscal period lie in its fiscal year and periods join without a gap; `step` yields what its
  docstring says at both ends of a list; `batch` splits a list (`GenericEnds`).
* `clean_data` lets no row without its required value through, not even by padding, keeps all others, and fails exactly when less
  than 99 of 100 are left, or none (`CleanExact`).
* `check_dataframe_diff` never finds unchanged data changed, and misses no change but in "nan", blanks and the order of
  rows; reordered rows look changed only if some tie in the sort column (`DiffExact`).
* The derived DEFC table loses no code of the raw one, invents none, and has the own date of each; it repeats a code exactly
  if the raw table repeats a title or a code, or has an added one (`DefcCodesUnique`).

### What the violations show

1. **A lost update in the registry** (`LoadDates_lost`, `models/lakehouse_model.py:591`).
   Two overlapping updates: the put of the one that read first removes or resets
   the row the other has written meanwhile.
2. **An upload in the second of the recorded start is never loaded**
   (`ParkGold_second`, `park_gold.py:76`).  `LastModified` has no fraction, so an
   upload after the read but in the same second is not `>` the recorded start.
3. **The default retry budget runs out of the loop** (`RetryGet_default`,
   `helpers/scripts.py:124`).  `max_retries` is 12, the list of pauses has 12
   entries; the twelfth failure still sleeps, the loop condition ends the loop,
   and `return return_val` raises `UnboundLocalError` in place of the problem.
4. **A DEFC run cut off before its export leaves the public file old for good**
   (`DefcGold_cut`, `defc_gold.py:263`): later runs compare with gold only.

### Limits met while modelling that no run of the project states

Most were seen as a counterexample of a property of these modules in an instance
that is easy to restore by changing a cfg:

* `IdsUnique` fails for overlapping updates of two new names
  (`LoadDates`, `MaxInFlight = 2`): both read the same maximum.
* `LoadDateSound` and `SkippedIsDone` fail for two PARK processes (`Parks = {p1, p2}`): the slower one
  saves an older table under the newer one's date.
* A recreated PARK gold table stays empty: the skip decision looks at the
  registry alone (`park_gold.py:76`).
* `EndsPublic` fails for two overlapping DEFC executions (`Runs = {r1, r2}`), and a missing registry
  raises between save and export (`defc_gold.py:276`), which is one way to set `cut`.
* An opportunity that is listed in front of the rows already pulled is saved twice
  (`extractors/fon.py:32`), and one that is taken off among them makes the next page begin one row too late, so
  that a row is missed: `NoRepeats` and `PagesFit` without their premises.
* A FON run with `-p` after one without it skips and leaves the public file behind
  (`fon_gold.py:80`, help text at line 124): `PublicFollows` without `~behind`.
* An agency run that starts at a whole second saves its first changed table, then
  raises (`agency_gold.py:85`: `str(start)` has no fraction, `strptime` wants
  one); the next run sees no difference and the save is not dated until the rows change again.  A run killed between
  a save and its update leaves the same (`agency_gold.py:77`).
* A file with headers only is saved as the CGAC table (`agency_gold.py:63`): the custom rows are added
  before `clean_data` tests for a blank table, against "Also fail if the file is
  blank" (`helpers/scripts.py:242`).  `AgencyGold` has such a file among its raw files;
  `run[r].pc = "save" => run[r].data # Headers` fails.
* `create_migrate_lakehouse_model.py:47-52`: `--migrate` is looked at after the table was initialized, and
  perhaps recreated.  `-m 0`, which the help text gives as "all", is a false value and does
  nothing; a positive value is refused, and a negative one raises `AttributeError`, because no model has `migration_history`
  (`CheckMigrate`).
* `models/lakehouse_model.py:191` tests a DataFrame for truth, which raises `ValueError` as soon
  as the migration registry exists; without it, `migrate` does nothing.  Lines 192-231 cannot be reached.
* Two laws that share a title give each of their codes as many times as there are rows of that title, and a raw row with the code "9"
  or "QQQ" stands next to the added one, although the gold model has `UNIQUE_CONSTRAINTS` (`defc_gold.py:38`,
  `models/reference.py:152`): `DefcCodesUnique` says that it happens in no other case.
* A negative `retry_count` makes `download_s3_object` return without a file and without an exception (`helpers/aws.py:222`):
  `DownloadVerdict` without its condition.
* `get_prefixed_file_list` asks for one page: of a prefix with more than 1000 keys it lists the first ones
  (`helpers/aws.py:120`).
* `delete_s3_objects` does not look at the errors S3 reports for single keys, and a list of more than 1000 keys is refused
  as a whole (`helpers/aws.py:277`).
* `rename_s3_object` loses what another process writes to the old key between the copy and the delete.
* `batch` with a negative size yields nothing, where 0 raises.
* `clean_data` with `return_dropped_count` returns a plain dataframe, not a pair, when nothing was
  dropped (`helpers/scripts.py:310`).
* `check_dataframe_diff` applies `lambda_funcs` to the current data (`helpers/pandas.py:72`); its docstring
  says "This is only applied to new_data" (line 32).  `flatten_json` counts from 0, its example
  from 1 (`helpers/scripts.py:147`).  `helpers/uri.py:34` reads the query parameter `user`, its docstring says `username`
  (line 24).  (Read from the code.)

## 4. Theorems

All are proved by TLAPS for every value of the constants that meets the named
assumptions of the modules.

| Theorem | Statement | Argument |
|---|---|---|
| `LoadDatesProofs!TypeCorrect` | `Spec => []TypeOK` | inductive; needs `~datesExist => dates = {}` |
| `LoadDatesProofs!UniqueNames` | `Spec => []NamesUnique` | a dataframe read earlier replaces the file: `NamesInv`, one row per name in the file and in every script's dataframe |
| `LoadDatesProofs!SerialIds` | if `MaxInFlight <= 1`, `Spec => []IdsUnique` | `SerialInv` below |
| `LoadDatesProofs!SerialUpdatesAreAtomic` | if `MaxInFlight <= 1`, `Spec => ImplementsRegistry` (the refinement) | the same, and that an upsert of rows is one of the function `Table` |
| `ParkGoldProofs!ParkTypeCorrect` | `ParkSpec => []ParkTypeOK` | inductive |
| `ParkGoldProofs!SoundLoadDates` | with at most one PARK process, `ParkSpec => []LoadDateSound` | `ParkInv` below |
| `ParkGoldProofs!SkipsAreJustified` | with at most one PARK process, `ParkSpec => SkippedIsDoneOrTied` | a skip saw a date not older than the stamp of the file: sound by `ParkInv`, or in its second |
| `DefcGoldProofs!DefcTypeCorrect` | `Spec => []TypeOK` | inductive with: a run past `Derive` holds a table |
| `DefcGoldProofs!EndedIsExported` | with one execution at a time, `Spec => EndsPublic` (an action property) | `GoldIsMine`: between save and export a run finds its own table, or a blank one; and the public file is gold unless a run was cut off or is between the two |
| `FonExtractProofs!ExtractTypeCorrect` | `Spec => []TypeOK` | inductive |
| `FonExtractProofs!PagesFitTogether` | `Spec => []PagesFit` | what has been pulled is a prefix of the list of the length the row number says, or the whole list |
| `FonExtractProofs!NothingTwice` | `Spec => []NoRepeats` | with appended rows, from `PagesFit`; with rows taken off, `RepeatInv`: what is still to be pulled is apart from what was |
| `FonGoldProofs!FonTypeCorrect` | `Spec => []TypeOK` | inductive |
| `FonGoldProofs!FonDatesSound` | with one execution at a time, `Spec => []LoadDateSound` | `RunInv`: a run holds a file no older than its start, and no date is later than the start of a run under way |
| `FonGoldProofs!FonPublishes` | with one execution at a time, `Spec => PublicFollows` | `PublicInv`: public shows gold unless `behind`, or a run is between the two writes |
| `AgencyGoldProofs!AgencyTypeCorrect` | `Spec => []TypeOK` | inductive; `ReadInv`: what a run is about to save has passed the checks |
| `AgencyGoldProofs!OneFileLoaded` | with one execution at a time, `Spec => OneFile` | `LoadInv`: each table a run has gone past is as it read it, or blank |
| `AgencyGoldProofs!LoadedAreDated` | with one execution at a time, `Spec => LoadedIsDated` | `LoadInv`: what a run loaded is dated, but for the table whose date comes next |
| `SparkScriptsProofs!ScriptsTypeCorrect` | `Spec => []TypeOK` | `PendingInv`: a load that has a query before it has one of its chain |
| `SparkScriptsProofs!SessionsKept` | `Spec => []SessionsInOrder` | `SessionInv`: of the open scripts of a process exactly the outermost has created the session, unless the caller had one |
| `SparkScriptsProofs!FailuresPropagate` | `Spec => []FailurePropagates` | `RunsInv`: open scripts are different and have not ended, the caller of each is the one around it, and the caller of one that raised has raised or is the innermost script of a process with an exception on its way |
| `SparkScriptsProofs!CreatesAreReady` | `Spec => CreatedIsReady` | `FineInv` below |
| `SparkScriptsProofs!LoadsAreWhole` | `Spec => LoadedWhole` | the same |
| `HelperProofs!RetryTypeCorrect` | `Spec => []TypeOK` | inductive with the bound on `current_retries` by `pc` |
| `HelperProofs!OnlySuccessReturned` | `Spec => []ReturnsOnlySuccess` | inside the loop the last answer is no success |
| `HelperProofs!RetryVerdict` | `Spec => []Verdict` | `Loop`: one request per turn, a pause only while the budget allows another |
| `HelperProofs!S3TypeCorrect` | `S3Spec => []S3TypeOK` | `StepInv`: which request a function can be at |
| `HelperProofs!RenameNeverLoses` | `S3Spec => []RenameKeeps` | `RenameInv`: before the delete the new key has the object |
| `HelperProofs!DownloadEndsRight` | `S3Spec => []DownloadVerdict` | `DownloadInv`: no file before the end, no attempt too many |
| `HelperProofs!ListingsMissNothing` | `S3Spec => []NothingMissed` | `ListInv`: what was left alone and is not listed yet lies behind the marker |
| `HelperProofs!PeriodsAreInTheirYear` | for every year and period both dates are in the fiscal year | arithmetic of months |
| `HelperProofs!PeriodsAreAdjacent` | the day after a period is the first of the next | the same |
| `HelperProofs!StepsAreExact` | for every length, start, size and direction `Steps` is what the docstring says | one case per direction and for both bounds inside or outside |
| `HelperProofs!BatchesSplit` | for every list and every `n > 0`, `Batch` splits the list | `SubSeqJoin`, `FlattenBy`: after `k` batches the first `k * n` elements are there, by induction on `k` |
| `HelperProofs!EndsOfLists` | `HSpec => []GenericEnds` | the four results above |
| `HelperProofs!CleaningIsExact` | `HSpec => []CleanExact` | kept rows are a subset of the rows with a value, so the dropped ones are counted by subtraction |
| `HelperProofs!DefcIsUnique` | `HSpec => []DefcCodesUnique` | `DefcPlaces`: a row for each pair of raw rows with one title, and the two added ones |
| `HelperProofs!DiffIsExact` | `HSpec => []DiffExact` | `CountArranged`: sorting keeps the number of each row; `OrderIsUnique`: with unique keys there is one order |
| `HelperProofs!HelpersApart` | `HSpec => SafeSpec /\ S3Spec` | what the other helpers do is a stutter of each |
| `HelperProofs!HelpersKeepTheirWord` | `HSpec =>` all invariants of `RetryGet` and `S3Helpers` | `HelpersApart` |
| `HelperProofs!RetriesRunOut` | `Spec => [][RetryNearer]_vars` | `RetryLeft`, at most `2 * Pauses + 3` steps |
| `HelperProofs!RequestsRunOut` | every S3 request lowers `RequestsLeft`, no `Put` changes it | attempts left, or keys behind the marker, or steps of the function |

In `Helpers` the calls of `RetryGet` and `S3Helpers` take exactly the steps of those modules (`HelpersApart`), so that what is
proved of `Spec` and `S3Spec` holds in the specification `Helpers_calls` checks (`HelpersKeepTheirWord`).

**Assumptions.**  The named `ASSUME`s are facts of the deployment: a script updates one
name (`NameOfAssumption`), PARK processes are those that update the PARK row
(`ParksAssumption`), a stamp is at least one tick wide, a batch has at least one
row, markers such as "blank" or "missing" are not contents of a file
(`ContentsAssumption`, `VersionsAssumption`), keys are finitely many and numbered in their order (`KeysAssumption`), the Delta tables have chains of
queries and are not CSV tables (`TablesAssumption` of `SparkScripts`), the tables the helpers are called with have rows of the columns
the code looks at (`TablesAssumption` of `Helpers`), bounds are naturals.  TLC evaluates them on each run.  The two theorems on the composition of the helpers take
`Budgets # {}`, since without a budget there is no call of the retried GET to be idle.  The restriction to one PARK process or
one DEFC, FON or agency execution, or one script in flight, is a hypothesis of the theorem itself, because without it
the statement is false.

**The PARK invariant.**  `LoadDateSound` speaks of rows in the file, but a load date
travels: from the process that loaded, into the locals of its update, into the
file, and in copies in the dataframes of any loader that reads the file and will
write it back.  `ParkInv` says of each of those places that the date is *sound*:
older than now, no later than the start of a PARK load that is still running, and
if it is late enough to cover the last upload, gold holds that upload.  The middle
part is what keeps an old date sound while the gold file is being replaced;
`SoundLoad` adds that a load whose start covers the last upload has read that
upload.  An upload makes every older date vacuously sound, because its stamp is
at most `Granule - 1` behind the clock.

**The registry invariant.**  An update reads the file, perhaps reads it again for an id, and replaces it.  With one script in flight
`SerialInv` says that what the script holds is still the file, that every id and
date in the file is older than its start, and that the id it chose is in no row.  Then the put
changes the row of one name and nothing else, which is the step of `LoadRegistry`; reads, kills and starts map to stutters.

**The table invariant.**  A script that ends well says something of a table that others may have written while it was open, its own
nested scripts included.  `FineInv` says of every open script how far its table is: after each step of a create the
table, then the feature, is there, and nothing takes them away again, because no create, also one that recreates the table, drops it or its feature; and the log of a table ends with the
queries its load has run so far, as long as the load is `alone`.  Each write of another script, a nested one included, clears `alone` in the open loads of that
table; that the run numbers of open scripts differ, so that no other script passes for this one, is part of `RunsInv`.

**Calls that end.**  That a call of a helper ends (`CallEnds`) is liveness.  Its safe half is proved: `RetriesRunOut` and
`RequestsRunOut` give a natural number that every step of the helper lowers, and that nobody else raises, from any
reachable state.  What is left to fairness is that a process that can take its next step does so.

**Induction.**  Three results are about data of any length: batches, orders and counts.  The induction theorems of the library take
an operator, which no prover here can be given; `Induction` states the principle for a *set* of naturals, from
`WFMin` and the well-order of `Nat`, and the proofs define the set of lengths for which the statement holds.
`DiffExact`, `DefcCodesUnique` and `CleanExact` speak of the tables `Helpers` is given as constants, so that their theorems hold
for any tables with rows of those columns; `BatchesSplit` speaks of any list, `GenericEnds` of the lists up to a bound.

**Only model-checked:** what is temporal under fairness (`CallEnds`, `GoldConverges` of three loaders, `DateConverges`,
`PublicConvergesUncut`), which is out of the prover's reach, and the four violations, which are counterexamples.  Every
invariant and every action property of the passing runs is stated by a theorem.

## 5. Abstractions and what is not modelled

* Rows of data sets are versions or the inputs they are derived from; formatting, column
  types and cleaning are left out, except that blank or refused data raises.
* `last_load_date_end`, `created_at`, `updated_at`, `description` of the registry,
  metrics files and logs are left out: nothing reads them.  So are the counts before
  and after a save (`pap_gold.count()`), whose failure is a `Kill`.
* Exit codes are kept by name, as the way an execution ended.
* A failed S3 call and a kill have the same effect and are one action.
* `DefcGold` has no header-only raw file, and abstracts its table to the inputs it depends on; the rows
  are the business of `RowHelpers`.  The text of the derived titles is in neither.
* `RowHelpers` keeps of a cell whether it is null, blank, short or full, and leaves out the conversions of
  single values (`clean_name`, `trim_nested`, `flatten_json`, dates to text); what a table is after it was written to CSV and read again
  is taken to be the same table.
* `S3Helpers` has one bucket and one caller; requests of `multipart_upload` and `access_s3_object`, which are one library call, are left out.
* `DefcGold`, `FonGold` and `AgencyGold` see the registry only as present or absent, or as
  their own date; that other scripts may undo it is the subject of `LoadDates`.
* `SparkScripts` keeps no rows: a query is an entry in the log of its table.  A call to Spark that raises
  has not changed the table.

### Not modelled

* `migrate` and `current_migrations.csv` (`models/lakehouse_model.py:180-231`): no call of the repository can reach
  it, and the loop in it cannot be reached by any call, as described above; a model of what it was meant to
  do would not be one of this code.
* URI retrieval (`helpers/uri.py`): a dispatch on a scheme to one library call each.
* Configuration, lookups and logging (`config.py`, `helpers/configs.py`, `lookups.py`, `logging.py`): constants and set-up.
* Broker and USAS models (`models/broker.py`, `models/usas.py`): dictionaries of classes.
* The storage below Delta tables, Spark itself, and the containers of `LocalStrategy`: external.
* `deep_merge`, `format_internal_tas` and `zip_dir` (`helpers/generic.py`): they build values without a case that a unit test would not
  reach.
* FON extractor, FON loader and registry in one model: each is modelled alone, with what it sees of the others as its environment,
  because their product at bounds where each part is still interesting is
  out of TLC's reach in a few minutes, and they meet in whole files only.

## 6. Order of the work

The modules were written in the order of what depends on what: `LoadRegistry` and `LoadDates` (the state everybody shares),
`ParkGold` (the only reader of that state), `RetryGet`, `DefcGold`, `FonExtract`,
`FonGold`, `AgencyGold`, `SparkScripts`, then `S3Helpers`, `GenericHelpers`, `RowHelpers` and their composition
`Helpers`; the proofs follow the same order.

What could be added: variants for the loaders as for the helpers, which would bound the steps of an execution; the
composition of the FON pipeline at small bounds; a registry that is updated with a
conditional put, as an alternative for which `ImplementsRegistry` would hold for any number of scripts in flight.
