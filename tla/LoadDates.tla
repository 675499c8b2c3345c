------------------------------ MODULE LoadDates ------------------------------
(***************************************************************************)
(* The registry of load dates (ExternalDataLoadDate, one CSV object in S3) *)
(* and the read-modify-write that every loader and extractor ends with     *)
(* (update_external_data_load_date).  The update is three S3 calls: a read *)
(* of the whole file, for a new name a second read in next_id, and a put   *)
(* of the whole file.  No lock orders the calls of two scripts.            *)
(*                                                                         *)
(* The rows are a set: an update appends a row only for a name its         *)
(* dataframe lacks, so a dataframe never holds the same row twice.         *)
(* last_load_date_end, created_at, updated_at and description are left out:*)
(* they are written together with last_load_date_start and never read.     *)
(***************************************************************************)
EXTENDS Integers, FiniteSets

CONSTANTS Loaders,     \* running scripts, each ends with an update
          Names,       \* TABLE_REFs that may be registered
          NameOf,      \* the TABLE_REF a script updates
          MaxInFlight, \* bound: how many scripts the scheduler overlaps
          MaxTime      \* bound: ticks of the clock

ASSUME NameOfAssumption == NameOf \in [Loaders -> Names]
ASSUME BoundsAssumption == MaxInFlight \in Nat /\ MaxTime \in Nat

VARIABLES datesExist, \* whether the CSV object is in the bucket
          dates,      \* its rows
          job,        \* each script's locals in update_external_data_load_date
          clock       \* get_utc_now(); ticks at every event that is timed

vars == <<datesExist, dates, job, clock>>

Row == [id : Nat, name : Names, start : Nat]

NoJob == [pc |-> "idle", start |-> 0, df |-> {}, newId |-> 0]

Job == [pc : {"idle", "read", "next_id", "save"}, start : Nat,
        df : SUBSET Row, newId : Nat]

RowsOf(rows, n) == {r \in rows : r.name = n}

Busy == {l \in Loaders : job[l].pc # "idle"}

Init == /\ datesExist \in BOOLEAN
        /\ dates = {}
        /\ job = [l \in Loaders |-> NoJob]
        /\ clock = 1

-----------------------------------------------------------------------------
(* The steps of one script.                                                *)

\* update_external_data_load_date is entered with the load's start time.
EnterUpdate(l, s) == job' = [job EXCEPT ![l] = [NoJob EXCEPT !.pc = "read", !.start = s]]

\* A script takes its start time and does its load; what it loads is no matter
\* to the registry.
Begin(l) ==
    /\ job[l].pc = "idle"
    /\ Cardinality(Busy) < MaxInFlight
    /\ clock < MaxTime
    /\ EnterUpdate(l, clock)
    /\ clock' = clock + 1
    /\ UNCHANGED <<datesExist, dates>>

\* df = edld_model.to_pandas_df(); a missing file raises and ends the script.
ReadDates(l) ==
    /\ job[l].pc = "read"
    /\ job' = [job EXCEPT ![l] =
                  IF ~datesExist THEN NoJob
                  ELSE [@ EXCEPT !.df = dates,
                                 !.pc = IF RowsOf(dates, NameOf[l]) = {}
                                        THEN "next_id" ELSE "save"]]
    /\ UNCHANGED <<datesExist, dates, clock>>

\* Mutant of NextId: the maximum itself instead of the maximum plus one.
NextIdNoPlusOne(l) ==
    /\ job[l].pc = "next_id"
    /\ \/ /\ dates = {}
          /\ job' = [job EXCEPT ![l].pc = "save", ![l].newId = 1]
       \/ \E r \in dates :
          /\ \A q \in dates : q.id <= r.id
          /\ job' = [job EXCEPT ![l].pc = "save", ![l].newId = r.id]
    /\ UNCHANGED <<datesExist, dates, clock>>

\* Mutant of NextId: an empty table falls through to the default of -1.
NextIdDefault(l) ==
    /\ job[l].pc = "next_id"
    /\ \/ /\ dates = {}
          /\ job' = [job EXCEPT ![l].pc = "save", ![l].newId = -1]
       \/ \E r \in dates :
          /\ \A q \in dates : q.id <= r.id
          /\ job' = [job EXCEPT ![l].pc = "save", ![l].newId = r.id + 1]
    /\ UNCHANGED <<datesExist, dates, clock>>

\* edld_model.next_id(): reads the file again and takes the maximum plus one.
NextId(l) ==
    /\ job[l].pc = "next_id"
    /\ \/ /\ dates = {}
          /\ job' = [job EXCEPT ![l].pc = "save", ![l].newId = 1]
       \/ \E r \in dates :
          /\ \A q \in dates : q.id <= r.id
          /\ job' = [job EXCEPT ![l].pc = "save", ![l].newId = r.id + 1]
    /\ UNCHANGED <<datesExist, dates, clock>>

\* Mutant of Upserted: the name is not looked up, the row is always appended.
AlwaysAppended(df, n, i, s) == df \cup {[id |-> i, name |-> n, start |-> s]}

\* Mutant of Upserted: a new row is saved without the concat to the old ones.
NewRowOnly(df, n, i, s) ==
    IF RowsOf(df, n) # {}
    THEN {IF r.name = n THEN [r EXCEPT !.start = s] ELSE r : r \in df}
    ELSE {[id |-> i, name |-> n, start |-> s]}

\* The dataframe to save: every row of the name set, or one row appended.
Upserted(df, n, i, s) ==
    IF RowsOf(df, n) # {}
    THEN {IF r.name = n THEN [r EXCEPT !.start = s] ELSE r : r \in df}
    ELSE df \cup {[id |-> i, name |-> n, start |-> s]}

\* edld_model.save(df): one put of the whole file.
SaveDates(l) ==
    /\ job[l].pc = "save"
    /\ dates' = Upserted(job[l].df, NameOf[l], job[l].newId, job[l].start)
    /\ datesExist' = TRUE
    /\ job' = [job EXCEPT ![l] = NoJob]
    /\ UNCHANGED clock

\* The script is killed, or a call to S3 raises, between two of its steps.
Crash(l) ==
    /\ job[l].pc # "idle"
    /\ job' = [job EXCEPT ![l] = NoJob]
    /\ UNCHANGED <<datesExist, dates, clock>>

Step(l) == ReadDates(l) \/ NextId(l) \/ SaveDates(l) \/ Crash(l)

\* ExternalDataLoadDate().initialize(recreate=True), run as a script of its own.
Recreate ==
    /\ Cardinality(Busy) < MaxInFlight
    /\ datesExist' = TRUE
    /\ dates' = {}
    /\ UNCHANGED <<job, clock>>

Next == \/ \E l \in Loaders : Begin(l) \/ Step(l)
        \/ Recreate

Spec == Init /\ [][Next]_vars

-----------------------------------------------------------------------------
(* Properties.                                                             *)

\* Every variable has its type, and a missing file has no rows.
TypeOK == /\ datesExist \in BOOLEAN
          /\ dates \in SUBSET Row
          /\ job \in [Loaders -> Job]
          /\ clock \in Nat
          /\ ~datesExist => dates = {}

OneRowPerName(rows) == \A q, r \in rows : q.name = r.name => q = r

\* UNIQUE_CONSTRAINTS = ["name"]: however the scripts interleave, a name has at
\* most one row, so a reader that takes the first row takes the only one.
NamesUnique == OneRowPerName(dates)

\* PK = "external_data_load_date_id": two rows never share an id.
IdsUnique == \A q, r \in dates : q.id = r.id => q = r

\* "Update the table ... for the given data type": the put that ends an update
\* leaves the rows of every other name as they are in the file at that moment.
OthersKept ==
    [][\A l \in Loaders : job[l].pc = "save" /\ dates' # dates /\ job'[l] = NoJob
          => \A n \in Names \ {NameOf[l]} : RowsOf(dates', n) = RowsOf(dates, n)]_vars

\* The registry as LoadRegistry sees it.
Table == [n \in {r.name : r \in dates} |->
             LET r == CHOOSE r \in dates : r.name = n
             IN  [id |-> r.id, start |-> r.start]]

Registry == INSTANCE LoadRegistry
                WITH Ids <- 1..MaxTime, Times <- 1..MaxTime,
                     present <- datesExist, table <- Table

\* With one script at a time, the three S3 calls are one atomic upsert.
ImplementsRegistry == Registry!Spec
=============================================================================
