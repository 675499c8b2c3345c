------------------------------- MODULE ParkGold -------------------------------
(***************************************************************************)
(* The PARK loader (ParkLoader.load_park_data): it compares the time the   *)
(* bronze file was last modified in S3 with the load date the registry has *)
(* for the gold table, skips the load when the file is not newer, and      *)
(* otherwise rebuilds the gold file from the bronze one and records the    *)
(* time the load STARTED.  The registry and its update are LoadDates; the  *)
(* scripts of Loaders \ Parks are the other loaders that share it.         *)
(*                                                                         *)
(* A file is the version of the upload it holds or derives from.  Rows are *)
(* not modelled: clean_data either yields a table or raises.               *)
(***************************************************************************)
EXTENDS LoadDates

CONSTANTS Parks,    \* the PARK loader processes, a subset of Loaders
          Park,     \* the TABLE_REF of ProgramActivityParkGold
          Granule   \* LastModified lies less than this many ticks behind

ASSUME ParksAssumption ==
    /\ Parks \subseteq Loaders
    /\ \A l \in Loaders : l \in Parks <=> NameOf[l] = Park
ASSUME GranuleAssumption == Granule \in Nat \ {0}

VARIABLES bronze, \* the uploaded file: its version, its content, LastModified
          gold,   \* the version the gold file is built from, 0 if blank or none
          park    \* the locals of each PARK process

parkVars == <<vars, bronze, gold, park>>

\* What the bronze object holds: a header and rows; no bytes at all; a table
\* clean_data refuses; no object.
Content == {"rows", "empty", "bad", "missing"}

Bronze == [ver : Nat, content : Content, modified : Int]

Result == {"none", "saved", "skipped", "empty", "raised"}

Process == [pc : {"idle", "head", "exists", "init", "stored", "bronze", "gold"},
            start : Nat, head : Int, ver : Nat, result : Result]

NoProcess == [pc |-> "idle", start |-> 0, head |-> 0, ver |-> 0, result |-> "none"]

\* The process ends; only its exit code outlives it.
Exit(p, result) == park' = [park EXCEPT ![p] = [NoProcess EXCEPT !.result = result]]

ParkInit == /\ Init
            /\ bronze \in [ver : {1}, content : Content, modified : {0}]
            /\ gold = 0
            /\ park = [p \in Parks |-> NoProcess]

-----------------------------------------------------------------------------
(* The environment.                                                        *)

\* A new PARK file is put into the bronze bucket.  S3 reports the time of the
\* put truncated to a second, the clock of the loader has microseconds.
Upload ==
    /\ clock < MaxTime
    /\ \E content \in Content \ {"missing"}, m \in (clock - Granule + 1)..clock :
          bronze' = [ver |-> bronze.ver + 1, content |-> content, modified |-> m]
    /\ clock' = clock + 1
    /\ UNCHANGED <<datesExist, dates, job, gold, park>>

\* ProgramActivityParkGold().initialize(recreate=True) blanks the gold file.
RecreateGold ==
    /\ gold # 0
    /\ gold' = 0
    /\ UNCHANGED <<vars, bronze, park>>

-----------------------------------------------------------------------------
(* One run of load_park_data.                                              *)

\* start_time = get_utc_now(); --force goes straight to the load.
Start(p, force) ==
    /\ park[p].pc = "idle" /\ job[p].pc = "idle"
    /\ clock < MaxTime
    /\ park' = [park EXCEPT ![p] = [pc |-> IF force THEN "bronze" ELSE "head",
                                     start |-> clock, head |-> 0, ver |-> 0,
                                     result |-> "none"]]
    /\ clock' = clock + 1
    /\ UNCHANGED <<datesExist, dates, job, bronze, gold>>

\* head_object of the bronze file; a missing one raises a ClientError.
Head(p) ==
    /\ park[p].pc = "head"
    /\ IF bronze.content = "missing"
       THEN Exit(p, "raised")
       ELSE park' = [park EXCEPT ![p].pc = "exists", ![p].head = bronze.modified]
    /\ UNCHANGED <<vars, bronze, gold>>

\* if not edld.exists() ...
CheckRegistry(p) ==
    /\ park[p].pc = "exists"
    /\ park' = [park EXCEPT ![p].pc = IF datesExist THEN "stored" ELSE "init"]
    /\ UNCHANGED <<vars, bronze, gold>>

\* ... edld.initialize(recreate=True), whatever the file is by now.
InitRegistry(p) ==
    /\ park[p].pc = "init"
    /\ datesExist' = TRUE
    /\ dates' = {}
    /\ park' = [park EXCEPT ![p].pc = "stored"]
    /\ UNCHANGED <<job, clock, bronze, gold>>

\* Mutant of UpToDate: the row is not selected by the gold table's name.
UpToDateAnyRow(p) == \E r \in dates : ~(park[p].head > r.start)

UpToDate(p) == \E r \in RowsOf(dates, Park) : ~(park[p].head > r.start)

\* The stored load date is read and decides whether the load is skipped.
Decide(p) ==
    /\ park[p].pc = "stored"
    /\ IF UpToDate(p)
       THEN Exit(p, "skipped")
       ELSE park' = [park EXCEPT ![p].pc = "bronze"]
    /\ UNCHANGED <<vars, bronze, gold>>

\* transformed_df(): one read of the bronze file.
ReadBronze(p) ==
    /\ park[p].pc = "bronze"
    /\ CASE bronze.content = "rows"  -> park' = [park EXCEPT ![p].pc = "gold",
                                                             ![p].ver = bronze.ver]
         [] bronze.content = "empty" -> Exit(p, "empty")
         [] OTHER                    -> Exit(p, "raised")
    /\ UNCHANGED <<vars, bronze, gold>>

\* Mutant of SaveGold: the load date is the end of the load.
SaveGoldEndTime(p) ==
    /\ park[p].pc = "gold"
    /\ gold' = park[p].ver
    /\ EnterUpdate(p, clock)
    /\ Exit(p, "saved")
    /\ UNCHANGED <<datesExist, dates, clock, bronze>>

\* Mutant of SaveGold: the load date is a duration, start minus end.
SaveGoldDuration(p) ==
    /\ park[p].pc = "gold"
    /\ gold' = park[p].ver
    /\ EnterUpdate(p, park[p].start - clock)
    /\ Exit(p, "saved")
    /\ UNCHANGED <<datesExist, dates, clock, bronze>>

\* pap_gold.save(df), then update_external_data_load_date with start_time.
SaveGold(p) ==
    /\ park[p].pc = "gold"
    /\ gold' = park[p].ver
    /\ EnterUpdate(p, park[p].start)
    /\ Exit(p, "saved")
    /\ UNCHANGED <<datesExist, dates, clock, bronze>>

\* The process is killed; LoadDates!Crash kills it during the update.
Kill(p) ==
    /\ park[p].pc # "idle"
    /\ Exit(p, "raised")
    /\ UNCHANGED <<vars, bronze, gold>>

ParkStep(p) == \/ Head(p) \/ CheckRegistry(p) \/ InitRegistry(p) \/ Decide(p)
               \/ ReadBronze(p) \/ SaveGold(p) \/ Kill(p)

RegistryStep == /\ \/ \E l \in Loaders \ Parks : Begin(l)
                   \/ \E l \in Loaders : Step(l)
                   \/ Recreate
                /\ UNCHANGED <<bronze, gold, park>>

ParkNext == \/ Upload \/ RecreateGold
            \/ \E p \in Parks : (\E force \in BOOLEAN : Start(p, force)) \/ ParkStep(p)
            \/ RegistryStep

ParkSpec == ParkInit /\ [][ParkNext]_parkVars

-----------------------------------------------------------------------------
(* Properties.                                                             *)

\* Every variable has its type.
ParkTypeOK == /\ TypeOK
              /\ bronze \in Bronze
              /\ gold \in Nat
              /\ park \in [Parks -> Process]

\* A load date at or after the last upload says the gold file holds the upload,
\* or was blanked since.
Fresh(s) == s >= bronze.modified + Granule - 1 => gold \in {bronze.ver, 0}

\* The hazard of recording the START of a load under a name whose table was
\* saved earlier: no interleaving of uploads, loads, crashes and other loaders'
\* registry updates leaves a load date that hides an upload not yet loaded.
LoadDateSound == \A r \in RowsOf(dates, Park) : Fresh(r.start)

\* PARK process p takes the early exit of is_skipped in this step.
Skips(p) == park[p].pc = "stored" /\ park'[p].result = "skipped"

\* The gold file was built from the bronze file p looked at, or blanked since; or
\* another upload has replaced that bronze file meanwhile.
Done(p) == gold \in {bronze.ver, 0} \/ bronze.modified # park[p].head

\* A load date lies in the second of the upload p looked at.
Tied(p) == \E r \in RowsOf(dates, Park) : r.start \in park[p].head..(park[p].head + Granule - 2)

\* "Skipping load as it's already been done" (park_gold.py:77): a skip finds the
\* bronze file it looked at loaded.
SkippedIsDone == [][\A p \in Parks : Skips(p) => Done(p)]_parkVars

SkipsDoneOrTied == \A p \in Parks : Skips(p) => Done(p) \/ Tied(p)

\* The same but for a tie, which a LastModified in whole seconds cannot decide:
\* nothing else makes the loader skip over an upload that was never loaded.
SkippedIsDoneOrTied == [][SkipsDoneOrTied]_parkVars

-----------------------------------------------------------------------------
(* The inductive invariant.  A load date may reach the registry long after *)
(* the load: it waits in the PARK process, then in its update, and copies  *)
(* of it travel in the dataframes other loaders are about to write back.   *)

\* A PARK load date that is in the registry or may yet be written to it: older
\* than now, no newer than a PARK load that is still running, and sound.
SoundDate(s) == /\ s < clock
                /\ Fresh(s)
                /\ \A p \in Parks : park[p].pc # "idle" => s <= park[p].start

SoundRows(rows) == \A r \in RowsOf(rows, Park) : SoundDate(r.start)

\* The update of a PARK process follows its load and holds its load date.
SoundUpdate(p) == job[p].pc # "idle" => park[p].pc = "idle" /\ SoundDate(job[p].start)

\* A load that saw every upload up to its start is about to save the latest.
SoundLoad(p) ==
    park[p].pc # "idle" =>
        /\ park[p].start < clock
        /\ park[p].pc = "gold" /\ park[p].start >= bronze.modified + Granule - 1
              => park[p].ver = bronze.ver

ParkInv == /\ SoundRows(dates)
           /\ \A l \in Loaders : SoundRows(job[l].df)
           /\ \A p \in Parks : SoundUpdate(p) /\ SoundLoad(p)
=============================================================================
