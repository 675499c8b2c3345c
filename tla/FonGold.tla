------------------------------- MODULE FonGold --------------------------------
(***************************************************************************)
(* The FON loader (scripts/loaders/fon_gold.py): reads the bronze file the *)
(* extractor leaves, cleans it, and if it differs from the gold file or a  *)
(* reload is forced, writes the gold file and, with -p, the public CSV.    *)
(* The load date is recorded by every run that gets that far, the skipped  *)
(* ones included.                                                          *)
(*                                                                         *)
(* Time is counted in uploads: a moment is the number of bronze files that *)
(* have been uploaded by then, and a load date is a moment.                *)
(***************************************************************************)
EXTENDS Integers, Sequences

CONSTANTS Runs,        \* overlapping executions of the script
          Contents,    \* contents a file with rows can have
          LocalFiles,  \* contents --local_file can name
          Publish,     \* the values --update_public_file is given
          MaxUploads,  \* bound: uploads of the bronze file
          MaxManual,   \* bound: manual runs and recreated tables
          MaxKills     \* bound: executions killed on the way

ASSUME BoundsAssumption == /\ MaxUploads \in Nat /\ MaxManual \in Nat
                           /\ MaxKills \in Nat
ASSUME FlagsAssumption == Publish \subseteq BOOLEAN /\ LocalFiles \subseteq Contents

VARIABLES uploads,  \* the bronze files so far; the last one is there to read
          gold,     \* the gold file
          public,   \* funding_opportunity_numbers.csv in the public bucket
          date,     \* the recorded last_load_date_start
          run,      \* the locals of each execution
          behind,   \* history: gold was saved last by a run that did not publish
          manual, kills

vars == <<uploads, gold, public, date, run, behind, manual, kills>>

\* A file with nothing under its headers; a file that does not exist.
Blank == "blank"
Missing == "missing"

\* Not moments: the registry has no row for FON; there is no registry.
NoDate == -1
NoRegistry == -2

Moments == 0..MaxUploads

ASSUME ContentsAssumption == Blank \notin Contents /\ Missing \notin Contents

Files == Contents \cup {Blank}

\* The bronze file a reader finds.
Bronze == IF uploads = <<>> THEN Missing ELSE uploads[Len(uploads)]

Run == [pc : {"idle", "read", "diff", "save", "public", "record"},
        force : BOOLEAN, publish : BOOLEAN, local : LocalFiles \cup {Missing},
        start : Moments, new : Contents \cup {Missing},
        exit : {"none", "ok", "raised"}]

NoRun == [pc |-> "idle", force |-> FALSE, publish |-> FALSE, local |-> Missing,
          start |-> 0, new |-> Missing, exit |-> "none"]

Exit(r, code) == run' = [run EXCEPT ![r] = [NoRun EXCEPT !.exit = code]]

Goto(r, pc) == run' = [run EXCEPT ![r].pc = pc]

Init == /\ uploads = <<>>
        /\ gold \in {Blank, Missing}
        /\ public = Missing
        /\ date \in {NoDate, NoRegistry}
        /\ run = [r \in Runs |-> NoRun]
        /\ behind = FALSE
        /\ manual = 0 /\ kills = 0

outputs == <<gold, public, date>>
bounds == <<behind, manual, kills>>

-----------------------------------------------------------------------------
(* The environment.                                                        *)

\* The extractor saves what it got, or somebody recreates the bronze table.
Upload ==
    /\ Len(uploads) < MaxUploads
    /\ \E f \in Files : uploads' = Append(uploads, f)
    /\ UNCHANGED <<outputs, run, bounds>>

\* create_migrate_lakehouse_model --recreate for the gold table.
RecreateGold ==
    /\ manual < MaxManual
    /\ manual' = manual + 1
    /\ gold' = Blank
    /\ UNCHANGED <<uploads, public, date, run, behind, kills>>

\* The same for external_data_load_date, once.
CreateRegistry ==
    /\ date = NoRegistry
    /\ date' = NoDate
    /\ UNCHANGED <<uploads, gold, public, run, bounds>>

-----------------------------------------------------------------------------
(* One execution of main.                                                  *)

\* start_time is taken before anything is read.
Begin(r, force, local) ==
    /\ run[r].pc = "idle"
    /\ \E publish \in Publish :
          run' = [run EXCEPT ![r] =
                     [NoRun EXCEPT !.pc = "read", !.force = force, !.local = local,
                                   !.publish = publish, !.start = Len(uploads)]]

\* The scheduler starts the script, without --force_reload or --local_file.
Scheduled(r) == Begin(r, FALSE, Missing) /\ UNCHANGED <<uploads, outputs, bounds>>

\* A person starts it with one or both.
Manual(r) ==
    /\ manual < MaxManual
    /\ manual' = manual + 1
    /\ \E force \in BOOLEAN, local \in LocalFiles \cup {Missing} :
          /\ force \/ local # Missing
          /\ Begin(r, force, local)
    /\ UNCHANGED <<uploads, outputs, behind, kills>>

\* Mutant of Read: a file without rows is cleaned like any other.
ReadBlankToo(r) ==
    /\ run[r].pc = "read"
    /\ LET data == IF run[r].local # Missing THEN run[r].local ELSE Bronze
       IN  IF data # Missing
           THEN run' = [run EXCEPT ![r].pc = "diff", ![r].new = data]
           ELSE Exit(r, "raised")
    /\ UNCHANGED <<uploads, outputs, bounds>>

\* The file is read and cleaned.  clean_data raises when nothing is left, and so
\* does the first method call on the None that stands for a missing file.
Read(r) ==
    /\ run[r].pc = "read"
    /\ LET data == IF run[r].local # Missing THEN run[r].local ELSE Bronze
       IN  IF data \in Contents
           THEN run' = [run EXCEPT ![r].pc = "diff", ![r].new = data]
           ELSE Exit(r, "raised")
    /\ UNCHANGED <<uploads, outputs, bounds>>

\* check_dataframe_diff: two tables differ in their contents; the dates of their
\* rows and the generated ids are not compared.
DiffFound(new, current) == new # current

\* Mutant of Diff: a run without differences ends before it records its date.
DiffOrReturn(r) ==
    /\ run[r].pc = "diff"
    /\ \/ gold = Missing /\ Exit(r, "raised")
       \/ gold # Missing /\ (run[r].force \/ gold # run[r].new) /\ Goto(r, "save")
       \/ ~run[r].force /\ gold = run[r].new /\ Exit(r, "ok")
    /\ UNCHANGED <<uploads, outputs, bounds>>

\* Mutant of Diff: only a table that is still blank is loaded.
DiffIfBlank(r) ==
    /\ run[r].pc = "diff"
    /\ \/ gold = Missing /\ Exit(r, "raised")
       \/ gold # Missing /\ (run[r].force \/ gold = Blank) /\ Goto(r, "save")
       \/ ~run[r].force /\ gold \notin {Blank, Missing} /\ Goto(r, "record")
    /\ UNCHANGED <<uploads, outputs, bounds>>

\* The comparison with the gold file, which raises if there is none.
Diff(r) ==
    /\ run[r].pc = "diff"
    /\ \/ gold = Missing /\ Exit(r, "raised")
       \/ gold # Missing /\ (run[r].force \/ DiffFound(run[r].new, gold)) /\ Goto(r, "save")
       \/ ~run[r].force /\ gold # Missing /\ ~DiffFound(run[r].new, gold) /\ Goto(r, "record")
    /\ UNCHANGED <<uploads, outputs, bounds>>

\* Mutant of Save: a forced reload leaves the public file alone.
SavePublishIfDifferent(r) ==
    /\ run[r].pc = "save"
    /\ gold' = run[r].new
    /\ Goto(r, IF run[r].publish /\ ~run[r].force THEN "public" ELSE "record")
    /\ behind' = ~run[r].publish
    /\ UNCHANGED <<uploads, public, date, manual, kills>>

\* fon_gold.save(fon_clean_data)
Save(r) ==
    /\ run[r].pc = "save"
    /\ gold' = run[r].new
    /\ Goto(r, IF run[r].publish THEN "public" ELSE "record")
    /\ behind' = ~run[r].publish
    /\ UNCHANGED <<uploads, public, date, manual, kills>>

\* The public CSV is written, uploaded and removed.
PublishNumbers(r) ==
    /\ run[r].pc = "public"
    /\ public' = run[r].new
    /\ Goto(r, "record")
    /\ UNCHANGED <<uploads, gold, date, bounds>>

\* Mutant of Record: the end of the run is recorded as its start.
RecordEnd(r) ==
    /\ run[r].pc = "record"
    /\ IF date = NoRegistry
       THEN date' = date /\ Exit(r, "raised")
       ELSE date' = Len(uploads) /\ Exit(r, "ok")
    /\ UNCHANGED <<uploads, gold, public, bounds>>

\* update_external_data_load_date with the start of the run.
Record(r) ==
    /\ run[r].pc = "record"
    /\ IF date = NoRegistry
       THEN date' = date /\ Exit(r, "raised")
       ELSE date' = run[r].start /\ Exit(r, "ok")
    /\ UNCHANGED <<uploads, gold, public, bounds>>

\* The execution is killed, or a call to S3 raises.
Kill(r) ==
    /\ run[r].pc # "idle"
    /\ kills < MaxKills
    /\ kills' = kills + 1
    /\ behind' = (behind \/ run[r].pc = "public")
    /\ Exit(r, "raised")
    /\ UNCHANGED <<uploads, outputs, manual>>

Step(r) == Read(r) \/ Diff(r) \/ Save(r) \/ PublishNumbers(r) \/ Record(r)

Next == \/ Upload \/ RecreateGold \/ CreateRegistry
        \/ \E r \in Runs : Scheduled(r) \/ Manual(r) \/ Step(r) \/ Kill(r)

Spec == Init /\ [][Next]_vars

\* A started execution goes on and the scheduler starts the script again and
\* again; uploads, people and kills are under no fairness.
FairSpec == Spec /\ \A r \in Runs : WF_vars(Step(r)) /\ WF_vars(Scheduled(r))

-----------------------------------------------------------------------------
(* Properties.                                                             *)

\* Every variable has its type.
TypeOK == /\ uploads \in Seq(Files) /\ Len(uploads) <= MaxUploads
          /\ gold \in Files \cup {Missing}
          /\ public \in Contents \cup {Missing}
          /\ date \in Moments \cup {NoDate, NoRegistry}
          /\ run \in [Runs -> Run]
          /\ behind \in BOOLEAN
          /\ manual \in 0..MaxManual /\ kills \in 0..MaxKills

\* The gold file holds a bronze file that was there at the moment d or later.
Holds(d) == \E i \in 1..Len(uploads) : i >= d /\ uploads[i] = gold

\* The load date (fon_gold.py:98-100) never claims too much: with one run at a
\* time the gold file holds no older bronze file than the one that was there at the
\* recorded start, unless it was blanked since or may be a local file.
LoadDateSound == date \in Moments /\ gold \notin LocalFiles \cup {Blank} => Holds(date)

\* Bronze and gold stay as a run needs them.
Loadable == Bronze \in Contents /\ gold # Missing /\ date # NoRegistry

\* Then, whatever was killed, blanked or loaded from a local file before, the
\* gold file ends up equal to the last bronze file...
GoldConverges == <>[]Loadable => <>[](gold = Bronze)

\* ... and its load date catches up with the last upload, although the last runs
\* are all skipped ones.
DateConverges == <>[]Loadable => <>[](date = Len(uploads))

\* The step in which an execution with -p ends without an exception.
EndsPublished(r) == run[r].publish /\ run[r].pc # "idle" /\ run'[r].exit = "ok"

PublishedInStep ==
    \A r \in Runs : EndsPublished(r) /\ ~behind => gold' \in {public', Blank}

\* "Update the public file as well" (fon_gold.py:124): after a run with -p that
\* ended well, skipped or not, the public file shows the gold table, unless the run
\* that saved it did not publish it.
PublicFollows == [][PublishedInStep]_vars
=============================================================================
