------------------------------- MODULE DefcGold -------------------------------
(***************************************************************************)
(* The DEFC loader (scripts/loaders/defc_gold.py): derives the DEFC table  *)
(* from the raw file, the group table and GovInfo, compares it with the    *)
(* gold table and, if they differ or a reload is forced, writes in turn    *)
(* the gold file, the load date and the public CSV.  The comparison is     *)
(* against the gold file only.                                             *)
(*                                                                         *)
(* A table is the triple of the inputs it is derived from; equal inputs    *)
(* give equal tables, which is all check_dataframe_diff tells apart.       *)
(***************************************************************************)
EXTENDS Integers

CONSTANTS Runs,       \* overlapping executions of the script
          Contents,   \* contents a raw file with rows can have
          MaxChanges, \* bound: changes of inputs and manual runs
          MaxKills    \* bound: executions killed on the way

ASSUME BoundsAssumption == /\ MaxChanges \in Nat /\ MaxKills \in Nat

VARIABLES raw,      \* the bronze file: contents, or what makes it unusable
          groups,   \* the group table, also a file people maintain
          govinfo,  \* how the GovInfo service answers
          gold,     \* the gold file: a table, Blank or Missing
          public,   \* the public def_codes.csv: a table or NoTable
          registry, \* whether the load date file exists
          run,      \* the locals of each execution
          cut,      \* history: an execution ended between its save and its export
          changes, kills

vars == <<raw, groups, govinfo, gold, public, registry, run, cut, changes, kills>>

\* A file with rows; a file without bytes; one without the DEFC headers; none.
Raw == Contents \cup {"empty", "no_headers", "missing"}

\* A group table that has the covid_19 group in one of two versions, or lacks it.
Groups == {"groups1", "groups2", "no_covid_19", "missing"}

\* Details of every law; details without a title, which leaves the derived
\* columns empty; no answer, until get_with_exception_hand raises.
GovInfo == {"titles", "no_titles", "down"}

Tables == [raw : Contents, groups : {"groups1", "groups2"},
           govinfo : {"titles", "no_titles"}]

\* No public file yet; the gold file blanked by a recreate; no gold file.
NoTable == [raw |-> "none", groups |-> "none", govinfo |-> "none"]
Blank   == [NoTable EXCEPT !.raw = "blank"]
Missing == [NoTable EXCEPT !.raw = "missing"]

NoFile == "none"

\* What --local_file can name: any file, or no file at all.
LocalFiles == Contents \cup {"empty", "no_headers", NoFile}

\* An ended execution keeps what it loaded and how it ended.
Run == [pc : {"idle", "check", "raw", "derive", "diff", "save", "record", "export"},
        force : BOOLEAN, local : LocalFiles, raw : Contents \cup {NoFile},
        new : Tables \cup {NoTable},
        exit : {"none", "loaded", "skipped", "bad_file", "raised"}]

NoRun == [pc |-> "idle", force |-> FALSE, local |-> NoFile, raw |-> NoFile,
          new |-> NoTable, exit |-> "none"]

Exit(r, code) == run' = [run EXCEPT ![r] = [NoRun EXCEPT !.exit = code]]

Goto(r, pc) == run' = [run EXCEPT ![r].pc = pc]

Init == /\ raw \in Contents \cup {"missing"}
        /\ groups \in {"groups1", "missing"}
        /\ govinfo = "titles"
        /\ gold \in {Blank, Missing}
        /\ public = NoTable
        /\ registry \in BOOLEAN
        /\ run = [r \in Runs |-> NoRun]
        /\ cut = FALSE
        /\ changes = 0 /\ kills = 0

inputs == <<raw, groups, govinfo>>
outputs == <<gold, public, registry>>
bounds == <<cut, changes, kills>>

-----------------------------------------------------------------------------
(* The environment.                                                        *)

\* Somebody uploads a raw file, edits the groups, or GovInfo changes its answer.
ChangeInput ==
    /\ changes < MaxChanges
    /\ changes' = changes + 1
    /\ \/ raw' \in Raw \ {"missing"} /\ UNCHANGED <<groups, govinfo>>
       \/ groups' \in Groups \ {"missing"} /\ UNCHANGED <<raw, govinfo>>
       \/ govinfo' \in GovInfo /\ UNCHANGED <<raw, groups>>
    /\ UNCHANGED <<outputs, run, cut, kills>>

\* create_migrate_lakehouse_model --recreate for the gold table.
RecreateGold ==
    /\ changes < MaxChanges
    /\ gold' = Blank
    /\ changes' = changes + 1
    /\ UNCHANGED <<inputs, public, registry, run, cut, kills>>

\* The same for external_data_load_date.
CreateRegistry ==
    /\ ~registry
    /\ registry' = TRUE
    /\ UNCHANGED <<inputs, gold, public, run, bounds>>

-----------------------------------------------------------------------------
(* One execution of main.                                                  *)

Begin(r, force, local) ==
    /\ run[r].pc = "idle"
    /\ run' = [run EXCEPT ![r] =
                  [NoRun EXCEPT !.pc = "check", !.force = force, !.local = local]]

\* The scheduler starts the script without arguments.
Scheduled(r) == Begin(r, FALSE, NoFile) /\ UNCHANGED <<inputs, outputs, bounds>>

\* A person starts it with --force_reload, --local_file or both.
Manual(r) ==
    /\ changes < MaxChanges
    /\ changes' = changes + 1
    /\ \E force \in BOOLEAN, local \in LocalFiles :
          /\ force \/ local # NoFile
          /\ Begin(r, force, local)
    /\ UNCHANGED <<inputs, outputs, cut, kills>>

\* All three tables have to exist, the raw one for a local file too.
CheckTables(r) ==
    /\ run[r].pc = "check"
    /\ IF "missing" \in {raw, groups} \/ gold = Missing
       THEN Exit(r, "raised")
       ELSE Goto(r, "raw")
    /\ UNCHANGED <<inputs, outputs, bounds>>

\* Mutant of ReadRaw: EmptyDataError is not caught, nor are headers checked.
ReadRawUnchecked(r) ==
    /\ run[r].pc = "raw"
    /\ LET data == IF run[r].local # NoFile THEN run[r].local ELSE raw
       IN  run' = [run EXCEPT ![r].pc = "derive", ![r].raw = data]
    /\ UNCHANGED <<inputs, outputs, bounds>>

\* The raw file is read, and checked for bytes and for its headers.  A bronze file
\* without the headers raises in to_pandas_df, which asks for its columns.
ReadRaw(r) ==
    /\ run[r].pc = "raw"
    /\ LET data == IF run[r].local # NoFile THEN run[r].local ELSE raw
       IN  IF data \in Contents
           THEN run' = [run EXCEPT ![r].pc = "derive", ![r].raw = data]
           ELSE Exit(r, IF data = "no_headers" /\ run[r].local = NoFile
                        THEN "raised" ELSE "bad_file")
    /\ UNCHANGED <<inputs, outputs, bounds>>

\* The groups are read, GovInfo is asked about every law, the outliers are added
\* (DEFC 9 needs the covid_19 group) and the columns cleaned.
Derive(r) ==
    /\ run[r].pc = "derive"
    /\ IF groups = "no_covid_19" \/ govinfo = "down"
       THEN Exit(r, "raised")
       ELSE run' = [run EXCEPT ![r].pc = "diff",
                       ![r].new = [raw |-> run[r].raw, groups |-> groups,
                                   govinfo |-> govinfo]]
    /\ UNCHANGED <<inputs, outputs, bounds>>

\* Mutant of Diff: only the codes are compared, not the derived columns.
DiffOnCodes(r) ==
    /\ run[r].pc = "diff"
    /\ IF run[r].force \/ gold = Blank \/ gold.raw # run[r].new.raw
       THEN Goto(r, "save")
       ELSE Exit(r, "skipped")
    /\ UNCHANGED <<inputs, outputs, bounds>>

\* diff_found = check_dataframe_diff(...).
Diff(r) ==
    /\ run[r].pc = "diff"
    /\ IF run[r].force \/ gold # run[r].new
       THEN Goto(r, "save")
       ELSE Exit(r, "skipped")
    /\ UNCHANGED <<inputs, outputs, bounds>>

\* gold_model.save(clean_df)
SaveGold(r) ==
    /\ run[r].pc = "save"
    /\ gold' = run[r].new
    /\ Goto(r, "record")
    /\ UNCHANGED <<inputs, public, registry, bounds>>

\* update_external_data_load_date raises when there is no registry.
Record(r) ==
    /\ run[r].pc = "record"
    /\ IF registry THEN Goto(r, "export") ELSE Exit(r, "raised")
    /\ cut' = (cut \/ ~registry)
    /\ UNCHANGED <<inputs, outputs, changes, kills>>

\* Mutant of Export: a forced run without a difference is not exported.
ExportIfDifferent(r) ==
    /\ run[r].pc = "export"
    /\ public' = IF run[r].force THEN public ELSE run[r].new
    /\ Exit(r, "loaded")
    /\ UNCHANGED <<inputs, gold, registry, bounds>>

\* The public CSV is written, uploaded and removed; the run ends.
Export(r) ==
    /\ run[r].pc = "export"
    /\ public' = run[r].new
    /\ Exit(r, "loaded")
    /\ UNCHANGED <<inputs, gold, registry, bounds>>

\* The execution is killed, or a call to S3 raises.
Kill(r) ==
    /\ run[r].pc # "idle"
    /\ kills < MaxKills
    /\ kills' = kills + 1
    /\ cut' = (cut \/ run[r].pc \in {"record", "export"})
    /\ Exit(r, "raised")
    /\ UNCHANGED <<inputs, outputs, changes>>

Step(r) == \/ CheckTables(r) \/ ReadRaw(r) \/ Derive(r) \/ Diff(r)
           \/ SaveGold(r) \/ Record(r) \/ Export(r)

Next == \/ ChangeInput \/ RecreateGold \/ CreateRegistry
        \/ \E r \in Runs : Scheduled(r) \/ Manual(r) \/ Step(r) \/ Kill(r)

Spec == Init /\ [][Next]_vars

\* A started execution goes on, and the scheduler starts the script again and
\* again; people, services and kills are under no fairness.
Fairness == \A r \in Runs : WF_vars(Step(r)) /\ WF_vars(Scheduled(r))

FairSpec == Spec /\ Fairness

-----------------------------------------------------------------------------
(* Properties.                                                             *)

\* Every variable has its type.
TypeOK == /\ raw \in Raw /\ groups \in Groups /\ govinfo \in GovInfo
          /\ gold \in Tables \cup {Blank, Missing}
          /\ public \in Tables \cup {NoTable}
          /\ registry \in BOOLEAN
          /\ run \in [Runs -> Run]
          /\ cut \in BOOLEAN
          /\ changes \in 0..MaxChanges /\ kills \in 0..MaxKills

\* The step in which an execution of r ends with the given exit.
Ends(r, code) == run[r].pc # "idle" /\ run'[r].pc = "idle" /\ run'[r].exit = code

\* The public file holds the gold table, or the gold table was blanked since.
InStep == gold' = public' \/ gold' = Blank

\* No execution ends well in this step but with the public file in step with gold.
EndedInStep == \A r \in Runs : Ends(r, "loaded") \/ (Ends(r, "skipped") /\ ~cut) => InStep

\* "Exports ... to Public Files bucket if successful" (defc_gold.py:191): a run that
\* loaded ends with the public file equal to the gold table, whatever was cut short
\* before; and so does one that finds no differences to gold, unless an earlier one
\* was cut off between its save of gold and its export.
EndsPublic == [][EndedInStep]_vars

\* The inputs can be loaded as they are.
Loadable == raw \in Contents /\ groups \in {"groups1", "groups2"}
            /\ govinfo \in {"titles", "no_titles"} /\ gold # Missing

Derived == [raw |-> raw, groups |-> groups, govinfo |-> govinfo]

\* Once the inputs stay loadable, the gold table ends up derived from them: no
\* cut-off run, blanked table, local file or degraded answer lasts.
GoldConverges == <>[]Loadable => <>[](gold = Derived)

\* And so does the public file, if no run is ever cut off before its export.
PublicConvergesUncut == <>[]Loadable /\ []~cut => <>[](public = Derived)

\* The docstring (defc_gold.py:191) makes no such exception.
PublicConverges == <>[]Loadable => <>[](public = Derived)

-----------------------------------------------------------------------------
(* The inductive invariant behind EndsPublic.                              *)

Saved(r) == run[r].pc \in {"record", "export"}

\* Between its save of the gold table and its export, a run is sure to find its own
\* table there.
GoldIsMine == \A r \in Runs : Saved(r) => gold \in {run[r].new, Blank}

\* While no run is between the two, and none was cut off there, the public file
\* holds the gold table unless that was blanked.
PublicIsGold == cut \/ (\E r \in Runs : Saved(r)) \/ gold \in {public, Blank, Missing}
=============================================================================
