------------------------------ MODULE AgencyGold ------------------------------
(***************************************************************************)
(* The agency loader (scripts/loaders/agency_gold.py): reads one raw file  *)
(* and loads three gold tables from it, one after the other.  Each table   *)
(* is compared with its gold file, saved and dated on its own, so an       *)
(* exception on the way leaves the tables before it loaded and the ones    *)
(* after it as they were.                                                  *)
(*                                                                         *)
(* A raw file says for each table which version of its rows it holds;      *)
(* equal versions give equal tables, which is all the comparison sees.     *)
(***************************************************************************)
EXTENDS Naturals, Sequences

CONSTANTS Runs,       \* overlapping executions of the script
          Versions,   \* versions of the rows of one table
          LocalFiles, \* files --local_file can name
          MaxChanges, \* bound: uploads, recreated tables and manual runs
          MaxKills    \* bound: executions killed on the way

ASSUME BoundsAssumption == MaxChanges \in Nat /\ MaxKills \in Nat

VARIABLES raw,    \* the bronze file
          gold,   \* the gold file of each table
          dated,  \* the tables whose load date belongs to their last save
          registry, \* whether the load date file exists
          run,    \* the locals of each execution
          changes, kills

vars == <<raw, gold, dated, registry, run, changes, kills>>

\* The order in which main loads the tables.
Tables == <<"cgac", "frec", "subtier">>
TableSet == {"cgac", "frec", "subtier"}

\* Rows that use a code of CUSTOM_CGACS or CUSTOM_SUBTIERS; no rows at all.
Custom == "custom"
NoRows == "no_rows"

ASSUME VersionsAssumption ==
          Versions \cap {Custom, NoRows, "blank", "empty", "missing"} = {}

\* A file with rows; only the headers, as a recreate leaves it; no bytes; no file.
WithRows == [cgac : Versions \cup {Custom}, frec : Versions,
             subtier : Versions \cup {Custom}]
Headers == [t \in TableSet |-> NoRows]
Empty   == [t \in TableSet |-> "empty"]
Missing == [t \in TableSet |-> "missing"]

Files == WithRows \cup {Headers, Empty}

ASSUME LocalFilesAssumption == LocalFiles \subseteq Files

\* A gold file: the rows of a version and the custom ones, the custom ones alone
\* (NoRows), nothing under the headers, no file.
GoldFile == Versions \cup {NoRows, "blank", "missing"}

Run == [pc : {"idle", "check", "read", "compare", "save", "date"},
        at : 1..3, force : BOOLEAN, local : LocalFiles \cup {Missing}, whole : BOOLEAN,
        data : Files \cup {Missing}, loaded : SUBSET TableSet, exit : {"none", "ok", "bad_file", "raised"}]

NoRun == [pc |-> "idle", at |-> 1, force |-> FALSE, local |-> Missing,
          whole |-> FALSE, data |-> Missing, loaded |-> {}, exit |-> "none"]

Exit(r, code) == run' = [run EXCEPT ![r] = [NoRun EXCEPT !.exit = code]]

Goto(r, pc) == run' = [run EXCEPT ![r].pc = pc]

\* The table the run is at, and the rows it read for it.
Table(r) == Tables[run[r].at]
Rows(r) == run[r].data[Table(r)]

\* The current load_* function returns and main goes on.
NextTable(r) == IF run[r].at = Len(Tables)
                THEN Exit(r, "ok")
                ELSE run' = [run EXCEPT ![r].pc = "compare", ![r].at = @ + 1]

Init == /\ raw \in {Missing, Headers}
        /\ gold = [t \in TableSet |-> "missing"]
        /\ dated = TableSet
        /\ registry \in BOOLEAN
        /\ run = [r \in Runs |-> NoRun]
        /\ changes = 0 /\ kills = 0

outputs == <<gold, dated, registry>>
bounds == <<changes, kills>>

-----------------------------------------------------------------------------
(* The environment.                                                        *)

\* Somebody uploads a raw file, or recreates the bronze table (Headers).
Upload ==
    /\ changes < MaxChanges
    /\ changes' = changes + 1
    /\ raw' \in Files
    /\ UNCHANGED <<outputs, run, kills>>

\* create_migrate_lakehouse_model --recreate, for a gold table: the first one is
\* part of the set-up, later ones count.
RecreateGold(t) ==
    /\ \/ gold[t] = "missing" /\ UNCHANGED changes
       \/ gold[t] # "missing" /\ changes < MaxChanges /\ changes' = changes + 1
    /\ gold' = [gold EXCEPT ![t] = "blank"]
    /\ UNCHANGED <<raw, dated, registry, run, kills>>

\* The same for external_data_load_date, once.
CreateRegistry ==
    /\ ~registry
    /\ registry' = TRUE
    /\ UNCHANGED <<raw, gold, dated, run, bounds>>

-----------------------------------------------------------------------------
(* One execution of main.                                                  *)

Begin(r, force, local) ==
    /\ run[r].pc = "idle"
    /\ run' = [run EXCEPT ![r] =
                  [NoRun EXCEPT !.pc = "check", !.force = force, !.local = local]]

\* The scheduler starts the script without arguments.
Scheduled(r) == Begin(r, FALSE, Missing) /\ UNCHANGED <<raw, outputs, bounds>>

\* A person starts it with --force_reload, --local_file or both.
Manual(r) ==
    /\ changes < MaxChanges
    /\ changes' = changes + 1
    /\ \E force \in BOOLEAN, local \in LocalFiles \cup {Missing} :
          /\ force \/ local # Missing
          /\ Begin(r, force, local)
    /\ UNCHANGED <<raw, outputs, kills>>

\* The raw table has to exist, for a local file too; then the clock is read.
Check(r) ==
    /\ run[r].pc = "check"
    /\ IF raw = Missing
       THEN Exit(r, "raised")
       ELSE \E whole \in BOOLEAN :
               run' = [run EXCEPT ![r].pc = "read", ![r].whole = whole]
    /\ UNCHANGED <<raw, outputs, bounds>>

\* The file is read; one without bytes ends the run with an exit code.
Read(r) ==
    /\ run[r].pc = "read"
    /\ LET data == IF run[r].local # Missing THEN run[r].local ELSE raw
       IN  IF data = Empty
           THEN Exit(r, "bad_file")
           ELSE run' = [run EXCEPT ![r].pc = "compare", ![r].data = data]
    /\ UNCHANGED <<raw, outputs, bounds>>

\* Mutant of CgacRefuses: nobody looks for the custom codes.
CgacAccepts(rows) == FALSE

\* load_cgac refuses a file that uses a custom code.  It adds the custom rows to
\* the others before clean_data looks, so that a file without rows passes.
CgacRefuses(rows) == rows = Custom

\* load_frec has clean_data look at the rows of the file alone.
FrecRefuses(rows) == rows = NoRows

\* load_subtier adds custom rows as load_cgac does.
SubtierRefuses(rows) == rows = Custom

\* A load_* function raises before it saves.
Raises(r) == \/ gold[Table(r)] = "missing"
             \/ Table(r) = "cgac" /\ CgacRefuses(Rows(r))
             \/ Table(r) = "frec" /\ FrecRefuses(Rows(r))
             \/ Table(r) = "subtier" /\ SubtierRefuses(Rows(r))

\* Mutant of Compare: a table without differences ends the whole run.
CompareOrReturn(r) ==
    /\ run[r].pc = "compare"
    /\ IF Raises(r)
       THEN Exit(r, "raised")
       ELSE IF run[r].force \/ gold[Table(r)] # Rows(r)
            THEN Goto(r, "save")
            ELSE Exit(r, "ok")
    /\ UNCHANGED <<raw, outputs, bounds>>

\* The head of a load_* function, down to its comparison with the gold file.
Compare(r) ==
    /\ run[r].pc = "compare"
    /\ IF Raises(r)
       THEN Exit(r, "raised")
       ELSE IF run[r].force \/ gold[Table(r)] # Rows(r)
            THEN Goto(r, "save")
            ELSE NextTable(r)
    /\ UNCHANGED <<raw, outputs, bounds>>

\* The load is counted in the metrics and the model saved; the load date the
\* registry has for it is an old one now.
Save(r) ==
    /\ run[r].pc = "save"
    /\ gold' = [gold EXCEPT ![Table(r)] = Rows(r)]
    /\ dated' = dated \ {Table(r)}
    /\ run' = [run EXCEPT ![r].pc = "date", ![r].loaded = @ \cup {Table(r)}]
    /\ UNCHANGED <<raw, registry, bounds>>

\* Mutant of Date: a forced reload is not dated.
DateUnforced(r) ==
    /\ run[r].pc = "date"
    /\ IF run[r].whole \/ ~registry
       THEN UNCHANGED dated /\ Exit(r, "raised")
       ELSE /\ dated' = IF run[r].force THEN dated ELSE dated \cup {Table(r)}
            /\ NextTable(r)
    /\ UNCHANGED <<raw, gold, registry, bounds>>

\* update_external_data_load_date(...).  Its argument strptime(str(start), "...%f")
\* raises for a whole second, which str prints without a fraction.
Date(r) ==
    /\ run[r].pc = "date"
    /\ IF run[r].whole \/ ~registry
       THEN UNCHANGED dated /\ Exit(r, "raised")
       ELSE dated' = dated \cup {Table(r)} /\ NextTable(r)
    /\ UNCHANGED <<raw, gold, registry, bounds>>

\* The execution is killed, or a call to S3 raises.
Kill(r) ==
    /\ run[r].pc # "idle"
    /\ kills < MaxKills
    /\ kills' = kills + 1
    /\ Exit(r, "raised")
    /\ UNCHANGED <<raw, outputs, changes>>

Step(r) == Check(r) \/ Read(r) \/ Compare(r) \/ Save(r) \/ Date(r)

Next == \/ Upload \/ CreateRegistry
        \/ \E t \in TableSet : RecreateGold(t)
        \/ \E r \in Runs : Scheduled(r) \/ Manual(r) \/ Step(r) \/ Kill(r)

Spec == Init /\ [][Next]_vars

\* A started execution goes on, and the scheduler starts the script again and
\* again; people and kills are under no fairness.
FairSpec == Spec /\ \A r \in Runs : WF_vars(Step(r)) /\ WF_vars(Scheduled(r))

-----------------------------------------------------------------------------
(* Properties.                                                             *)

\* Every variable has its type: among others, no gold file has a row of the raw
\* file under a custom code.
TypeOK == /\ raw \in Files \cup {Missing}
          /\ gold \in [TableSet -> GoldFile]
          /\ dated \subseteq TableSet
          /\ registry \in BOOLEAN
          /\ run \in [Runs -> Run]
          /\ changes \in 0..MaxChanges /\ kills \in 0..MaxKills

\* The step in which an execution of r that read a file ends without an exception.
EndsOk(r) == run[r].data # Missing /\ run'[r].exit = "ok"

\* The tables of a run that ends well hold what it read, or nothing.
EndsAsRead ==
    \A r \in Runs : EndsOk(r) =>
        \A t \in TableSet : gold'[t] \in {run[r].data[t], "blank"}

\* "separates it into its constituent parts of CGAC, FREC, and SubTier"
\* (agency_gold.py:211): with one run at a time, a run that ends well leaves three
\* tables of one file, whatever earlier runs left behind; a table that was
\* recreated during the run excepted.
OneFile == [][EndsAsRead]_vars

EndsDated == \A r \in Runs : EndsOk(r) => run[r].loaded \subseteq dated'

\* "Keeps track of load dates" (lakehouse_model.py:532): when a run ends well, every
\* table its metrics count as loaded has the load date of that load.
LoadedIsDated == [][EndsDated]_vars

\* The file on top can be loaded as it is.
Loadable == /\ raw \in [TableSet -> Versions]
            /\ \A t \in TableSet : gold[t] # "missing"

\* Then all three tables end up equal to it: neither kills, nor exceptions between
\* two tables, nor a start at a whole second keep one back for good.
GoldConverges == <>[]Loadable => <>[](gold = raw)
=============================================================================
