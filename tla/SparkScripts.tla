----------------------------- MODULE SparkScripts -----------------------------
(***************************************************************************)
(* The scripts that run under Spark: create_migrate_lakehouse_model.py and *)
(* load_query_to_lakehouse.py inside "with SparkScriptSession()", and the  *)
(* local jobs of LocalStrategy.  A process has at most one active session. *)
(* A script that finds one uses it; one that finds none creates it and has *)
(* to stop it, also when its body raises.  Scripts nest: a query may be a  *)
(* callable that calls another script's main.                              *)
(*                                                                         *)
(* Processes share nothing but the tables.  The rows of a Delta table are  *)
(* the log of the queries that wrote them since it was last recreated.     *)
(***************************************************************************)
EXTENDS Naturals, Sequences

CONSTANTS Procs,    \* Python processes
          Inherits, \* those whose caller has a session of its own
          Deltas, Csvs, \* the Delta and the CSV tables
          Chain,    \* the number of queries of each Delta table
          MaxDepth, \* bound: scripts nested in each other
          MaxRuns   \* bound: scripts started

Tables == Deltas \cup Csvs

ASSUME InheritsAssumption == Inherits \subseteq Procs
ASSUME TablesAssumption == Deltas \cap Csvs = {} /\ Chain \in [Deltas -> Nat]
ASSUME DepthAssumption == MaxDepth \in Nat /\ MaxRuns \in Nat

VARIABLES session, \* of each process: "active" or "none"
          frames,  \* of each process: its open scripts, the innermost last
          raising, \* of each process: an exception is on its way out
          tables,  \* of each table: whether it exists, its feature, its log
          runs     \* history: of each script started, its caller and its end

vars == <<session, frames, raising, tables, runs>>

\* A command line; migrate says whether --migrate has a value other than 0.
Commands == [script : {"create"}, table : Tables, recreate : BOOLEAN, migrate : BOOLEAN]
       \cup [script : {"load"}, table : Tables]
       \cup [script : {"job"}]

\* The locals of an open script; alone is history: nobody else has written its table.
Frame == [run : Nat, cmd : Commands, created : BOOLEAN, next : Nat,
          alone : BOOLEAN, pc : {"table", "feature", "migrate", "exists", "query", "exit"}]

Depth(p) == Len(frames[p])
Top(p) == frames[p][Depth(p)]
Outer(p) == SubSeq(frames[p], 1, Depth(p) - 1)

\* The innermost frame of p becomes f.
Become(p, f) == frames' = [frames EXCEPT ![p] = Append(Outer(p), f)]

At(p, pc) == frames[p] # <<>> /\ ~raising[p] /\ Top(p).pc = pc

Goto(p, pc) == Become(p, [Top(p) EXCEPT !.pc = pc]) /\ UNCHANGED raising

Raise(p) == raising' = [raising EXCEPT ![p] = TRUE] /\ UNCHANGED frames

\* The session a process starts with.
Given(p) == IF p \in Inherits THEN "active" ELSE "none"

Init == /\ session = [p \in Procs |-> Given(p)]
        /\ frames = [p \in Procs |-> <<>>]
        /\ raising = [p \in Procs |-> FALSE]
        /\ tables \in [Tables -> {[exists |-> e, feature |-> FALSE, log |-> <<>>] : e \in BOOLEAN}]
        /\ runs = <<>>

-----------------------------------------------------------------------------
(* Entering and leaving a script.                                          *)

FirstPc(cmd) == CASE cmd.script = "create" -> "table"
                  [] cmd.script = "load"   -> "exists"
                  [] cmd.script = "job"    -> "exit"

\* SparkScriptSession.__enter__: the active session is used, or one is created.
\* A script starts on its own or from a query of the script around it.
Enter(p, cmd) ==
    /\ (frames[p] = <<>> /\ ~raising[p]) \/ At(p, "query")
    /\ Depth(p) < MaxDepth /\ Len(runs) < MaxRuns
    /\ frames' = [frames EXCEPT ![p] = Append(@,
                     [run |-> Len(runs) + 1, cmd |-> cmd, created |-> session[p] = "none",
                      next |-> 1, alone |-> TRUE, pc |-> FirstPc(cmd)])]
    /\ session' = [session EXCEPT ![p] = "active"]
    /\ runs' = Append(runs, [caller |-> IF frames[p] = <<>> THEN 0 ELSE Top(p).run,
                             exit |-> "none"])
    /\ UNCHANGED <<raising, tables>>

\* Mutant of Stops: the code after a bare yield, which an exception skips.
StopsIfOk(p) == Top(p).created /\ ~raising[p]

\* spark_created_by_script
Stops(p) == Top(p).created

\* Mutant of Propagates: __exit__ returns a true value.
PropagatesNever(p) == FALSE

\* __exit__ returns None, so that an exception goes on to the script around it,
\* if there is one.
Propagates(p) == raising[p] /\ Depth(p) > 1

\* SparkScriptSession.__exit__ ends the innermost script.
Exit(p) ==
    /\ frames[p] # <<>>
    /\ raising[p] \/ At(p, "exit")
    /\ session' = [session EXCEPT ![p] = IF Stops(p) THEN "none" ELSE @]
    /\ runs' = [runs EXCEPT ![Top(p).run].exit = IF raising[p] THEN "raised" ELSE "ok"]
    /\ raising' = [raising EXCEPT ![p] = Propagates(p)]
    /\ frames' = [frames EXCEPT ![p] = Outer(p)]
    /\ UNCHANGED tables

-----------------------------------------------------------------------------
(* The bodies.                                                             *)

\* A write to table t: the load scripts of t that are open are not alone with it.
Disturb(f, t, run) ==
    IF f.cmd.script = "load" /\ f.cmd.table = t /\ f.run # run
    THEN [f EXCEPT !.alone = FALSE] ELSE f

\* The innermost frame of p becomes f and has written table t.
Wrote(p, f, t) ==
    frames' = [q \in Procs |->
                  [i \in DOMAIN frames[q] |->
                      IF q = p /\ i = Depth(p) THEN f
                      ELSE Disturb(frames[q][i], t, Top(p).run)]]

\* Mutant of AfterTable: a recreated table goes without its feature.
AfterTableRecreated(cmd) ==
    IF cmd.table \in Csvs \/ cmd.recreate THEN "migrate" ELSE "feature"

AfterTable(cmd) == IF cmd.table \in Csvs THEN "migrate" ELSE "feature"

\* initialize(recreate): a Delta table is created unless it exists, or overwritten;
\* a CSV table has to exist, or is replaced by a blank file.
InitializeTable(p) ==
    /\ At(p, "table")
    /\ LET cmd == Top(p).cmd
           t   == cmd.table
       IN  IF t \in Csvs /\ ~cmd.recreate /\ ~tables[t].exists
           THEN Raise(p) /\ UNCHANGED tables
           ELSE /\ tables' = [tables EXCEPT ![t].exists = TRUE,
                                 ![t].log = IF cmd.recreate THEN <<>> ELSE @]
                /\ Wrote(p, [Top(p) EXCEPT !.pc = AfterTable(cmd)], t)
                /\ UNCHANGED raising
    /\ UNCHANGED <<session, runs>>

\* dt.alter.add_feature(...); saving over a table keeps its features.
AddFeature(p) ==
    /\ At(p, "feature")
    /\ tables' = [tables EXCEPT ![Top(p).cmd.table].feature = TRUE]
    /\ Goto(p, "migrate")
    /\ UNCHANGED <<session, runs>>

\* --migrate is checked after the initialization.  Without it the script ends, and
\* so it does for 0, which stands for all migrations but is a false value.  A
\* positive value is refused, and a negative one raises too, for want of the
\* attribute migration_history: no call reaches migrate.
CheckMigrate(p) ==
    /\ At(p, "migrate")
    /\ IF Top(p).cmd.migrate THEN Raise(p) ELSE Goto(p, "exit")
    /\ UNCHANGED <<session, tables, runs>>

\* A load needs a table that exists, is a Delta table and has queries.
CheckExists(p) ==
    /\ At(p, "exists")
    /\ LET t == Top(p).cmd.table
       IN  IF ~tables[t].exists \/ t \in Csvs \/ Chain[t] = 0
           THEN Raise(p) ELSE Goto(p, "query")
    /\ UNCHANGED <<session, tables, runs>>

\* Mutant of AfterQuery: one query more than there are.
AfterQueryOneMore(f) == IF f.next > Chain[f.cmd.table] THEN "exit" ELSE "query"

\* Mutant of AfterQuery: the last query is left out.
AfterQueryShort(f) == IF f.next + 1 >= Chain[f.cmd.table] THEN "exit" ELSE "query"

AfterQuery(f) == IF f.next = Chain[f.cmd.table] THEN "exit" ELSE "query"

\* load_query: the query is committed; it needs the session.
Query(p) ==
    /\ At(p, "query")
    /\ LET f == Top(p)
           t == f.cmd.table
       IN  IF session[p] = "none"
           THEN Raise(p) /\ UNCHANGED tables
           ELSE /\ tables' = [tables EXCEPT ![t].log =
                                 Append(@, [run |-> f.run, query |-> f.next])]
                /\ Wrote(p, [f EXCEPT !.pc = AfterQuery(f), !.next = @ + 1], t)
                /\ UNCHANGED raising
    /\ UNCHANGED <<session, runs>>

\* Any call to Spark, Hive or S3 in a body raises.
Fail(p) ==
    /\ frames[p] # <<>> /\ ~raising[p] /\ Top(p).pc # "exit"
    /\ Raise(p)
    /\ UNCHANGED <<session, tables, runs>>

\* The process is killed; its successor starts like it did.
Kill(p) ==
    /\ frames[p] # <<>>
    /\ runs' = [r \in DOMAIN runs |->
                   IF \E i \in DOMAIN frames[p] : frames[p][i].run = r
                   THEN [runs[r] EXCEPT !.exit = "raised"] ELSE runs[r]]
    /\ frames' = [frames EXCEPT ![p] = <<>>]
    /\ session' = [session EXCEPT ![p] = Given(p)]
    /\ raising' = [raising EXCEPT ![p] = FALSE]
    /\ UNCHANGED tables

Step(p) == \/ InitializeTable(p) \/ AddFeature(p) \/ CheckMigrate(p)
           \/ CheckExists(p) \/ Query(p) \/ Exit(p)

Next == \E p \in Procs : Step(p) \/ Fail(p) \/ Kill(p) \/ \E cmd \in Commands : Enter(p, cmd)

Spec == Init /\ [][Next]_vars

-----------------------------------------------------------------------------
(* Properties.                                                             *)

\* Every variable has its type; a log has queries of the chain only.
TypeOK == /\ session \in [Procs -> {"active", "none"}]
          /\ frames \in [Procs -> Seq(Frame)]
          /\ raising \in [Procs -> BOOLEAN]
          /\ \A t \in Tables :
                /\ tables[t].exists \in BOOLEAN /\ tables[t].feature \in BOOLEAN
                /\ t \in Deltas => tables[t].log \in Seq([run : Nat, query : 1..Chain[t]])
          /\ runs \in Seq([caller : Nat, exit : {"none", "ok", "raised"}])

\* "keep track of your spark session regardless if it's new or already existing"
\* (helpers/spark.py:64): no script ever loses the session it works with to a
\* script that was nested in it, however that one ended; and a process without
\* open scripts is as it was before the first: no session is left running, and the
\* caller's is not stopped.
SessionsInOrder ==
    \A p \in Procs : session[p] = IF frames[p] # <<>> THEN "active" ELSE Given(p)

\* A script does not end well if a script one of its queries called has raised.
FailurePropagates ==
    \A r \in DOMAIN runs : runs[r].exit = "raised" /\ runs[r].caller # 0
                              => runs[runs[r].caller].exit # "ok"

\* The step in which the script f of p ends well.
EndsOk(p, f) == frames[p] # <<>> /\ Top(p) = f /\ Depth(p) > Len(frames'[p])
                    /\ runs'[f.run].exit = "ok"

\* The log ends with queries 1, 2, ... of the run f, and all of them.
Loaded(f, log) ==
    LET n == Chain[f.cmd.table]
    IN  /\ Len(log) >= n
        /\ \A i \in 1..n : log[Len(log) - n + i] = [run |-> f.run, query |-> i]

\* A load that ended well has run all queries of its chain (lakehouse_model.py:373),
\* in order and with nothing between them, if nobody else wrote the table meanwhile.
LoadedWhole ==
    [][\A p \in Procs : \A f \in {frames[p][i] : i \in DOMAIN frames[p]} :
          EndsOk(p, f) /\ f.cmd.script = "load" /\ f.alone
              => Loaded(f, tables'[f.cmd.table].log)]_vars

\* A create that ended well leaves a table that exists and, if it is a Delta table,
\* has its feature, even if an earlier create was cut off between the two.
CreatedIsReady ==
    [][\A p \in Procs : \A f \in {frames[p][i] : i \in DOMAIN frames[p]} :
          EndsOk(p, f) /\ f.cmd.script = "create"
              => /\ tables'[f.cmd.table].exists
                 /\ f.cmd.table \in Deltas => tables'[f.cmd.table].feature]_vars
=============================================================================
