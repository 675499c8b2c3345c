--------------------------- MODULE AgencyGoldProofs ---------------------------
(***************************************************************************)
(* Theorems about AgencyGold, for any versions, local files and bounds.    *)
(***************************************************************************)
EXTENDS AgencyGold, TLAPS

RunStep(r) == Step(r) \/ Kill(r)

LEMMA TableTypes ==
    /\ Len(Tables) = 3
    /\ \A i \in 1..3 : Tables[i] \in TableSet
    /\ \A t \in TableSet : \E i \in 1..3 : Tables[i] = t
    /\ \A i, j \in 1..3 : Tables[i] = Tables[j] => i = j
<1>1. Tables[1] = "cgac" /\ Tables[2] = "frec" /\ Tables[3] = "subtier" /\ Len(Tables) = 3
  BY DEF Tables
<1>2. 1..3 = {1, 2, 3}
  OBVIOUS
<1>3. QED
  BY <1>1, <1>2 DEF TableSet

\* What a run holds of the file it read: none before it read one, then a file that
\* is not empty; what it is about to save went through the checks.
ReadInv ==
    \A r \in Runs :
        /\ run[r].pc # "idle" => run[r].exit = "none"
        /\ run[r].pc = "read" => raw \in Files
        /\ run[r].pc \in {"idle", "check", "read"} => run[r].data = Missing
        /\ run[r].pc \in {"compare", "save", "date"} =>
              run[r].data \in WithRows \cup {Headers}
        /\ run[r].pc = "save" => Rows(r) # Custom

LEMMA NoRunType == NoRun \in Run
BY DEF NoRun, Run

LEMMA AgencyInitType == Init => TypeOK /\ ReadInv
<1> SUFFICES ASSUME Init
             PROVE  TypeOK /\ ReadInv
  OBVIOUS
<1>1. run \in [Runs -> Run] /\ \A r \in Runs : run[r] = NoRun
  BY NoRunType DEF Init
<1>2. gold \in [TableSet -> GoldFile]
  BY DEF Init, GoldFile
<1>3. changes \in 0..MaxChanges /\ kills \in 0..MaxKills
  BY BoundsAssumption DEF Init
<1>4. raw \in Files \cup {Missing} /\ dated \subseteq TableSet /\ registry \in BOOLEAN
  BY DEF Init, Files
<1>5. TypeOK
  BY <1>1, <1>2, <1>3, <1>4 DEF TypeOK
<1>6. NoRun.pc = "idle" /\ NoRun.data = Missing
  BY DEF NoRun
<1>7. QED
  BY <1>1, <1>5, <1>6 DEF ReadInv

\* What a run is about to save is in the type of a gold file.
LEMMA SavedRows ==
    ASSUME TypeOK, ReadInv, NEW r \in Runs, run[r].pc = "save"
    PROVE  Rows(r) \in GoldFile
<1>1. Table(r) \in TableSet
  BY TableTypes DEF TypeOK, Run, Table
<1>2. run[r].data \in WithRows \cup {Headers} /\ Rows(r) # Custom
  BY DEF ReadInv
<1>3. CASE run[r].data \in WithRows
  <2>1. run[r].data[Table(r)] \in Versions \cup {Custom}
    BY <1>1, <1>3 DEF WithRows, TableSet
  <2>2. QED
    BY <1>2, <2>1 DEF Rows, GoldFile
<1>4. CASE run[r].data = Headers
  BY <1>1, <1>4 DEF Headers, Rows, GoldFile
<1>5. QED
  BY <1>2, <1>3, <1>4

\* The ways an execution goes on.
LEMMA Ended ==
    ASSUME TypeOK, NEW r \in Runs, NEW code \in {"ok", "bad_file", "raised"}, Exit(r, code)
    PROVE  /\ run' \in [Runs -> Run]
           /\ run'[r].pc = "idle" /\ run'[r].data = Missing /\ run'[r].exit = code
           /\ run'[r].loaded = {}
           /\ \A q \in Runs \ {r} : run'[q] = run[q]
<1>1. [NoRun EXCEPT !.exit = code] \in Run
  BY NoRunType DEF Run
<1>2. run' = [run EXCEPT ![r] = [NoRun EXCEPT !.exit = code]] /\ run \in [Runs -> Run]
  BY DEF Exit, TypeOK
<1>3. run'[r] = [NoRun EXCEPT !.exit = code]
  BY <1>2
<1>4. NoRun.pc = "idle" /\ NoRun.data = Missing /\ NoRun.loaded = {} /\ NoRun \in Run
  BY NoRunType DEF NoRun
<1>5. /\ [NoRun EXCEPT !.exit = code].pc = "idle"
      /\ [NoRun EXCEPT !.exit = code].data = Missing
      /\ [NoRun EXCEPT !.exit = code].exit = code
      /\ [NoRun EXCEPT !.exit = code].loaded = {}
  BY <1>4 DEF Run
<1>6. QED
  BY <1>1, <1>2, <1>3, <1>5

LEMMA WentOn ==
    ASSUME TypeOK, NEW r \in Runs, Goto(r, "save")
    PROVE  /\ run' \in [Runs -> Run]
           /\ run'[r] = [run[r] EXCEPT !.pc = "save"]
           /\ \A q \in Runs \ {r} : run'[q] = run[q]
<1>1. run \in [Runs -> Run] /\ run[r] \in Run
  BY DEF TypeOK
<1>2. [run[r] EXCEPT !.pc = "save"] \in Run
  BY <1>1 DEF Run
<1>3. QED
  BY <1>1, <1>2 DEF Goto

LEMMA WentToNext ==
    ASSUME TypeOK, NEW r \in Runs, NextTable(r), run[r].at # 3
    PROVE  /\ run' \in [Runs -> Run]
           /\ run'[r] = [run[r] EXCEPT !.pc = "compare", !.at = run[r].at + 1]
           /\ run[r].at + 1 \in 1..3
           /\ \A q \in Runs \ {r} : run'[q] = run[q]
<1>1. run \in [Runs -> Run] /\ run[r] \in Run /\ run[r].at \in 1..3
  BY DEF TypeOK, Run
<1>2. run[r].at + 1 \in 1..3
  BY <1>1
<1>3. [run[r] EXCEPT !.pc = "compare", !.at = run[r].at + 1] \in Run
  BY <1>1, <1>2 DEF Run
<1>4. run' = [run EXCEPT ![r].pc = "compare", ![r].at = run[r].at + 1]
  BY <1>1, TableTypes DEF NextTable
<1>5. QED
  BY <1>1, <1>2, <1>3, <1>4

\* What a step of execution r has to leave for the types and for ReadInv.
Kept(r) == /\ run' \in [Runs -> Run]
           /\ \A q \in Runs \ {r} : run'[q] = run[q]
           /\ run'[r].pc # "idle" => run'[r].exit = "none"
           /\ run'[r].pc = "read" => raw \in Files
           /\ run'[r].pc \in {"idle", "check", "read"} => run'[r].data = Missing
           /\ run'[r].pc \in {"compare", "save", "date"} =>
                 run'[r].data \in WithRows \cup {Headers}
           /\ run'[r].pc = "save" => Rows(r)' # Custom

LEMMA EndKept ==
    ASSUME TypeOK, NEW r \in Runs, NEW code \in {"ok", "bad_file", "raised"}, Exit(r, code)
    PROVE  Kept(r)
BY Ended DEF Kept

LEMMA NextKept ==
    ASSUME TypeOK, ReadInv, NEW r \in Runs, run[r].pc \in {"compare", "date"}, NextTable(r)
    PROVE  Kept(r)
<1>1. CASE run[r].at = 3
  BY <1>1, TableTypes, EndKept DEF NextTable
<1>2. CASE run[r].at # 3
  <2>1. run[r] \in Run /\ run[r].exit = "none" /\ run[r].data \in WithRows \cup {Headers}
    BY DEF TypeOK, ReadInv
  <2>2. /\ run'[r].pc = "compare" /\ run'[r].exit = run[r].exit
        /\ run'[r].data = run[r].data
    BY <1>2, <2>1, WentToNext DEF Run
  <2>3. QED
    BY <1>2, <2>1, <2>2, WentToNext DEF Kept
<1>3. QED
  BY <1>1, <1>2

LEMMA BeginKept ==
    ASSUME TypeOK, NEW r \in Runs, Scheduled(r) \/ Manual(r)
    PROVE  Kept(r)
<1>1. PICK force \in BOOLEAN, local \in LocalFiles \cup {Missing} : Begin(r, force, local)
  BY DEF Scheduled, Manual
<1> DEFINE new == [NoRun EXCEPT !.pc = "check", !.force = force, !.local = local]
<1>2. NoRun \in Run /\ NoRun.data = Missing /\ NoRun.exit = "none"
  BY NoRunType DEF NoRun
<1>3. new \in Run /\ new.pc = "check" /\ new.data = Missing /\ new.exit = "none"
  BY <1>2 DEF Run
<1>4. run \in [Runs -> Run] /\ run' = [run EXCEPT ![r] = new]
  BY <1>1 DEF TypeOK, Begin
<1>5. run' \in [Runs -> Run] /\ run'[r] = new /\ \A q \in Runs \ {r} : run'[q] = run[q]
  BY <1>3, <1>4
<1>6. QED
  BY <1>3, <1>5 DEF Kept

LEMMA CheckKept ==
    ASSUME TypeOK, ReadInv, NEW r \in Runs, Check(r)
    PROVE  Kept(r)
<1>1. CASE raw = Missing
  BY <1>1, EndKept DEF Check
<1>2. CASE raw # Missing
  <2>1. PICK whole \in BOOLEAN :
           run' = [run EXCEPT ![r].pc = "read", ![r].whole = whole]
    BY <1>2 DEF Check
  <2>2. run \in [Runs -> Run] /\ run[r] \in Run /\ raw \in Files
    BY <1>2 DEF TypeOK
  <2>3. run[r].data = Missing /\ run[r].exit = "none"
    BY DEF Check, ReadInv
  <2> DEFINE new == [run[r] EXCEPT !.pc = "read", !.whole = whole]
  <2>4. /\ new \in Run /\ new.pc = "read"
        /\ new.data = run[r].data /\ new.exit = run[r].exit
    BY <2>2 DEF Run
  <2>5. run' \in [Runs -> Run] /\ run'[r] = new /\ \A q \in Runs \ {r} : run'[q] = run[q]
    BY <2>1, <2>2, <2>4
  <2>6. QED
    BY <2>2, <2>3, <2>4, <2>5 DEF Kept
<1>3. QED
  BY <1>1, <1>2

LEMMA ReadKept ==
    ASSUME TypeOK, ReadInv, NEW r \in Runs, Read(r)
    PROVE  Kept(r)
<1> DEFINE data == IF run[r].local # Missing THEN run[r].local ELSE raw
<1>1. CASE data = Empty
  BY <1>1, EndKept DEF Read
<1>2. CASE data # Empty
  <2>1. run \in [Runs -> Run] /\ run[r] \in Run /\ run[r].exit = "none" /\ raw \in Files
    BY DEF TypeOK, ReadInv, Read
  <2>2. data \in Files
    BY <2>1, LocalFilesAssumption DEF Run
  <2>3. data \in WithRows \cup {Headers}
    BY <1>2, <2>2 DEF Files
  <2> DEFINE new == [run[r] EXCEPT !.pc = "compare", !.data = data]
  <2> HIDE DEF data
  <2>4. new \in Run /\ new.pc = "compare" /\ new.data = data /\ new.exit = run[r].exit
    BY <2>1, <2>2 DEF Run
  <2>5. run' = [run EXCEPT ![r].pc = "compare", ![r].data = data]
    BY <1>2 DEF Read, data
  <2>6. run' \in [Runs -> Run] /\ run'[r] = new /\ \A q \in Runs \ {r} : run'[q] = run[q]
    BY <2>1, <2>4, <2>5
  <2>7. QED
    BY <2>1, <2>3, <2>4, <2>6 DEF Kept
<1>3. QED
  BY <1>1, <1>2

\* Only a table whose rows are not refused is saved.
LEMMA CompareKept ==
    ASSUME TypeOK, ReadInv, NEW r \in Runs, Compare(r)
    PROVE  Kept(r)
<1>1. CASE Raises(r)
  BY <1>1, EndKept DEF Compare
<1>2. CASE ~Raises(r) /\ Goto(r, "save")
  <2>1. run[r] \in Run /\ run[r].exit = "none" /\ run[r].data \in WithRows \cup {Headers}
    BY DEF TypeOK, ReadInv, Compare
  <2>2. Rows(r) # Custom
    <3>1. Table(r) \in TableSet
      BY <2>1, TableTypes DEF Run, Table
    <3>2. CASE Table(r) = "frec"
      <4>1. CASE run[r].data \in WithRows
        <5>1. Rows(r) \in Versions
          BY <3>2, <4>1 DEF Rows, WithRows
        <5>2. QED
          BY <5>1, VersionsAssumption
      <4>2. CASE run[r].data = Headers
        BY <3>1, <4>2 DEF Headers, Rows, NoRows, Custom
      <4>3. QED
        BY <2>1, <4>1, <4>2
    <3>3. CASE Table(r) # "frec"
      BY <1>2, <3>1, <3>3 DEF TableSet, Raises, CgacRefuses, SubtierRefuses
    <3>4. QED
      BY <3>2, <3>3
  <2>3. /\ run'[r].pc = "save" /\ run'[r].exit = run[r].exit
        /\ run'[r].data = run[r].data /\ run'[r].at = run[r].at
    BY <1>2, <2>1, WentOn DEF Run
  <2>4. Rows(r)' = Rows(r)
    BY <2>3 DEF Rows, Table
  <2>5. QED
    BY <1>2, <2>1, <2>2, <2>3, <2>4, WentOn DEF Kept
<1>3. CASE ~Raises(r) /\ NextTable(r)
  BY <1>3, NextKept DEF Compare
<1>4. QED
  BY <1>1, <1>2, <1>3 DEF Compare

LEMMA SaveKept ==
    ASSUME TypeOK, ReadInv, NEW r \in Runs, Save(r)
    PROVE  Kept(r)
<1>1. /\ run \in [Runs -> Run] /\ run[r] \in Run /\ run[r].exit = "none"
      /\ run[r].data \in WithRows \cup {Headers} /\ Table(r) \in TableSet
  BY TableTypes DEF TypeOK, ReadInv, Save, Run, Table
<1> DEFINE new == [run[r] EXCEPT !.pc = "date", !.loaded = run[r].loaded \cup {Table(r)}]
<1>2. /\ new \in Run /\ new.pc = "date" /\ new.exit = run[r].exit
      /\ new.data = run[r].data
  BY <1>1 DEF Run
<1>3. run' = [run EXCEPT ![r].pc = "date", ![r].loaded = run[r].loaded \cup {Table(r)}]
  BY <1>1 DEF Save
<1>4. run' \in [Runs -> Run] /\ run'[r] = new /\ \A q \in Runs \ {r} : run'[q] = run[q]
  BY <1>1, <1>2, <1>3
<1>5. QED
  BY <1>1, <1>2, <1>4 DEF Kept

LEMMA RunKept ==
    ASSUME TypeOK, ReadInv, NEW r \in Runs, Scheduled(r) \/ Manual(r) \/ RunStep(r)
    PROVE  Kept(r)
<1>1. CASE Date(r)
  BY <1>1, EndKept, NextKept DEF Date
<1>2. CASE Kill(r)
  BY <1>2, EndKept DEF Kill
<1>3. QED
  BY <1>1, <1>2, BeginKept, CheckKept, ReadKept, CompareKept, SaveKept DEF RunStep, Step

LEMMA AgencyStepType == TypeOK /\ ReadInv /\ [Next]_vars => (TypeOK /\ ReadInv)'
<1> SUFFICES ASSUME TypeOK, ReadInv, [Next]_vars
             PROVE  TypeOK' /\ ReadInv'
  OBVIOUS
<1> USE BoundsAssumption
<1>1. CASE UNCHANGED vars
  BY <1>1 DEF vars, TypeOK, ReadInv, Rows, Table
<1>2. CASE Upload
  BY <1>2 DEF Upload, TypeOK, ReadInv, Rows, Table, outputs
<1>3. ASSUME NEW t \in TableSet, RecreateGold(t)
      PROVE  TypeOK' /\ ReadInv'
  <2>1. gold' \in [TableSet -> GoldFile]
    BY <1>3 DEF RecreateGold, TypeOK, GoldFile
  <2>2. changes' \in 0..MaxChanges
    BY <1>3 DEF RecreateGold, TypeOK
  <2>3. QED
    BY <1>3, <2>1, <2>2 DEF RecreateGold, TypeOK, ReadInv, Rows, Table
<1>4. CASE CreateRegistry
  BY <1>4 DEF CreateRegistry, TypeOK, ReadInv, Rows, Table, bounds
<1>5. ASSUME NEW r \in Runs, Scheduled(r) \/ Manual(r) \/ RunStep(r)
      PROVE  TypeOK' /\ ReadInv'
  <2>1. Kept(r) /\ raw' = raw
    BY <1>5, RunKept DEF Scheduled, Manual, RunStep, Step, Check, Read, Compare, Save, Date,
                         Kill
  <2>2. ReadInv'
    <3>1. ASSUME NEW q \in Runs \ {r}
          PROVE  run'[q] = run[q] /\ Rows(q)' = Rows(q)
      BY <2>1 DEF Kept, Rows, Table
    <3>2. QED
      BY <2>1, <3>1 DEF Kept, ReadInv
  <2>3. Table(r) \in TableSet
    BY TableTypes DEF TypeOK, Run, Table
  <2>4. gold' \in [TableSet -> GoldFile] /\ dated' \subseteq TableSet
    <3>1. CASE Save(r)
      <4>1. Rows(r) \in GoldFile
        BY <3>1, SavedRows DEF Save
      <4>2. QED
        BY <3>1, <4>1 DEF Save, TypeOK
    <3>2. CASE ~Save(r)
      BY <1>5, <2>3, <3>2 DEF Scheduled, Manual, RunStep, Step, Check, Read, Compare, Date,
                              Kill, TypeOK, outputs
    <3>3. QED
      BY <3>1, <3>2
  <2>5. registry' = registry
    BY <1>5 DEF Scheduled, Manual, RunStep, Step, Check, Read, Compare, Save, Date, Kill,
                outputs
  <2>6. changes' \in 0..MaxChanges /\ kills' \in 0..MaxKills
    <3>1. CASE Scheduled(r) \/ Step(r)
      BY <3>1 DEF Scheduled, Step, Check, Read, Compare, Save, Date, TypeOK, bounds
    <3>2. CASE Manual(r) \/ Kill(r)
      BY <3>2 DEF Manual, Kill, TypeOK
    <3>3. QED
      BY <1>5, <3>1, <3>2 DEF RunStep
  <2>7. QED
    BY <2>1, <2>2, <2>4, <2>5, <2>6 DEF Kept, TypeOK
<1>6. QED
  BY <1>1, <1>2, <1>3, <1>4, <1>5 DEF Next, RunStep

\* The state of the agency loader (agency_gold.py) keeps its types: among others, no
\* gold file ever has a row of the raw file under a custom code.
THEOREM AgencyTypeCorrect == Spec => []TypeOK
BY AgencyInitType, AgencyStepType, PTL DEF Spec

-----------------------------------------------------------------------------
(* What holds when executions do not overlap.                              *)

\* A gold file holds what the run read for it, or was blanked since.
AsRead(r, i) == gold[Tables[i]] \in {run[r].data[Tables[i]], "blank"}

\* The tables a run has gone past are as it read them, and dated if it loaded them.
LoadInv ==
    \A r \in Runs :
        /\ run[r].pc \in {"check", "read"} => run[r].at = 1
        /\ run[r].pc \in {"compare", "save", "date"} =>
              \A i \in 1..3 : i < run[r].at => AsRead(r, i)
        /\ run[r].pc = "date" => AsRead(r, run[r].at)
        /\ run[r].pc = "date" => run[r].loaded \subseteq dated \cup {Table(r)}
        /\ run[r].pc # "date" => run[r].loaded \subseteq dated

AgencyInv == TypeOK /\ ReadInv /\ LoadInv

LEMMA LoadInit == Init => LoadInv
<1> SUFFICES ASSUME Init
             PROVE  LoadInv
  OBVIOUS
<1>1. NoRun.pc = "idle" /\ NoRun.loaded = {}
  BY DEF NoRun
<1>2. \A r \in Runs : run[r] = NoRun
  BY DEF Init
<1>3. QED
  BY <1>1, <1>2 DEF LoadInv

LEMMA EndLoad ==
    ASSUME \A q, s \in Runs : q = s, TypeOK, NEW r \in Runs,
           NEW code \in {"ok", "bad_file", "raised"}, Exit(r, code)
    PROVE  LoadInv'
<1>1. run'[r].pc = "idle" /\ run'[r].loaded = {}
  BY Ended
<1>2. \A q \in Runs : q = r
  OBVIOUS
<1>3. QED
  BY <1>1, <1>2 DEF LoadInv

\* A run goes on to the next table when this one is as it read it, and dated.
LEMMA NextLoad ==
    ASSUME \A q, s \in Runs : q = s, AgencyInv, NEW r \in Runs,
           run[r].pc \in {"compare", "date"}, NextTable(r), gold' = gold,
           AsRead(r, run[r].at), run[r].loaded \subseteq dated'
    PROVE  LoadInv'
<1>1. CASE run[r].at = 3
  BY <1>1, TableTypes, EndLoad DEF NextTable, AgencyInv
<1>2. CASE run[r].at # 3
  <2>1. TypeOK /\ run[r] \in Run /\ run[r].at \in 1..3
    BY DEF AgencyInv, TypeOK, Run
  <2>2. /\ run'[r].pc = "compare" /\ run'[r].at = run[r].at + 1
        /\ run'[r].data = run[r].data /\ run'[r].loaded = run[r].loaded
    <3>1. run'[r] = [run[r] EXCEPT !.pc = "compare", !.at = run[r].at + 1]
      BY <1>2, <2>1, WentToNext
    <3>2. QED
      BY <2>1, <3>1 DEF Run
  <2>3. ASSUME NEW i \in 1..3, i < run[r].at + 1
        PROVE  AsRead(r, i)'
    <3>1. i < run[r].at \/ i = run[r].at
      BY <2>1, <2>3
    <3>2. AsRead(r, i)
      BY <3>1 DEF AgencyInv, LoadInv
    <3>3. QED
      BY <2>2, <3>2 DEF AsRead
  <2>4. \A q \in Runs : q = r
    OBVIOUS
  <2>5. QED
    BY <2>2, <2>3, <2>4 DEF LoadInv
<1>3. QED
  BY <1>1, <1>2

\* Starting and reading: nothing is loaded yet.
LEMMA EarlyLoad ==
    ASSUME \A q, s \in Runs : q = s, AgencyInv, NEW r \in Runs,
           Scheduled(r) \/ Manual(r) \/ Check(r) \/ Read(r)
    PROVE  LoadInv'
<1>1. /\ run \in [Runs -> Run] /\ run[r] \in Run /\ TypeOK /\ gold' = gold
      /\ dated' = dated /\ \A q \in Runs : q = r
  <2>1. run \in [Runs -> Run] /\ run[r] \in Run /\ TypeOK
    BY DEF AgencyInv, TypeOK
  <2>2. gold' = gold /\ dated' = dated
    BY DEF Scheduled, Manual, Check, Read, outputs
  <2>3. QED
    BY <2>1, <2>2
<1>2. ASSUME NEW code \in {"bad_file", "raised"}, Exit(r, code)
      PROVE  LoadInv'
  BY <1>1, <1>2, EndLoad
<1>3. CASE Scheduled(r) \/ Manual(r)
  <2>1. PICK force \in BOOLEAN, local \in LocalFiles \cup {Missing} :
           Begin(r, force, local)
    BY <1>3 DEF Scheduled, Manual
  <2> DEFINE new == [NoRun EXCEPT !.pc = "check", !.force = force, !.local = local]
  <2>2. NoRun \in Run /\ NoRun.loaded = {} /\ NoRun.at = 1
    BY NoRunType DEF NoRun
  <2>3. new.pc = "check" /\ new.loaded = {} /\ new.at = 1
    BY <2>2 DEF Run
  <2>4. run'[r] = new
    BY <1>1, <2>1 DEF Begin
  <2>5. QED
    BY <1>1, <2>3, <2>4 DEF LoadInv
<1>4. CASE Check(r) \/ Read(r)
  <2>1. /\ run[r].pc \in {"check", "read"} /\ run[r].loaded \subseteq dated
        /\ run[r].at = 1
    BY <1>4 DEF Check, Read, AgencyInv, LoadInv
  <2>2. CASE Check(r) /\ raw # Missing
    <3>1. /\ run'[r].pc = "read" /\ run'[r].loaded = run[r].loaded
          /\ run'[r].at = run[r].at
      BY <1>1, <2>2 DEF Check, Run
    <3>2. QED
      BY <1>1, <2>1, <3>1 DEF LoadInv
  <2> DEFINE data == IF run[r].local # Missing THEN run[r].local ELSE raw
  <2>3. CASE Read(r) /\ data # Empty
    <3>1. run' = [run EXCEPT ![r].pc = "compare", ![r].data = data]
      BY <2>3 DEF Read
    <3>2. /\ run'[r].pc = "compare" /\ run'[r].loaded = run[r].loaded
          /\ run'[r].at = run[r].at
      BY <1>1, <3>1 DEF Run
    <3>3. QED
      BY <1>1, <2>1, <3>2 DEF LoadInv
  <2>4. QED
    BY <1>2, <1>4, <2>2, <2>3 DEF Check, Read
<1>5. QED
  BY <1>3, <1>4

LEMMA CompareLoad ==
    ASSUME \A q, s \in Runs : q = s, AgencyInv, NEW r \in Runs, Compare(r)
    PROVE  LoadInv'
<1>1. /\ TypeOK /\ run[r] \in Run /\ gold' = gold /\ dated' = dated
      /\ run[r].pc = "compare" /\ run[r].loaded \subseteq dated
  BY DEF AgencyInv, TypeOK, LoadInv, Compare, outputs
<1>2. CASE Raises(r)
  BY <1>1, <1>2, EndLoad DEF Compare
<1>3. CASE ~Raises(r) /\ (run[r].force \/ gold[Table(r)] # Rows(r))
  <2>1. Goto(r, "save")
    BY <1>3 DEF Compare
  <2>2. run'[r] = [run[r] EXCEPT !.pc = "save"]
    BY <1>1, <2>1, WentOn
  <2>3. /\ run'[r].pc = "save" /\ run'[r].at = run[r].at
        /\ run'[r].data = run[r].data /\ run'[r].loaded = run[r].loaded
    BY <1>1, <2>2 DEF Run
  <2>4. \A i \in 1..3 : i < run[r].at => AsRead(r, i)'
    BY <1>1, <2>3 DEF AgencyInv, LoadInv, AsRead
  <2>5. \A q \in Runs : q = r
    OBVIOUS
  <2>6. QED
    BY <1>1, <2>3, <2>4, <2>5 DEF LoadInv
<1>4. CASE ~Raises(r) /\ ~run[r].force /\ gold[Table(r)] = Rows(r)
  <2>1. NextTable(r)
    BY <1>4 DEF Compare
  <2>2. AsRead(r, run[r].at)
    BY <1>4 DEF AsRead, Table, Rows
  <2>3. QED
    BY <1>1, <2>1, <2>2, NextLoad
<1>5. QED
  BY <1>2, <1>3, <1>4

LEMMA SaveLoad ==
    ASSUME \A q, s \in Runs : q = s, AgencyInv, NEW r \in Runs, Save(r)
    PROVE  LoadInv'
<1>1. /\ run \in [Runs -> Run] /\ run[r] \in Run /\ gold \in [TableSet -> GoldFile]
      /\ run[r].at \in 1..3 /\ run[r].pc = "save" /\ run[r].loaded \subseteq dated
  BY DEF AgencyInv, TypeOK, LoadInv, Save, Run
<1>2. /\ run' = [run EXCEPT ![r].pc = "date", ![r].loaded = run[r].loaded \cup {Table(r)}]
      /\ gold' = [gold EXCEPT ![Table(r)] = Rows(r)]
      /\ dated' = dated \ {Table(r)}
  BY <1>1 DEF Save
<1>3. /\ run'[r].pc = "date" /\ run'[r].loaded = run[r].loaded \cup {Table(r)}
      /\ run'[r].at = run[r].at /\ run'[r].data = run[r].data
  BY <1>1, <1>2 DEF Run
<1>4. Table(r)' = Table(r) /\ Table(r) = Tables[run[r].at] /\ Table(r) \in TableSet
  BY <1>1, <1>3, TableTypes DEF Table
<1>5. AsRead(r, run[r].at)'
  BY <1>1, <1>2, <1>3, <1>4 DEF AsRead, Rows
<1>6. ASSUME NEW i \in 1..3, i < run[r].at
      PROVE  AsRead(r, i)'
  <2>1. Tables[i] # Table(r) /\ Tables[i] \in TableSet
    BY <1>1, <1>4, <1>6, TableTypes
  <2>2. AsRead(r, i)
    BY <1>1, <1>6 DEF AgencyInv, LoadInv
  <2>3. QED
    BY <1>1, <1>2, <1>3, <2>1, <2>2 DEF AsRead
<1>7. run'[r].loaded \subseteq dated' \cup {Table(r)'}
  BY <1>1, <1>2, <1>3, <1>4
<1>8. \A q \in Runs : q = r
  OBVIOUS
<1>9. QED
  BY <1>3, <1>5, <1>6, <1>7, <1>8 DEF LoadInv

LEMMA DateLoad ==
    ASSUME \A q, s \in Runs : q = s, AgencyInv, NEW r \in Runs, Date(r)
    PROVE  LoadInv'
<1>1. TypeOK /\ run[r].pc = "date" /\ gold' = gold
  BY DEF AgencyInv, Date
<1>2. CASE run[r].whole \/ ~registry
  BY <1>1, <1>2, EndLoad DEF Date
<1>3. CASE ~(run[r].whole \/ ~registry)
  <2>1. NextTable(r) /\ dated' = dated \cup {Table(r)}
    BY <1>3 DEF Date
  <2>2. AsRead(r, run[r].at) /\ run[r].loaded \subseteq dated'
    BY <1>1, <2>1 DEF AgencyInv, LoadInv
  <2>3. QED
    BY <1>1, <2>1, <2>2, NextLoad
<1>4. QED
  BY <1>2, <1>3

LEMMA EnvironmentLoad ==
    ASSUME AgencyInv, Upload \/ CreateRegistry \/ \E t \in TableSet : RecreateGold(t)
    PROVE  LoadInv'
<1>1. run' = run /\ dated' = dated /\ gold \in [TableSet -> GoldFile]
  BY DEF Upload, CreateRegistry, RecreateGold, outputs, AgencyInv, TypeOK
<1>2. \A t \in TableSet : gold'[t] = gold[t] \/ gold'[t] = "blank"
  BY <1>1 DEF Upload, CreateRegistry, RecreateGold, outputs
<1>3. \A r \in Runs, i \in 1..3 : AsRead(r, i) => AsRead(r, i)'
  BY <1>1, <1>2, TableTypes DEF AsRead
<1>4. \A r \in Runs : run[r].at \in 1..3
  BY DEF AgencyInv, TypeOK, Run
<1>5. QED
  BY <1>1, <1>3, <1>4 DEF AgencyInv, LoadInv, Table

LEMMA AgencyStepInv ==
    ASSUME \A q, r \in Runs : q = r
    PROVE  AgencyInv /\ [Next]_vars => AgencyInv'
<1> SUFFICES ASSUME AgencyInv, [Next]_vars
             PROVE  LoadInv'
  BY AgencyStepType DEF AgencyInv
<1>1. CASE UNCHANGED vars
  BY <1>1 DEF AgencyInv, vars, LoadInv, AsRead, Table
<1>2. CASE Upload \/ CreateRegistry \/ \E t \in TableSet : RecreateGold(t)
  BY <1>2, EnvironmentLoad
<1>3. ASSUME NEW r \in Runs, Scheduled(r) \/ Manual(r) \/ Step(r) \/ Kill(r)
      PROVE  LoadInv'
  <2>1. CASE Kill(r)
    BY <2>1, EndLoad DEF Kill, AgencyInv
  <2>2. QED
    BY <1>3, <2>1, EarlyLoad, CompareLoad, SaveLoad, DateLoad DEF Step
<1>4. QED
  BY <1>1, <1>2, <1>3 DEF Next

\* A run ends well at the third table, which is as it read it, and dated.
LEMMA EndsAtThird ==
    ASSUME \A q, s \in Runs : q = s, AgencyInv, Next, NEW r \in Runs, EndsOk(r)
    PROVE  /\ run[r].pc \in {"compare", "date"} /\ run[r].at = 3 /\ gold' = gold
           /\ AsRead(r, run[r].at) /\ run[r].loaded \subseteq dated'
<1>0. /\ run \in [Runs -> Run] /\ run[r] \in Run /\ TypeOK
      /\ run[r].pc \in {"compare", "save", "date"} /\ run[r].exit = "none"
  BY DEF AgencyInv, TypeOK, ReadInv, EndsOk, Run
<1>1. ~(Upload \/ CreateRegistry \/ \E t \in TableSet : RecreateGold(t))
  BY <1>0 DEF Upload, CreateRegistry, RecreateGold, EndsOk
<1>2. Step(r) \/ Kill(r)
  BY <1>0, <1>1 DEF Next, Scheduled, Manual, Begin
<1>3. ASSUME Exit(r, "raised")
      PROVE  FALSE
  BY <1>0, <1>3, Ended DEF EndsOk
<1>4. ASSUME NextTable(r)
      PROVE  run[r].at = 3
  <2> SUFFICES ASSUME run[r].at # 3
               PROVE  FALSE
    OBVIOUS
  <2>1. run'[r] = [run[r] EXCEPT !.pc = "compare", !.at = run[r].at + 1]
    BY <1>0, <1>4, WentToNext
  <2>2. run'[r].exit = "none"
    BY <1>0, <2>1 DEF Run
  <2>3. QED
    BY <2>2 DEF EndsOk
<1>5. ~Save(r)
  <2> SUFFICES ASSUME Save(r)
               PROVE  FALSE
    OBVIOUS
  <2>1. run'[r].exit = "none"
    BY <1>0 DEF Save, Run
  <2>2. QED
    BY <2>1 DEF EndsOk
<1>6. CASE Compare(r)
  <2>1. gold' = gold /\ dated' = dated /\ run[r].pc = "compare"
    BY <1>6 DEF Compare, outputs
  <2>2. ~Raises(r)
    BY <1>3, <1>6 DEF Compare
  <2>3. ~Goto(r, "save")
    <3> SUFFICES ASSUME Goto(r, "save")
                 PROVE  FALSE
      OBVIOUS
    <3>1. run'[r].exit = "none"
      BY <1>0, WentOn DEF Run
    <3>2. QED
      BY <3>1 DEF EndsOk
  <2>4. NextTable(r) /\ gold[Table(r)] = Rows(r)
    BY <1>6, <2>2, <2>3 DEF Compare
  <2>5. AsRead(r, run[r].at)
    BY <2>4 DEF AsRead, Table, Rows
  <2>6. QED
    BY <1>4, <2>1, <2>4, <2>5 DEF AgencyInv, LoadInv
<1>7. CASE Date(r)
  <2>1. NextTable(r) /\ dated' = dated \cup {Table(r)} /\ gold' = gold /\ run[r].pc = "date"
    BY <1>3, <1>7 DEF Date
  <2>2. QED
    BY <1>4, <2>1 DEF AgencyInv, LoadInv
<1>8. CASE Kill(r)
  BY <1>3, <1>8 DEF Kill
<1>9. QED
  BY <1>0, <1>2, <1>5, <1>6, <1>7, <1>8 DEF Step, Check, Read

\* "separates it into its constituent parts of CGAC, FREC, and SubTier"
\* (agency_gold.py:211): when executions do not overlap, a run that ends well leaves
\* three tables of the one file it read, but for those recreated during the run.
THEOREM OneFileLoaded ==
    ASSUME \A q, r \in Runs : q = r
    PROVE  Spec => OneFile
<1>1. AgencyInv /\ [Next]_vars => [EndsAsRead]_vars
  <2> SUFFICES ASSUME AgencyInv, Next, NEW r \in Runs, EndsOk(r), NEW t \in TableSet
               PROVE  gold'[t] \in {run[r].data[t], "blank"}
    BY DEF EndsAsRead
  <2>1. PICK i \in 1..3 : Tables[i] = t
    BY TableTypes
  <2>2. /\ run[r].pc \in {"compare", "date"} /\ run[r].at = 3 /\ gold' = gold
        /\ AsRead(r, 3)
    BY EndsAtThird
  <2>3. i < 3 \/ i = 3
    OBVIOUS
  <2>4. AsRead(r, i)
    BY <2>2, <2>3 DEF AgencyInv, LoadInv
  <2>5. QED
    BY <2>1, <2>2, <2>4 DEF AsRead
<1>2. Init => AgencyInv
  BY AgencyInitType, LoadInit DEF AgencyInv
<1>3. QED
  BY <1>1, <1>2, AgencyStepInv, PTL DEF Spec, OneFile

\* "Keeps track of load dates" (lakehouse_model.py:532): when executions do not
\* overlap, every table a run that ends well has loaded has the date of that load.
THEOREM LoadedAreDated ==
    ASSUME \A q, r \in Runs : q = r
    PROVE  Spec => LoadedIsDated
<1>1. AgencyInv /\ [Next]_vars => [EndsDated]_vars
  BY EndsAtThird DEF EndsDated
<1>2. Init => AgencyInv
  BY AgencyInitType, LoadInit DEF AgencyInv
<1>3. QED
  BY <1>1, <1>2, AgencyStepInv, PTL DEF Spec, LoadedIsDated
=============================================================================
