---------------------------- MODULE ParkGoldProofs ----------------------------
(***************************************************************************)
(* Theorems about ParkGold, for any number of other loaders and registry   *)
(* recreations, any interleaving, and any granularity of LastModified.     *)
(***************************************************************************)
EXTENDS ParkGold, LoadDatesProofs

\* A step of a PARK process keeps the types.
LEMMA ParkStepType ==
    ASSUME ParkTypeOK, NEW p \in Parks, ParkStep(p)
    PROVE  ParkTypeOK'
<1> USE ParksAssumption
<1>0. park[p] \in Process /\ bronze \in Bronze /\ p \in Loaders
  BY DEF ParkTypeOK
<1>1. ASSUME NEW r \in Result, Exit(p, r)
      PROVE  park' \in [Parks -> Process]
  BY <1>1 DEF ParkTypeOK, Exit, NoProcess, Process
<1>2. Result = {"none", "saved", "skipped", "empty", "raised"}
  BY DEF Result
<1>3. ASSUME UNCHANGED <<vars, bronze, gold>>, park' \in [Parks -> Process]
      PROVE  ParkTypeOK'
  BY <1>3 DEF ParkTypeOK, TypeOK, vars
<1>4. CASE Head(p)
  BY <1>0, <1>1, <1>2, <1>3, <1>4 DEF ParkTypeOK, Head, Process, Bronze
<1>5. CASE CheckRegistry(p)
  BY <1>0, <1>3, <1>5 DEF ParkTypeOK, CheckRegistry, Process
<1>6. CASE InitRegistry(p)
  BY <1>0, <1>6 DEF ParkTypeOK, TypeOK, InitRegistry, Process
<1>7. CASE Decide(p)
  BY <1>0, <1>1, <1>2, <1>3, <1>7 DEF ParkTypeOK, Decide, Process
<1>8. CASE ReadBronze(p)
  <2>1. CASE bronze.content = "rows"
    BY <1>0, <1>3, <1>8, <2>1 DEF ParkTypeOK, ReadBronze, Process, Bronze
  <2>2. CASE bronze.content = "empty"
    BY <1>1, <1>2, <1>3, <1>8, <2>2 DEF ReadBronze
  <2>3. CASE bronze.content \notin {"rows", "empty"}
    BY <1>1, <1>2, <1>3, <1>8, <2>3 DEF ReadBronze
  <2>4. QED
    BY <2>1, <2>2, <2>3
<1>9. CASE SaveGold(p)
  <2>1. park' \in [Parks -> Process]
    BY <1>1, <1>2, <1>9 DEF SaveGold
  <2>2. park[p].start \in Nat /\ park[p].ver \in Nat /\ TypeOK
    BY <1>0 DEF Process, ParkTypeOK
  <2>3. job' \in [Loaders -> Job]
    BY <1>0, <1>9, <2>2, EnterUpdateType DEF SaveGold
  <2>4. TypeOK'
    BY <1>9, <2>2, <2>3 DEF TypeOK, SaveGold
  <2>5. QED
    BY <1>9, <2>1, <2>2, <2>4 DEF ParkTypeOK, SaveGold
<1>10. CASE Kill(p)
  BY <1>1, <1>2, <1>3, <1>10 DEF Kill
<1>11. QED
  BY <1>4, <1>5, <1>6, <1>7, <1>8, <1>9, <1>10 DEF ParkStep

\* Type correctness of the composition: park_gold.py hands the registry proper
\* load dates, for any processes, names, bounds and granule.
THEOREM ParkTypeCorrect == ParkSpec => []ParkTypeOK
<1>1. ParkInit => ParkTypeOK
  <2> SUFFICES ASSUME ParkInit PROVE ParkTypeOK
    OBVIOUS
  <2>1. TypeOK
    BY DEF ParkInit, Init, TypeOK, NoJob, Job, Row
  <2>2. NoProcess \in Process
    BY DEF NoProcess, Process, Result
  <2>3. QED
    BY <2>1, <2>2 DEF ParkInit, ParkTypeOK, Bronze
<1>2. ParkTypeOK /\ [ParkNext]_parkVars => ParkTypeOK'
  <2> SUFFICES ASSUME ParkTypeOK, [ParkNext]_parkVars
               PROVE  ParkTypeOK'
    OBVIOUS
  <2> USE ParksAssumption, GranuleAssumption
  <2>1. CASE Upload
    <3>1. bronze' \in Bronze
      <4>1. PICK content \in Content \ {"missing"}, m \in (clock - Granule + 1)..clock :
               bronze' = [ver |-> bronze.ver + 1, content |-> content, modified |-> m]
        BY <2>1 DEF Upload
      <4>2. m \in Int /\ bronze.ver + 1 \in Nat
        BY DEF ParkTypeOK, TypeOK, Bronze
      <4>3. QED
        BY <4>1, <4>2 DEF Bronze
    <3>2. clock' \in Nat
      BY <2>1 DEF ParkTypeOK, TypeOK, Upload
    <3>3. QED
      BY <2>1, <3>1, <3>2 DEF ParkTypeOK, TypeOK, Upload
  <2>2. CASE RecreateGold
    BY <2>2 DEF ParkTypeOK, TypeOK, RecreateGold, vars
  <2>3. ASSUME NEW p \in Parks, NEW force \in BOOLEAN, Start(p, force)
        PROVE  ParkTypeOK'
    <3>1. park' \in [Parks -> Process]
      <4>1. clock \in Nat /\ park \in [Parks -> Process]
        BY DEF ParkTypeOK, TypeOK
      <4>2. [pc |-> IF force THEN "bronze" ELSE "head", start |-> clock, head |-> 0,
             ver |-> 0, result |-> "none"] \in Process
        BY <4>1 DEF Process, Result
      <4>3. QED
        BY <2>3, <4>1, <4>2 DEF Start
    <3>2. clock' \in Nat
      BY <2>3 DEF ParkTypeOK, TypeOK, Start
    <3>3. QED
      BY <2>3, <3>1, <3>2 DEF ParkTypeOK, TypeOK, Start
  <2>4. ASSUME NEW p \in Parks, ParkStep(p)
        PROVE  ParkTypeOK'
    BY <2>4, ParkStepType
  <2>5. CASE RegistryStep
    <3>1. TypeOK'
      BY <2>5, BeginType, StepType, RecreateType DEF RegistryStep, ParkTypeOK
    <3>2. QED
      BY <2>5, <3>1 DEF RegistryStep, ParkTypeOK
  <2>6. CASE UNCHANGED parkVars
    BY <2>6 DEF parkVars, vars, ParkTypeOK, TypeOK
  <2>7. QED
    BY <2>1, <2>2, <2>3, <2>4, <2>5, <2>6 DEF ParkNext
<1>3. QED
  BY <1>1, <1>2, PTL DEF ParkSpec

-----------------------------------------------------------------------------
\* No action makes a sound load date unsound: an upload comes after every load
\* date there is, and a running load saves what it read no earlier than any.
LEMMA DateStaysSound ==
    ASSUME ParkTypeOK, ParkInv, [ParkNext]_parkVars,
           \A p, q \in Parks : p = q,
           NEW s \in Nat, SoundDate(s)
    PROVE  SoundDate(s)'
<1> USE ParksAssumption, GranuleAssumption DEF SoundDate, Fresh
<1>0. clock \in Nat /\ bronze \in Bronze /\ park \in [Parks -> Process]
  BY DEF ParkTypeOK, TypeOK
<1>1. CASE Upload
  <2>1. PICK m \in (clock - Granule + 1)..clock : bronze'.modified = m
    BY <1>1 DEF Upload
  <2>2. clock' = clock + 1 /\ UNCHANGED park
    BY <1>1 DEF Upload
  <2>3. ~(s >= bronze'.modified + Granule - 1)
    BY <1>0, <2>1
  <2>4. QED
    BY <1>0, <2>2, <2>3
<1>2. CASE RecreateGold
  BY <1>2 DEF RecreateGold, vars
<1>3. ASSUME NEW p \in Parks, NEW force \in BOOLEAN, Start(p, force)
      PROVE  SoundDate(s)'
  <2>1. clock' = clock + 1 /\ UNCHANGED <<bronze, gold>>
    BY <1>3 DEF Start
  <2>2. \A q \in Parks : park'[q].start = clock
    BY <1>0, <1>3 DEF Start, NoProcess
  <2>3. QED
    BY <1>0, <2>1, <2>2
<1>4. ASSUME NEW p \in Parks, ParkStep(p)
      PROVE  SoundDate(s)'
  <2>1. UNCHANGED <<clock, bronze>>
    BY <1>4 DEF ParkStep, Head, CheckRegistry, InitRegistry, Decide, ReadBronze,
                SaveGold, Kill, vars
  <2>2. park'[p].pc # "idle" => park[p].pc # "idle" /\ park'[p].start = park[p].start
    BY <1>0, <1>4 DEF ParkStep, Head, CheckRegistry, InitRegistry, Decide, ReadBronze,
                SaveGold, Kill, Exit, NoProcess, Process
  <2>3. CASE SaveGold(p)
    <3>1. s <= park[p].start
      BY <2>3 DEF SaveGold
    <3>2. s >= bronze.modified + Granule - 1 => park[p].ver = bronze.ver
      BY <1>0, <2>3, <3>1 DEF SaveGold, ParkInv, SoundLoad, Bronze, Process
    <3>3. QED
      BY <2>1, <2>2, <2>3, <3>2 DEF SaveGold
  <2>4. CASE ~SaveGold(p)
    <3>1. UNCHANGED gold
      BY <1>4, <2>4 DEF ParkStep, Head, CheckRegistry, InitRegistry, Decide, ReadBronze, Kill
    <3>2. QED
      BY <2>1, <2>2, <3>1
  <2>5. QED
    BY <2>3, <2>4
<1>5. CASE RegistryStep
  <2>1. UNCHANGED <<bronze, gold, park>>
    BY <1>5 DEF RegistryStep
  <2>2. clock' \in {clock, clock + 1}
    BY <1>5 DEF RegistryStep, Begin, Step, ReadDates, NextId, SaveDates, Crash, Recreate
  <2>3. QED
    BY <1>0, <2>1, <2>2
<1>6. CASE UNCHANGED parkVars
  BY <1>6 DEF parkVars, vars
<1>7. QED
  BY <1>1, <1>2, <1>3, <1>4, <1>5, <1>6 DEF ParkNext

\* Every PARK row a registry action writes carries a sound load date.
LEMMA RegistryRows ==
    ASSUME ParkTypeOK, ParkInv, RegistryStep,
           \A p, q \in Parks : p = q,
           \A s \in Nat : SoundDate(s) => SoundDate(s)'
    PROVE  SoundRows(dates)' /\ \A l \in Loaders : SoundRows(job[l].df)'
<1> USE ParksAssumption, NameOfAssumption
<1>0. job \in [Loaders -> Job] /\ dates \in SUBSET Row
  BY DEF ParkTypeOK, TypeOK
<1>a. ASSUME NEW rows \in SUBSET Row, SoundRows(rows)
      PROVE  \A r \in RowsOf(rows, Park) : SoundDate(r.start)'
  BY <1>a DEF SoundRows, RowsOf, Row
<1>b. \A r \in RowsOf(dates, Park) : SoundDate(r.start)'
  BY <1>0, <1>a DEF ParkInv
<1>c. \A l \in Loaders : \A r \in RowsOf(job[l].df, Park) : SoundDate(r.start)'
  BY <1>0, <1>a DEF ParkInv, Job
<1>1. ASSUME NEW l \in Loaders \ Parks, Begin(l)
      PROVE  SoundRows(dates)' /\ \A k \in Loaders : SoundRows(job[k].df)'
  BY <1>0, <1>1, <1>b, <1>c DEF Begin, EnterUpdate, NoJob, SoundRows, RowsOf
<1>2. ASSUME NEW l \in Loaders, ReadDates(l)
      PROVE  SoundRows(dates)' /\ \A k \in Loaders : SoundRows(job[k].df)'
  BY <1>0, <1>2, <1>b, <1>c DEF ReadDates, NoJob, SoundRows, RowsOf, Job
<1>3. ASSUME NEW l \in Loaders, NextId(l)
      PROVE  SoundRows(dates)' /\ \A k \in Loaders : SoundRows(job[k].df)'
  BY <1>0, <1>3, <1>b, <1>c DEF NextId, SoundRows, RowsOf, Job
<1>4. ASSUME NEW l \in Loaders, SaveDates(l)
      PROVE  SoundRows(dates)' /\ \A k \in Loaders : SoundRows(job[k].df)'
  <2>1. job[l] \in Job /\ job[l].df \in SUBSET Row
    BY <1>0 DEF Job
  <2>2. ASSUME NEW r \in RowsOf(dates', Park)
        PROVE  SoundDate(r.start)'
    <3>1. CASE NameOf[l] = Park
      <4>1. l \in Parks /\ job[l].pc # "idle" /\ job[l].start \in Nat
        BY <1>4, <2>1, <3>1 DEF SaveDates, Job
      <4>2. PICK s \in Nat : s = job[l].start
        BY <4>1
      <4>3. SoundDate(s)'
        BY <4>1, <4>2 DEF ParkInv, SoundUpdate
      <4>4. r.start = s
        BY <1>4, <2>1, <3>1, <4>2, UpsertedRows DEF SaveDates, RowsOf, Job
      <4>5. QED
        BY <4>3, <4>4
    <3>2. CASE NameOf[l] # Park
      <4>1. r \in RowsOf(job[l].df, Park)
        BY <1>4, <2>1, <3>2, UpsertedRows DEF SaveDates, RowsOf, Job
      <4>2. QED
        BY <1>c, <4>1
    <3>3. QED
      BY <3>1, <3>2
  <2>3. \A k \in Loaders : SoundRows(job[k].df)'
    BY <1>0, <1>4, <1>c DEF SaveDates, NoJob, SoundRows, RowsOf
  <2>4. QED
    BY <2>2, <2>3 DEF SoundRows
<1>5. ASSUME NEW l \in Loaders, Crash(l)
      PROVE  SoundRows(dates)' /\ \A k \in Loaders : SoundRows(job[k].df)'
  BY <1>0, <1>5, <1>b, <1>c DEF Crash, NoJob, SoundRows, RowsOf
<1>6. CASE Recreate
  BY <1>6, <1>c DEF Recreate, SoundRows, RowsOf
<1>7. QED
  BY <1>1, <1>2, <1>3, <1>4, <1>5, <1>6 DEF RegistryStep, Step

-----------------------------------------------------------------------------
\* The inductive step: with one PARK process, ParkInv survives every action.
LEMMA ParkInvStep ==
    ASSUME ParkTypeOK, ParkInv, [ParkNext]_parkVars, \A p, q \in Parks : p = q
    PROVE  ParkInv'
<1> USE ParksAssumption, GranuleAssumption
<1>1. \A s \in Nat : SoundDate(s) => SoundDate(s)'
  BY DateStaysSound
<1>2. /\ clock \in Nat /\ bronze \in Bronze /\ park \in [Parks -> Process]
      /\ job \in [Loaders -> Job] /\ dates \in SUBSET Row
  BY DEF ParkTypeOK, TypeOK
\* Outside the registry's own actions the rows are the old ones, or none.
<1>3. SoundRows(dates)' /\ \A l \in Loaders : SoundRows(job[l].df)'
  <2>1. ASSUME NEW rows \in SUBSET Row, SoundRows(rows)
        PROVE  \A r \in RowsOf(rows, Park) : SoundDate(r.start)'
    BY <1>1, <2>1 DEF SoundRows, RowsOf, Row
  <2>2. \A r \in RowsOf(dates, Park) : SoundDate(r.start)'
    BY <1>2, <2>1 DEF ParkInv
  <2>3. \A l \in Loaders : \A r \in RowsOf(job[l].df, Park) : SoundDate(r.start)'
    BY <1>2, <2>1 DEF ParkInv, Job
  <2>4. CASE RegistryStep
    BY <1>1, <2>4, RegistryRows
  <2>5. CASE ~RegistryStep
    <3>1. dates' \in {dates, {}}
      BY <2>5 DEF ParkNext, Upload, RecreateGold, Start, ParkStep, Head, CheckRegistry,
                  InitRegistry, Decide, ReadBronze, SaveGold, Kill, vars, parkVars
    <3>2. \A l \in Loaders : job'[l].df \in {job[l].df, {}}
      <4>1. UNCHANGED job \/ \E p \in Parks : SaveGold(p)
        BY <2>5 DEF ParkNext, Upload, RecreateGold, Start, ParkStep, Head, CheckRegistry,
                    InitRegistry, Decide, ReadBronze, Kill, vars, parkVars
      <4>2. ASSUME NEW p \in Parks, SaveGold(p)
            PROVE  \A l \in Loaders : job'[l].df \in {job[l].df, {}}
        BY <1>2, <4>2 DEF SaveGold, EnterUpdate, NoJob
      <4>3. QED
        BY <4>1, <4>2
    <3>3. QED
      BY <2>2, <2>3, <3>1, <3>2 DEF SoundRows, RowsOf
  <2>6. QED
    BY <2>4, <2>5
<1>4. ASSUME NEW p \in Parks
      PROVE  SoundUpdate(p)'
  <2>1. p \in Loaders /\ park[p] \in Process /\ job[p] \in Job
    BY <1>2
  <2>2. job[p].start \in Nat /\ park[p].start \in Nat
    BY <2>1 DEF Process, Job
  <2>3. CASE SaveGold(p)
    <3>1. job'[p].start = park[p].start /\ park'[p].pc = "idle"
      BY <1>2, <2>1, <2>3 DEF SaveGold, EnterUpdate, Exit, NoJob, NoProcess
    <3>2. park[p].start < clock /\ UNCHANGED <<clock, bronze>> /\ gold' = park[p].ver
      BY <2>3 DEF SaveGold, ParkInv, SoundLoad
    <3>3. park[p].start >= bronze.modified + Granule - 1 => park[p].ver = bronze.ver
      BY <2>3 DEF SaveGold, ParkInv, SoundLoad
    <3>4. \A q \in Parks : park'[q].pc = "idle"
      BY <3>1
    <3>5. SoundDate(job[p].start)'
      BY <3>1, <3>2, <3>3, <3>4 DEF SoundDate, Fresh
    <3>6. QED
      BY <3>1, <3>5 DEF SoundUpdate
  <2>4. CASE ~SaveGold(p) /\ job'[p].pc # "idle"
    <3>1. job[p].pc # "idle" /\ job'[p].start = job[p].start
      <4>1. \/ UNCHANGED job
            \/ \E l \in Loaders \ Parks : Begin(l)
            \/ \E l \in Loaders : Step(l)
        BY <2>4 DEF ParkNext, Upload, RecreateGold, Start, ParkStep, Head, CheckRegistry,
                    InitRegistry, Decide, ReadBronze, Kill, vars, parkVars,
                    RegistryStep, Recreate
      <4>2. ASSUME NEW l \in Loaders \ Parks, Begin(l)
            PROVE  UNCHANGED job[p]
        BY <1>2, <4>2 DEF Begin, EnterUpdate
      <4>3. ASSUME NEW l \in Loaders, Step(l)
            PROVE  job[p].pc # "idle" /\ job'[p].start = job[p].start
        <5>1. CASE ReadDates(l)
          BY <1>2, <2>1, <2>4, <5>1 DEF ReadDates, NoJob, Job
        <5>2. CASE NextId(l)
          BY <1>2, <2>1, <2>4, <5>2 DEF NextId, Job
        <5>3. CASE SaveDates(l) \/ Crash(l)
          BY <1>2, <2>1, <2>4, <5>3 DEF SaveDates, Crash, NoJob
        <5>4. QED
          BY <4>3, <5>1, <5>2, <5>3 DEF Step
      <4>4. QED
        BY <2>4, <4>1, <4>2, <4>3
    <3>2. park[p].pc = "idle" /\ SoundDate(job[p].start)
      BY <3>1 DEF ParkInv, SoundUpdate
    <3>3. park'[p].pc = "idle"
      <4>1. \A force \in BOOLEAN : ~Start(p, force)
        BY <3>1 DEF Start
      <4>2. ~ParkStep(p)
        BY <3>2 DEF ParkStep, Head, CheckRegistry, InitRegistry, Decide, ReadBronze,
                    SaveGold, Kill
      <4>3. UNCHANGED park
        BY <4>1, <4>2 DEF ParkNext, Upload, RecreateGold, RegistryStep, parkVars
      <4>4. QED
        BY <3>2, <4>3
    <3>4. SoundDate(job[p].start)'
      BY <1>1, <2>2, <3>1, <3>2
    <3>5. QED
      BY <3>3, <3>4 DEF SoundUpdate
  <2>5. QED
    BY <2>3, <2>4 DEF SoundUpdate
<1>5. ASSUME NEW p \in Parks
      PROVE  SoundLoad(p)'
  <2>1. park[p] \in Process /\ bronze.modified \in Int /\ bronze.ver \in Nat
    BY <1>2 DEF Bronze
  <2>2. CASE Upload
    <3>1. PICK m \in (clock - Granule + 1)..clock : bronze'.modified = m
      BY <2>2 DEF Upload
    <3>2. clock' = clock + 1 /\ UNCHANGED park
      BY <2>2 DEF Upload
    <3>3. QED
      BY <1>2, <2>1, <3>1, <3>2 DEF ParkInv, SoundLoad, Process
  <2>3. ASSUME NEW force \in BOOLEAN, Start(p, force)
        PROVE  SoundLoad(p)'
    BY <1>2, <2>3 DEF Start, NoProcess, SoundLoad
  <2>4. CASE ParkStep(p)
    <3>1. UNCHANGED <<clock, bronze>>
      BY <2>4 DEF ParkStep, Head, CheckRegistry, InitRegistry, Decide, ReadBronze,
                  SaveGold, Kill, vars
    <3>2. park'[p].pc # "idle" => park[p].pc # "idle" /\ park'[p].start = park[p].start
      BY <2>1, <2>4, <1>2 DEF ParkStep, Head, CheckRegistry, InitRegistry, Decide,
                  ReadBronze, SaveGold, Kill, Exit, NoProcess, Process
    <3>3. park'[p].pc = "gold" => park'[p].ver = bronze.ver
      BY <2>1, <2>4, <1>2 DEF ParkStep, Head, CheckRegistry, InitRegistry, Decide,
                  ReadBronze, SaveGold, Kill, Exit, NoProcess, Process
    <3>4. QED
      BY <3>1, <3>2, <3>3 DEF ParkInv, SoundLoad
  <2>5. CASE UNCHANGED <<bronze, park>> /\ clock' \in {clock, clock + 1}
    BY <1>2, <2>1, <2>5 DEF ParkInv, SoundLoad, Process
  <2>6. QED
    BY <2>2, <2>3, <2>4, <2>5 DEF ParkNext, RecreateGold, RegistryStep, Begin, Step,
       ReadDates, NextId, SaveDates, Crash, Recreate, vars, parkVars
<1>6. QED
  BY <1>3, <1>4, <1>5 DEF ParkInv

\* At first there is no load date and no load.
LEMMA ParkInvInit == ParkInit => ParkInv
BY ParksAssumption DEF ParkInit, Init, ParkInv, SoundRows, RowsOf, SoundUpdate,
   SoundLoad, NoJob, NoProcess

\* With one PARK process, no interleaving of uploads, crashes, blanked gold files
\* and other loaders' updates leaves a PARK load date at or after the last upload
\* while the gold file holds an older one.  (With two processes it can happen.)
THEOREM SoundLoadDates ==
    ASSUME \A p, q \in Parks : p = q
    PROVE  ParkSpec => []LoadDateSound
<1>1. ParkTypeOK /\ ParkInv /\ [ParkNext]_parkVars => ParkInv'
  BY ParkInvStep
<1>2. ParkInv => LoadDateSound
  BY DEF ParkInv, SoundRows, SoundDate, LoadDateSound
<1>3. QED
  BY <1>1, <1>2, ParkInvInit, ParkTypeCorrect, PTL DEF ParkSpec

-----------------------------------------------------------------------------
\* A process that has not ended yet has no exit code.
RunningInv == \A p \in Parks : park[p].pc # "idle" => park[p].result = "none"

\* An exit code comes with the end of a process and goes with the next start.
LEMMA RunningStep ==
    ASSUME ParkTypeOK, RunningInv, [ParkNext]_parkVars
    PROVE  RunningInv'
<1>1. park \in [Parks -> Process]
  BY DEF ParkTypeOK
<1>2. ASSUME NEW p \in Parks, NEW force \in BOOLEAN, Start(p, force)
      PROVE  RunningInv'
  BY <1>1, <1>2 DEF RunningInv, Start
<1>3. ASSUME NEW p \in Parks, ParkStep(p)
      PROVE  RunningInv'
  BY <1>1, <1>3 DEF RunningInv, ParkStep, Head, CheckRegistry, InitRegistry, Decide,
     ReadBronze, SaveGold, Kill, Exit, NoProcess, Process
<1>4. CASE UNCHANGED park
  BY <1>4 DEF RunningInv
<1>5. QED
  BY <1>2, <1>3, <1>4 DEF ParkNext, Upload, RecreateGold, RegistryStep, parkVars

\* A skip that is not a tie is justified by a sound load date.
LEMMA SkipIsDone ==
    ASSUME ParkTypeOK, ParkInv, RunningInv, ParkNext, \A p, q \in Parks : p = q
    PROVE  SkipsDoneOrTied
<1> SUFFICES ASSUME NEW p \in Parks, Skips(p)
             PROVE  Done(p) \/ Tied(p)
  BY DEF SkipsDoneOrTied
<1>1. park \in [Parks -> Process] /\ bronze \in Bronze /\ dates \in SUBSET Row
  BY DEF ParkTypeOK, TypeOK
<1>2. park[p].pc = "stored" /\ park[p].result = "none" /\ park'[p].result = "skipped"
  BY DEF Skips, RunningInv
<1>3. UpToDate(p)
  <2>1. \A force \in BOOLEAN : ~Start(p, force)
    BY <1>2 DEF Start
  <2>2. ~UNCHANGED park
    BY <1>2
  <2>3. ParkStep(p)
    <3>1. \E q \in Parks : (\E force \in BOOLEAN : Start(q, force)) \/ ParkStep(q)
      BY <2>2 DEF ParkNext, Upload, RecreateGold, RegistryStep
    <3>2. QED
      BY <2>1, <3>1
  <2>4. Decide(p) \/ Kill(p)
    BY <1>2, <2>3 DEF ParkStep, Head, CheckRegistry, InitRegistry, ReadBronze, SaveGold
  <2>5. ~Kill(p)
    BY <1>1, <1>2 DEF Kill, Exit, NoProcess
  <2>6. ~UpToDate(p) => ~Decide(p)
    BY <1>1, <1>2 DEF Decide, Process
  <2>7. QED
    BY <2>4, <2>5, <2>6
<1>4. PICK r \in RowsOf(dates, Park) : ~(park[p].head > r.start)
  BY <1>3 DEF UpToDate
<1>5. r.start \in Nat /\ park[p].head \in Int /\ bronze.modified \in Int
  BY <1>1 DEF RowsOf, Row, Process, Bronze
<1>6. Fresh(r.start)
  BY DEF ParkInv, SoundRows, SoundDate
<1>7. CASE bronze.modified # park[p].head
  BY <1>7 DEF Done
<1>8. CASE bronze.modified = park[p].head
  <2>1. CASE r.start >= bronze.modified + Granule - 1
    BY <1>6, <2>1 DEF Fresh, Done
  <2>2. CASE ~(r.start >= bronze.modified + Granule - 1)
    <3>1. r.start \in park[p].head..(park[p].head + Granule - 2)
      BY <1>4, <1>5, <1>8, <2>2, GranuleAssumption
    <3>2. QED
      BY <3>1 DEF Tied
  <2>3. QED
    BY <2>1, <2>2
<1>9. QED
  BY <1>7, <1>8

\* "Skipping load as it's already been done" (park_gold.py:77): with one PARK process
\* a skip has its file loaded, but for a tie of stamps, whatever else goes on.
THEOREM SkipsAreJustified ==
    ASSUME \A p, q \in Parks : p = q
    PROVE  ParkSpec => SkippedIsDoneOrTied
<1>1. ParkInit => RunningInv
  BY DEF ParkInit, RunningInv, NoProcess
<1>2. ParkTypeOK /\ RunningInv /\ [ParkNext]_parkVars => RunningInv'
  BY RunningStep
<1>3. ParkTypeOK /\ ParkInv /\ [ParkNext]_parkVars => ParkInv'
  BY ParkInvStep
<1>4. ParkTypeOK /\ ParkInv /\ RunningInv /\ [ParkNext]_parkVars
         => [SkipsDoneOrTied]_parkVars
  BY SkipIsDone
<1>5. QED
  BY <1>1, <1>2, <1>3, <1>4, ParkInvInit, ParkTypeCorrect, PTL
     DEF ParkSpec, SkippedIsDoneOrTied
=============================================================================
