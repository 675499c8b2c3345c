---------------------------- MODULE DefcGoldProofs ----------------------------
(***************************************************************************)
(* Theorems about DefcGold, for any contents, bounds and kills.            *)
(***************************************************************************)
EXTENDS DefcGold, TLAPS

\* A run that is past the existence check derives from a group table, and from
\* raw contents it has checked.
DeriveInv == \A r \in Runs :
                /\ run[r].pc \in {"raw", "derive"} => groups # "missing"
                /\ run[r].pc = "derive" => run[r].raw \in Contents

\* A run that is past the derivation holds a derived table.
NewInv == \A r \in Runs :
             run[r].pc \in {"diff", "save", "record", "export"} => run[r].new \in Tables

\* The locals stay typed, whatever step a run takes.
LEMMA RunStepType ==
    ASSUME TypeOK, DeriveInv, NEW r \in Runs, Step(r) \/ Kill(r)
    PROVE  run' \in [Runs -> Run]
<1>0. run \in [Runs -> Run] /\ run[r] \in Run /\ raw \in Raw /\ groups \in Groups
      /\ govinfo \in GovInfo
  BY DEF TypeOK
<1>1. ASSUME NEW code \in {"loaded", "skipped", "bad_file", "raised"}, Exit(r, code)
      PROVE  run' \in [Runs -> Run]
  <2>1. [NoRun EXCEPT !.exit = code] \in Run
    BY DEF NoRun, Run, LocalFiles
  <2>2. QED
    BY <1>0, <1>1, <2>1 DEF Exit
<1>2. ASSUME NEW pc \in {"raw", "save", "record", "export"}, Goto(r, pc)
      PROVE  run' \in [Runs -> Run]
  <2>1. [run[r] EXCEPT !.pc = pc] \in Run
    BY <1>0 DEF Run
  <2>2. QED
    BY <1>0, <1>2, <2>1 DEF Goto
<1>3. CASE CheckTables(r)
  BY <1>1, <1>2, <1>3 DEF CheckTables
<1>4. CASE ReadRaw(r)
  <2> DEFINE data == IF run[r].local # NoFile THEN run[r].local ELSE raw
  <2>1. CASE data \in Contents
    <3>1. [run[r] EXCEPT !.pc = "derive", !.raw = data] \in Run
      BY <1>0, <2>1 DEF Run
    <3>2. QED
      BY <1>0, <1>4, <2>1, <3>1 DEF ReadRaw
  <2>2. CASE data \notin Contents
    BY <1>1, <1>4, <2>2 DEF ReadRaw
  <2>3. QED
    BY <2>1, <2>2
<1>5. CASE SaveGold(r) \/ Record(r) \/ Export(r) \/ Diff(r) \/ Kill(r)
  BY <1>1, <1>2, <1>5 DEF SaveGold, Record, Export, Diff, Kill
<1>6. CASE Derive(r)
  <2>1. CASE groups = "no_covid_19" \/ govinfo = "down"
    BY <1>1, <1>6, <2>1 DEF Derive
  <2>2. CASE ~(groups = "no_covid_19" \/ govinfo = "down")
    <3> DEFINE new == [raw |-> run[r].raw, groups |-> groups, govinfo |-> govinfo]
    <3>1. run[r].raw \in Contents /\ groups \in {"groups1", "groups2"}
      BY <1>0, <1>6, <2>2 DEF Derive, DeriveInv, Groups
    <3>2. new \in Tables
      BY <1>0, <2>2, <3>1 DEF Tables, GovInfo
    <3>3. [run[r] EXCEPT !.pc = "diff", !.new = new] \in Run
      BY <1>0, <3>2 DEF Run
    <3>4. QED
      BY <1>0, <1>6, <2>2, <3>3 DEF Derive
  <2>3. QED
    BY <2>1, <2>2
<1>7. QED
  BY <1>3, <1>4, <1>5, <1>6 DEF Step

\* Neither does a run's step undo what Derive relies on.
LEMMA RunStepDerive ==
    ASSUME TypeOK, DeriveInv, NEW r \in Runs, Step(r) \/ Kill(r)
    PROVE  DeriveInv'
<1>1. run \in [Runs -> Run] /\ run[r] \in Run
  BY DEF TypeOK
<1>2. groups' = groups
  BY DEF Step, CheckTables, ReadRaw, Derive, Diff, SaveGold, Record, Export, Kill, inputs
<1>3. CASE ReadRaw(r)
  <2> DEFINE data == IF run[r].local # NoFile THEN run[r].local ELSE raw
  <2>1. \A q \in Runs \ {r} : run'[q] = run[q]
    BY <1>1, <1>3 DEF ReadRaw, Exit
  <2>2. groups # "missing"
    BY <1>3 DEF ReadRaw, DeriveInv
  <2>3. CASE data \in Contents
    <3>1. run' = [run EXCEPT ![r].pc = "derive", ![r].raw = data]
      BY <1>3, <2>3 DEF ReadRaw
    <3>2. run'[r].raw = data
      BY <1>1, <3>1 DEF Run
    <3>3. QED
      BY <1>2, <2>1, <2>2, <2>3, <3>2 DEF DeriveInv
  <2>4. CASE data \notin Contents
    <3>1. run'[r].pc = "idle"
      BY <1>1, <1>3, <2>4 DEF ReadRaw, Exit, NoRun
    <3>2. QED
      BY <1>2, <2>1, <2>2, <3>1 DEF DeriveInv
  <2>5. QED
    BY <2>3, <2>4
<1>4. CASE ~ReadRaw(r)
  <2>1. run'[r].pc \in {"raw", "diff", "save", "record", "export", "idle"}
    BY <1>1, <1>4 DEF Step, CheckTables, Derive, Diff, SaveGold, Record, Export, Kill,
                      Goto, Exit, NoRun, Run
  <2>2. \A q \in Runs \ {r} : run'[q] = run[q]
    BY <1>1, <1>4 DEF Step, CheckTables, Derive, Diff, SaveGold, Record, Export, Kill,
                      Goto, Exit
  <2>3. run'[r].pc \in {"raw", "derive"} => groups # "missing"
    BY <1>1, <1>4, <2>1 DEF Step, CheckTables, Derive, Diff, SaveGold, Record, Export, Kill,
                      Goto, Exit, NoRun, Run
  <2>4. QED
    BY <1>2, <2>1, <2>2, <2>3 DEF DeriveInv
<1>5. QED
  BY <1>3, <1>4

\* What Derive computes is a table, and the run keeps it until it ends.
LEMMA RunStepNew ==
    ASSUME TypeOK, DeriveInv, NewInv, NEW r \in Runs, Step(r) \/ Kill(r)
    PROVE  NewInv'
<1>1. run \in [Runs -> Run] /\ run[r] \in Run /\ groups \in Groups /\ govinfo \in GovInfo
  BY DEF TypeOK
<1>2. \A q \in Runs \ {r} : run'[q] = run[q]
  BY <1>1 DEF Step, CheckTables, ReadRaw, Derive, Diff, SaveGold, Record, Export, Kill,
              Goto, Exit
<1>3. SUFFICES ASSUME run'[r].pc \in {"diff", "save", "record", "export"}
               PROVE  run'[r].new \in Tables
  BY <1>2 DEF NewInv
<1>4. CASE Derive(r)
  <2> DEFINE new == [raw |-> run[r].raw, groups |-> groups, govinfo |-> govinfo]
  <2>1. run'[r].pc = "idle" \/ run'[r].new = new
    BY <1>1, <1>4 DEF Derive, Exit, NoRun, Run
  <2>2. run'[r].pc = "idle" \/ (groups # "no_covid_19" /\ govinfo # "down")
    BY <1>1, <1>4 DEF Derive, Exit, NoRun, Run
  <2>3. run[r].raw \in Contents /\ groups # "missing"
    BY <1>4 DEF Derive, DeriveInv
  <2>4. new \in Tables
    BY <1>1, <1>3, <2>2, <2>3 DEF Tables, Groups, GovInfo
  <2>5. QED
    BY <1>3, <2>1, <2>4
<1>5. CASE ReadRaw(r)
  <2>1. run'[r].pc \in {"derive", "idle"}
    BY <1>1, <1>5 DEF ReadRaw, Exit, NoRun, Run
  <2>2. QED
    BY <1>3, <2>1
<1>6. CASE CheckTables(r) \/ Diff(r) \/ SaveGold(r) \/ Record(r) \/ Export(r) \/ Kill(r)
  <2>1. /\ run[r].pc \in {"diff", "save", "record"}
        /\ run'[r].new = run[r].new
    BY <1>1, <1>3, <1>6 DEF CheckTables, Diff, SaveGold, Record, Export, Kill, Goto, Exit,
                            NoRun, Run
  <2>2. QED
    BY <2>1 DEF NewInv
<1>7. QED
  BY <1>4, <1>5, <1>6 DEF Step

\* A start of the script keeps the locals typed and derives from nothing yet.
LEMMA BeginType ==
    ASSUME TypeOK, DeriveInv, NewInv, NEW r \in Runs, NEW force \in BOOLEAN,
           NEW local \in LocalFiles, Begin(r, force, local), groups' = groups
    PROVE  run' \in [Runs -> Run] /\ DeriveInv' /\ NewInv'
<1> DEFINE started == [NoRun EXCEPT !.pc = "check", !.force = force, !.local = local]
<1>1. started \in Run /\ started.pc = "check"
  BY DEF NoRun, Run, LocalFiles
<1>2. run \in [Runs -> Run] /\ run' = [run EXCEPT ![r] = started]
  BY DEF TypeOK, Begin
<1>3. DeriveInv' /\ NewInv'
  BY <1>1, <1>2 DEF DeriveInv, NewInv
<1>4. QED
  BY <1>1, <1>2, <1>3

\* The inductive invariant behind DefcTypeCorrect.
DefcInv == TypeOK /\ DeriveInv /\ NewInv

\* Every step of the system preserves the types and what Derive relies on.
LEMMA DefcStepType ==
    ASSUME DefcInv, [Next]_vars
    PROVE  DefcInv'
<1> USE DEF DefcInv
<1>1. CASE UNCHANGED vars
  BY <1>1 DEF vars, TypeOK, DeriveInv, NewInv
<1>2. CASE ChangeInput
  <2>1. raw' \in Raw /\ groups' \in Groups /\ govinfo' \in GovInfo
    BY <1>2 DEF ChangeInput, TypeOK
  <2>2. groups # "missing" => groups' # "missing"
    BY <1>2 DEF ChangeInput
  <2>3. QED
    BY <1>2, <2>1, <2>2, BoundsAssumption DEF ChangeInput, TypeOK, DeriveInv, NewInv, outputs
<1>3. CASE RecreateGold
  BY <1>3, BoundsAssumption DEF RecreateGold, TypeOK, DeriveInv, NewInv, inputs
<1>4. CASE CreateRegistry
  BY <1>4 DEF CreateRegistry, TypeOK, DeriveInv, NewInv, inputs, bounds
<1>5. ASSUME NEW r \in Runs, Scheduled(r)
      PROVE  DefcInv'
  <2>1. run' \in [Runs -> Run] /\ DeriveInv' /\ NewInv'
    BY <1>5, BeginType DEF Scheduled, inputs, LocalFiles
  <2>2. QED
    BY <1>5, <2>1 DEF Scheduled, TypeOK, inputs, outputs, bounds
<1>6. ASSUME NEW r \in Runs, Manual(r)
      PROVE  DefcInv'
  <2>1. run' \in [Runs -> Run] /\ DeriveInv' /\ NewInv'
    BY <1>6, BeginType DEF Manual, inputs
  <2>2. QED
    BY <1>6, <2>1, BoundsAssumption DEF Manual, TypeOK, inputs, outputs
<1>7. ASSUME NEW r \in Runs, Step(r) \/ Kill(r)
      PROVE  DefcInv'
  <2>1. run' \in [Runs -> Run] /\ DeriveInv' /\ NewInv'
    BY <1>7, RunStepType, RunStepDerive, RunStepNew
  <2>2. raw' \in Raw /\ groups' \in Groups /\ govinfo' \in GovInfo
    BY <1>7 DEF TypeOK, Step, CheckTables, ReadRaw, Derive, Diff, SaveGold, Record,
                Export, Kill, inputs
  <2>3. registry' \in BOOLEAN /\ changes' \in 0..MaxChanges /\ kills' \in 0..MaxKills
    BY <1>7, BoundsAssumption DEF TypeOK, Step, CheckTables, ReadRaw, Derive, Diff,
                SaveGold, Record, Export, Kill, outputs, bounds
  <2>4. gold' \in Tables \cup {Blank, Missing} /\ public' \in Tables \cup {NoTable}
    BY <1>7 DEF TypeOK, NewInv, Step, CheckTables, ReadRaw, Derive, Diff, SaveGold, Record,
                Export, Kill, outputs
  <2>5. cut' \in BOOLEAN
    <3>1. UNCHANGED cut \/ cut' = (cut \/ ~registry)
                       \/ cut' = (cut \/ run[r].pc \in {"record", "export"})
      BY <1>7, Zenon DEF Step, CheckTables, ReadRaw, Derive, Diff, SaveGold, Record, Export,
                         Kill, bounds
    <3>2. QED
      BY <3>1, Zenon DEF TypeOK
  <2>6. QED
    BY <2>1, <2>2, <2>3, <2>4, <2>5, Zenon DEF TypeOK
<1>8. QED
  BY <1>1, <1>2, <1>3, <1>4, <1>5, <1>6, <1>7 DEF Next

\* The initial states are typed, and no run has derived anything.
LEMMA DefcInitType == Init => DefcInv
<1>1. Contents \cup {"missing"} \subseteq Raw
  BY DEF Raw
<1>2. NoRun \in Run
  BY DEF NoRun, Run, LocalFiles
<1>3. 0 \in 0..MaxChanges /\ 0 \in 0..MaxKills
  BY BoundsAssumption
<1>4. "groups1" \in Groups /\ "missing" \in Groups /\ "titles" \in GovInfo
  BY DEF Groups, GovInfo
<1>5. Init => TypeOK
  BY <1>1, <1>2, <1>3, <1>4, Zenon DEF Init, TypeOK
<1>6. Init => DeriveInv /\ NewInv
  BY DEF Init, DeriveInv, NewInv, NoRun
<1>7. QED
  BY <1>5, <1>6 DEF DefcInv

\* The loader never derives from what it has not checked: every variable keeps
\* its type, above all the gold table, however executions and people interleave.
THEOREM DefcTypeCorrect == Spec => []TypeOK
<1>1. Spec => []DefcInv
  BY DefcInitType, DefcStepType, PTL DEF Spec
<1>2. DefcInv => TypeOK
  BY DEF DefcInv
<1>3. QED
  BY <1>1, <1>2, PTL

-----------------------------------------------------------------------------
(* One execution at a time.                                                *)

\* With a single execution, nobody else writes the gold table between its save
\* and its export.
LEMMA MineStep ==
    ASSUME \A q, r \in Runs : q = r, DefcInv, GoldIsMine, [Next]_vars
    PROVE  GoldIsMine'
<1> USE DEF DefcInv
<1>0. run \in [Runs -> Run]
  BY DEF TypeOK
<1>1. CASE UNCHANGED vars
  BY <1>1 DEF vars, GoldIsMine, Saved
<1>2. CASE ChangeInput \/ RecreateGold \/ CreateRegistry
  BY <1>2 DEF ChangeInput, RecreateGold, CreateRegistry, GoldIsMine, Saved, outputs
<1>3. ASSUME NEW r \in Runs, Scheduled(r) \/ Manual(r)
      PROVE  GoldIsMine'
  <2>1. run'[r].pc = "check"
    BY <1>0, <1>3 DEF Scheduled, Manual, Begin, NoRun
  <2>2. QED
    BY <2>1 DEF GoldIsMine, Saved
<1>4. ASSUME NEW r \in Runs, Step(r) \/ Kill(r)
      PROVE  GoldIsMine'
  <2>1. CASE SaveGold(r)
    <3>1. run'[r].new = run[r].new /\ gold' = run[r].new
      BY <1>0, <2>1 DEF SaveGold, Goto, Run
    <3>2. QED
      BY <3>1 DEF GoldIsMine, Saved
  <2>2. CASE Record(r)
    <3>1. /\ gold' = gold /\ gold \in {run[r].new, Blank}
          /\ run'[r].pc = "idle" \/ run'[r].new = run[r].new
      BY <1>0, <2>2 DEF Record, Goto, Exit, NoRun, Run, GoldIsMine, Saved, outputs
    <3>2. QED
      BY <3>1 DEF GoldIsMine, Saved
  <2>3. CASE ~SaveGold(r) /\ ~Record(r)
    <3>1. run'[r].pc \in {"idle", "raw", "derive", "diff", "save"}
      BY <1>0, <1>4, <2>3 DEF Step, CheckTables, ReadRaw, Derive, Diff, Export, Kill, Goto,
                              Exit, NoRun, Run
    <3>2. QED
      BY <3>1 DEF GoldIsMine, Saved
  <2>4. QED
    BY <2>1, <2>2, <2>3
<1>5. QED
  BY <1>1, <1>2, <1>3, <1>4 DEF Next

\* And the public file keeps up with gold, but for the time from a save to its export.
LEMMA PublicStep ==
    ASSUME \A q, r \in Runs : q = r, DefcInv, GoldIsMine, PublicIsGold, [Next]_vars
    PROVE  PublicIsGold'
<1> USE DEF DefcInv
<1>0. run \in [Runs -> Run]
  BY DEF TypeOK
<1>1. CASE UNCHANGED vars
  BY <1>1 DEF vars, PublicIsGold, Saved
<1>2. CASE ChangeInput \/ RecreateGold \/ CreateRegistry
  BY <1>2 DEF ChangeInput, RecreateGold, CreateRegistry, PublicIsGold, Saved, outputs, bounds
<1>3. ASSUME NEW r \in Runs, Scheduled(r) \/ Manual(r)
      PROVE  PublicIsGold'
  <2>1. run[r].pc = "idle" /\ gold' = gold /\ public' = public /\ cut' = cut
    BY <1>3 DEF Scheduled, Manual, Begin, outputs, bounds
  <2>2. \A q \in Runs : ~Saved(q)
    BY <2>1 DEF Saved
  <2>3. QED
    BY <2>1, <2>2 DEF PublicIsGold
<1>4. ASSUME NEW r \in Runs, Step(r) \/ Kill(r)
      PROVE  PublicIsGold'
  <2>1. CASE SaveGold(r)
    <3>1. run'[r].pc = "record"
      BY <1>0, <2>1 DEF SaveGold, Goto, Run
    <3>2. QED
      BY <3>1 DEF PublicIsGold, Saved
  <2>2. CASE Record(r)
    <3>1. CASE registry
      <4>1. Goto(r, "export")
        BY <2>2, <3>1, Zenon DEF Record
      <4>2. run'[r].pc = "export"
        BY <1>0, <4>1 DEF Goto, Run
      <4>3. QED
        BY <4>2 DEF PublicIsGold, Saved
    <3>2. CASE ~registry
      <4>1. cut'
        BY <2>2, <3>2, Zenon DEF Record
      <4>2. QED
        BY <4>1, Zenon DEF PublicIsGold
    <3>3. QED
      BY <3>1, <3>2
  <2>3. CASE Export(r)
    <3>1. gold \in {run[r].new, Blank} /\ gold' = gold /\ public' = run[r].new
      BY <2>3 DEF Export, GoldIsMine, Saved
    <3>2. QED
      BY <3>1 DEF PublicIsGold
  <2>4. CASE Kill(r) /\ Saved(r)
    <3>1. cut'
      BY <2>4, Zenon DEF Kill, Saved
    <3>2. QED
      BY <3>1, Zenon DEF PublicIsGold
  <2>5. CASE CheckTables(r) \/ ReadRaw(r) \/ Derive(r) \/ Diff(r) \/ (Kill(r) /\ ~Saved(r))
    <3>1. gold' = gold /\ public' = public
      BY <2>5 DEF CheckTables, ReadRaw, Derive, Diff, Kill, outputs
    <3>2. ~Saved(r)
      BY <2>5 DEF CheckTables, ReadRaw, Derive, Diff, Saved
    <3>3. \A q \in Runs : ~Saved(q)
      BY <3>2
    <3>4. cut' = cut \/ cut' = (cut \/ run[r].pc \in {"record", "export"})
      BY <2>5, Zenon DEF CheckTables, ReadRaw, Derive, Diff, Kill, bounds
    <3>5. cut => cut'
      BY <3>4, Zenon
    <3>6. QED
      BY <3>1, <3>3, <3>5, Zenon DEF PublicIsGold
  <2>6. QED
    BY <1>4, <2>1, <2>2, <2>3, <2>4, <2>5 DEF Step
<1>5. QED
  BY <1>1, <1>2, <1>3, <1>4 DEF Next

\* "Exports ... if successful" (defc_gold.py): when executions do not overlap, a
\* run that ends having loaded, or having found nothing to load while none was cut
\* off, leaves the public file equal to the gold table.
THEOREM EndedIsExported ==
    ASSUME \A q, r \in Runs : q = r
    PROVE  Spec => EndsPublic
<1>1. Init => GoldIsMine /\ PublicIsGold
  BY DEF Init, GoldIsMine, PublicIsGold, Saved, NoRun
<1>2. DefcInv /\ GoldIsMine /\ PublicIsGold /\ [Next]_vars => (GoldIsMine /\ PublicIsGold)'
  BY MineStep, PublicStep
<1>3. Spec => [](DefcInv /\ GoldIsMine /\ PublicIsGold)
  BY <1>1, <1>2, DefcInitType, DefcStepType, PTL DEF Spec
<1>4. DefcInv /\ GoldIsMine /\ PublicIsGold /\ [Next]_vars
      => [EndedInStep]_vars
  <2> SUFFICES ASSUME DefcInv, GoldIsMine, PublicIsGold, Next, NEW r \in Runs,
                      Ends(r, "loaded") \/ (Ends(r, "skipped") /\ ~cut)
               PROVE  InStep
    BY DEF EndedInStep
  <2>0. run \in [Runs -> Run]
    BY DEF DefcInv, TypeOK
  <2>1. ~(ChangeInput \/ RecreateGold \/ CreateRegistry)
    BY DEF ChangeInput, RecreateGold, CreateRegistry, Ends, outputs
  <2>2. ~(Scheduled(r) \/ Manual(r))
    BY DEF Scheduled, Manual, Begin, Ends
  <2>3. Step(r) \/ Kill(r)
    BY <2>1, <2>2 DEF Next
  <2>4. CASE Ends(r, "loaded")
    <3>1. Export(r)
      BY <2>0, <2>3, <2>4 DEF Step, CheckTables, ReadRaw, Derive, Diff, SaveGold, Record, Kill,
                              Goto, Exit, NoRun, Ends, Run
    <3>2. gold' = gold /\ public' = run[r].new /\ gold \in {run[r].new, Blank}
      BY <3>1 DEF Export, GoldIsMine, Saved
    <3>3. QED
      BY <3>2 DEF InStep
  <2>5. CASE Ends(r, "skipped") /\ ~cut
    <3>1. Diff(r)
      BY <2>0, <2>3, <2>5 DEF Step, CheckTables, ReadRaw, Derive, SaveGold, Record, Export,
                              Kill, Goto, Exit, NoRun, Ends, Run
    <3>2. run[r].pc = "diff" /\ gold = run[r].new /\ gold' = gold /\ public' = public
      BY <2>0, <2>5, <3>1 DEF Diff, Goto, Ends, Run, outputs
    <3>3. gold \in Tables
      BY <3>2 DEF DefcInv, NewInv
    <3>4. gold # Missing
      BY <3>3 DEF Tables, Missing, NoTable
    <3>5. \A q \in Runs : ~Saved(q)
      BY <3>2 DEF Saved
    <3>6. QED
      BY <2>5, <3>2, <3>4, <3>5 DEF PublicIsGold, InStep
  <2>6. QED
    BY <2>4, <2>5
<1>5. QED
  BY <1>3, <1>4, PTL DEF Spec, EndsPublic
=============================================================================
