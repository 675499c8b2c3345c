----------------------------- MODULE FonGoldProofs -----------------------------
(***************************************************************************)
(* Theorems about FonGold, for any contents, local files, flags and        *)
(* bounds.                                                                 *)
(***************************************************************************)
EXTENDS FonGold, TLAPS

\* A step of an execution, or its end.
RunStep(r) == Step(r) \/ Kill(r)

LEMMA NoRunType == NoRun \in Run
<1>1. 0 \in Moments
  BY BoundsAssumption DEF Moments
<1>2. QED
  BY <1>1 DEF NoRun, Run

\* A step changes the locals of one execution: it starts, reads, goes on or ends.
LEMMA RunShape ==
    ASSUME TypeOK, NEW r \in Runs, Scheduled(r) \/ Manual(r) \/ RunStep(r)
    PROVE  \E new \in Run : run' = [run EXCEPT ![r] = new]
<1>0. run \in [Runs -> Run] /\ run[r] \in Run /\ Len(uploads) \in Moments
  BY BoundsAssumption DEF TypeOK, Moments
<1>1. ASSUME NEW code \in {"ok", "raised"}, Exit(r, code)
      PROVE  \E new \in Run : run' = [run EXCEPT ![r] = new]
  <2>1. [NoRun EXCEPT !.exit = code] \in Run
    BY NoRunType DEF Run
  <2>2. QED
    BY <1>1, <2>1 DEF Exit
<1>2. ASSUME NEW pc \in {"save", "public", "record"}, Goto(r, pc)
      PROVE  \E new \in Run : run' = [run EXCEPT ![r] = new]
  <2>1. [run[r] EXCEPT !.pc = pc] \in Run
    BY <1>0 DEF Run
  <2>2. run' = [run EXCEPT ![r] = [run[r] EXCEPT !.pc = pc]]
    BY <1>0, <1>2 DEF Goto
  <2>3. QED
    BY <2>1, <2>2
<1>3. ASSUME NEW force \in BOOLEAN, NEW local \in LocalFiles \cup {Missing},
             Begin(r, force, local)
      PROVE  \E new \in Run : run' = [run EXCEPT ![r] = new]
  <2>1. PICK publish \in Publish :
           run' = [run EXCEPT ![r] =
                     [NoRun EXCEPT !.pc = "read", !.force = force, !.local = local,
                                   !.publish = publish, !.start = Len(uploads)]]
    BY <1>3 DEF Begin
  <2>2. [NoRun EXCEPT !.pc = "read", !.force = force, !.local = local,
                      !.publish = publish, !.start = Len(uploads)] \in Run
    BY <1>0, FlagsAssumption DEF NoRun, Run
  <2>3. QED
    BY <2>1, <2>2
<1>4. CASE Scheduled(r) \/ Manual(r)
  BY <1>3, <1>4 DEF Scheduled, Manual
<1>5. CASE Read(r)
  <2> DEFINE data == IF run[r].local # Missing THEN run[r].local ELSE Bronze
  <2>1. CASE data \in Contents
    <3>1. [run[r] EXCEPT !.pc = "diff", !.new = data] \in Run
      BY <1>0, <2>1 DEF Run
    <3>2. run' = [run EXCEPT ![r] = [run[r] EXCEPT !.pc = "diff", !.new = data]]
      BY <1>0, <1>5, <2>1 DEF Read
    <3>3. QED
      BY <3>1, <3>2
  <2>2. CASE data \notin Contents
    BY <1>1, <1>5, <2>2 DEF Read
  <2>3. QED
    BY <2>1, <2>2
<1>6. CASE Diff(r) \/ Save(r) \/ PublishNumbers(r) \/ Record(r) \/ Kill(r)
  BY <1>1, <1>2, <1>6 DEF Diff, Save, PublishNumbers, Record, Kill
<1>7. QED
  BY <1>4, <1>5, <1>6 DEF RunStep, Step

LEMMA FonInitType == Init => TypeOK
<1> SUFFICES ASSUME Init
             PROVE  TypeOK
  OBVIOUS
<1>1. run \in [Runs -> Run]
  BY NoRunType DEF Init
<1>2. uploads \in Seq(Files) /\ Len(uploads) <= MaxUploads
  BY BoundsAssumption DEF Init
<1>3. behind \in BOOLEAN
  BY DEF Init
<1>4. manual \in 0..MaxManual /\ kills \in 0..MaxKills
  BY BoundsAssumption DEF Init
<1>5. QED
  BY <1>1, <1>2, <1>3, <1>4 DEF Init, TypeOK, Files

LEMMA FonStepType == TypeOK /\ [Next]_vars => TypeOK'
<1> SUFFICES ASSUME TypeOK, [Next]_vars
             PROVE  TypeOK'
  OBVIOUS
<1> USE BoundsAssumption
<1>1. CASE UNCHANGED vars
  BY <1>1 DEF vars, TypeOK
<1>2. CASE Upload
  <2>1. uploads' \in Seq(Files) /\ Len(uploads') <= MaxUploads
    BY <1>2 DEF Upload, TypeOK
  <2>2. QED
    BY <1>2, <2>1 DEF Upload, TypeOK, outputs, bounds
<1>3. CASE RecreateGold \/ CreateRegistry
  BY <1>3 DEF RecreateGold, CreateRegistry, TypeOK, Files, bounds
<1>4. ASSUME NEW r \in Runs, Scheduled(r) \/ Manual(r) \/ RunStep(r)
      PROVE  TypeOK'
  <2>1. run' \in [Runs -> Run]
    BY <1>4, RunShape DEF TypeOK
  <2>2. run[r] \in Run
    BY DEF TypeOK
  <2>3. uploads' = uploads
    BY <1>4 DEF RunStep, Step, Scheduled, Manual, Read, Diff, Save, PublishNumbers, Record,
                Kill
  <2>4. gold' = gold \/ gold' = run[r].new
    BY <1>4 DEF RunStep, Step, Scheduled, Manual, Read, Diff, Save, PublishNumbers, Record,
                Kill, outputs
  <2>5. public' = public \/ public' = run[r].new
    BY <1>4 DEF RunStep, Step, Scheduled, Manual, Read, Diff, Save, PublishNumbers, Record,
                Kill, outputs
  <2>6. date' = date \/ date' = run[r].start
    BY <1>4 DEF RunStep, Step, Scheduled, Manual, Read, Diff, Save, PublishNumbers, Record,
                Kill, outputs
  <2>7. behind' \in BOOLEAN
    <3>1. behind \in BOOLEAN /\ run[r].publish \in BOOLEAN
      BY <2>2 DEF TypeOK, Run
    <3>2. CASE Save(r) \/ Kill(r)
      BY <3>1, <3>2, Zenon DEF Save, Kill
    <3>3. CASE ~(Save(r) \/ Kill(r))
      <4>1. behind' = behind
        BY <1>4, <3>3 DEF RunStep, Step, Scheduled, Manual, Read, Diff, PublishNumbers,
                          Record, bounds
      <4>2. QED
        BY <3>1, <4>1
    <3>4. QED
      BY <3>2, <3>3
  <2>8. manual' \in 0..MaxManual /\ kills' \in 0..MaxKills
    <3>1. CASE Scheduled(r) \/ Step(r)
      BY <3>1 DEF Step, Scheduled, Read, Diff, Save, PublishNumbers, Record, bounds, TypeOK
    <3>2. CASE Manual(r) \/ Kill(r)
      BY <3>2 DEF Manual, Kill, TypeOK
    <3>3. QED
      BY <1>4, <3>1, <3>2 DEF RunStep
  <2>9. QED
    BY <2>1, <2>2, <2>3, <2>4, <2>5, <2>6, <2>7, <2>8 DEF TypeOK, Run, Files
<1>5. QED
  BY <1>1, <1>2, <1>3, <1>4 DEF Next, RunStep

\* The state of the FON loader (fon_gold.py) keeps its types.
THEOREM FonTypeCorrect == Spec => []TypeOK
BY FonInitType, FonStepType, PTL DEF Spec

-----------------------------------------------------------------------------
(* What holds when executions do not overlap.                              *)

\* gold is the bronze file of moment d, or a later one.
HoldsIn(files, file, d) == \E i \in 1..Len(files) : i >= d /\ files[i] = file

Started(r) == run[r].pc # "idle"
Ready(r) == run[r].pc \in {"diff", "save", "public", "record"}
Written(r) == run[r].pc \in {"public", "record"}

\* What an execution holds is a bronze file no older than its start, or a local
\* file; once written it is what gold holds; no date is later than its start.
RunInv ==
    \A r \in Runs :
        /\ Started(r) => /\ run[r].exit = "none"
                         /\ run[r].start <= Len(uploads)
                         /\ date \in Moments => date <= run[r].start
        /\ Ready(r) => /\ run[r].new \in Contents
                       /\ run[r].new \notin LocalFiles
                             => HoldsIn(uploads, run[r].new, run[r].start)
        /\ Written(r) => gold \in {run[r].new, Blank}

DateInv == date \in Moments =>
              /\ date <= Len(uploads)
              /\ gold \notin LocalFiles \cup {Blank} => HoldsIn(uploads, gold, date)

\* The public file shows the gold table, unless a run is between the two.
PublicInv == behind \/ gold \in {public, Blank, Missing}
                    \/ \E r \in Runs : run[r].pc = "public"

FonInv == TypeOK /\ RunInv /\ DateInv /\ PublicInv

LEMMA FonInitInv == Init => FonInv
<1> SUFFICES ASSUME Init
             PROVE  FonInv
  OBVIOUS
<1>1. TypeOK
  BY FonInitType
<1>2. \A r \in Runs : run[r].pc = "idle"
  BY DEF Init, NoRun
<1>3. RunInv
  <2>1. \A r \in Runs : ~Started(r) /\ ~Ready(r) /\ ~Written(r)
    BY <1>2 DEF Started, Ready, Written
  <2>2. QED
    BY <2>1, Zenon DEF RunInv
<1>4. date \notin Moments
  BY BoundsAssumption DEF Init, Moments, NoDate, NoRegistry
<1>5. PublicInv
  BY DEF Init, PublicInv
<1>6. QED
  BY <1>1, <1>3, <1>4, <1>5 DEF FonInv, DateInv

\* The environment.  A file stays in the sequence of uploads.
LEMMA EnvironmentStep ==
    ASSUME FonInv, Upload \/ RecreateGold \/ CreateRegistry
    PROVE  RunInv' /\ DateInv' /\ PublicInv'
<1>0. /\ run \in [Runs -> Run] /\ uploads \in Seq(Files) /\ run' = run
      /\ date \in Moments \cup {NoDate, NoRegistry} /\ Moments \subseteq Int
      /\ Len(uploads) \in Nat
  BY BoundsAssumption
     DEF FonInv, TypeOK, Upload, RecreateGold, CreateRegistry, Moments
<1>1. /\ Len(uploads) <= Len(uploads')
      /\ \A i \in 1..Len(uploads) : i \in 1..Len(uploads') /\ uploads'[i] = uploads[i]
      /\ Len(uploads') \in Nat
  BY <1>0 DEF Upload, RecreateGold, CreateRegistry
<1>2. \A file, d : HoldsIn(uploads, file, d) => HoldsIn(uploads', file, d)
  BY <1>1 DEF HoldsIn
<1>3. gold' = gold \/ gold' = Blank
  BY DEF Upload, RecreateGold, CreateRegistry, outputs
<1>4. date' = date \/ date' \notin Moments
  BY DEF Upload, RecreateGold, CreateRegistry, outputs, Moments, NoDate
<1>5. public' = public /\ behind' = behind
  BY DEF Upload, RecreateGold, CreateRegistry, outputs, bounds
<1>6. RunInv'
  <2> SUFFICES ASSUME NEW r \in Runs
               PROVE  /\ Started(r)' => /\ run'[r].exit = "none"
                                        /\ run'[r].start <= Len(uploads')
                                        /\ date' \in Moments => date' <= run'[r].start
                      /\ Ready(r)' => /\ run'[r].new \in Contents
                                      /\ run'[r].new \notin LocalFiles
                                           => HoldsIn(uploads', run'[r].new, run'[r].start)
                      /\ Written(r)' => gold' \in {run'[r].new, Blank}
    BY DEF RunInv
  <2>1. run'[r] = run[r] /\ run[r].start \in Int
    BY <1>0 DEF Run
  <2>2. Started(r)' = Started(r) /\ Ready(r)' = Ready(r) /\ Written(r)' = Written(r)
    BY <2>1 DEF Started, Ready, Written
  <2>3. /\ Started(r) => /\ run[r].exit = "none"
                         /\ run[r].start <= Len(uploads)
                         /\ date \in Moments => date <= run[r].start
        /\ Ready(r) => /\ run[r].new \in Contents
                       /\ run[r].new \notin LocalFiles
                             => HoldsIn(uploads, run[r].new, run[r].start)
        /\ Written(r) => gold \in {run[r].new, Blank}
    BY DEF FonInv, RunInv
  <2>4. Started(r)' => /\ run'[r].exit = "none"
                       /\ run'[r].start <= Len(uploads')
                       /\ date' \in Moments => date' <= run'[r].start
    BY <1>0, <1>1, <1>4, <2>1, <2>2, <2>3
  <2>5. QED
    BY <1>2, <1>3, <2>1, <2>2, <2>3, <2>4
<1>7. DateInv'
  BY <1>0, <1>1, <1>2, <1>3, <1>4 DEF FonInv, DateInv
<1>8. PublicInv'
  BY <1>0, <1>3, <1>5 DEF FonInv, PublicInv
<1>9. QED
  BY <1>6, <1>7, <1>8

\* An execution that starts: no load date is later than its start.
LEMMA BeginStep ==
    ASSUME \A q, s \in Runs : q = s, FonInv, NEW r \in Runs, Scheduled(r) \/ Manual(r)
    PROVE  RunInv' /\ DateInv' /\ PublicInv'
<1>0. run \in [Runs -> Run] /\ uploads \in Seq(Files) /\ Len(uploads) \in Nat
  BY DEF FonInv, TypeOK
<1>1. PICK force \in BOOLEAN, local \in LocalFiles \cup {Missing} : Begin(r, force, local)
  BY DEF Scheduled, Manual
<1>2. run[r].pc = "idle" /\ UNCHANGED <<uploads, outputs, behind>>
  BY <1>1 DEF Scheduled, Manual, Begin, bounds
<1>3. run'[r].pc = "read" /\ run'[r].exit = "none" /\ run'[r].start = Len(uploads)
  BY <1>0, <1>1 DEF Begin, NoRun
<1>4. RunInv'
  <2>1. Started(r)' /\ ~Ready(r)' /\ ~Written(r)'
    BY <1>3 DEF Started, Ready, Written
  <2>2. date' \in Moments => date' <= run'[r].start
    BY <1>2, <1>3 DEF FonInv, DateInv, outputs
  <2>3. run'[r].start <= Len(uploads')
    BY <1>0, <1>2, <1>3
  <2>4. \A q \in Runs : q = r
    OBVIOUS
  <2>5. QED
    BY <1>3, <2>1, <2>2, <2>3, <2>4 DEF RunInv
<1>5. DateInv'
  BY <1>2 DEF FonInv, DateInv, outputs
<1>6. PublicInv'
  <2>1. ~(\E q \in Runs : run[q].pc = "public")
    BY <1>2
  <2>2. behind \/ gold \in {public, Blank, Missing}
    BY <2>1, Zenon DEF FonInv, PublicInv
  <2>3. QED
    BY <1>2, <2>2 DEF PublicInv, outputs
<1>7. QED
  BY <1>4, <1>5, <1>6

\* An execution that ends, whatever it changed before.
LEMMA EndStep ==
    ASSUME \A q, s \in Runs : q = s, TypeOK, NEW r \in Runs,
           NEW code \in {"ok", "raised"}, Exit(r, code)
    PROVE  RunInv'
<1>1. run'[r].pc = "idle"
  BY DEF TypeOK, Exit, NoRun
<1>2. ~Started(r)' /\ ~Ready(r)' /\ ~Written(r)'
  BY <1>1 DEF Started, Ready, Written
<1>3. \A q \in Runs : q = r
  OBVIOUS
<1>4. QED
  BY <1>2, <1>3 DEF RunInv

\* What an execution reads from the bronze bucket is no older than its start.
LEMMA ReadStep ==
    ASSUME \A q, s \in Runs : q = s, FonInv, NEW r \in Runs, Read(r)
    PROVE  RunInv' /\ DateInv' /\ PublicInv'
<1> DEFINE data == IF run[r].local # Missing THEN run[r].local ELSE Bronze
<1>0. /\ run \in [Runs -> Run] /\ run[r] \in Run /\ uploads \in Seq(Files)
      /\ Len(uploads) \in Nat /\ run[r].start \in Int /\ run[r].pc = "read"
  BY BoundsAssumption DEF FonInv, TypeOK, Run, Moments, Read
<1>1. UNCHANGED <<uploads, outputs, behind>>
  BY DEF Read, bounds
<1>2. ASSUME data \in Contents
      PROVE  RunInv'
  <2>1. run' = [run EXCEPT ![r].pc = "diff", ![r].new = data]
    BY <1>2 DEF Read
  <2>2. /\ run'[r].pc = "diff" /\ run'[r].new = data
        /\ run'[r].exit = run[r].exit /\ run'[r].start = run[r].start
    BY <1>0, <2>1 DEF Run
  <2>3. ASSUME data \notin LocalFiles
        PROVE  HoldsIn(uploads, data, run[r].start)
    <3>1. run[r].local = Missing /\ data = Bronze
      BY <1>0, <2>3 DEF Run
    <3>2. Bronze # Missing
      BY <1>2, <3>1, ContentsAssumption
    <3>3. uploads # <<>> /\ Bronze = uploads[Len(uploads)]
      BY <3>2 DEF Bronze
    <3>4. Len(uploads) \in 1..Len(uploads)
      BY <1>0, <3>3
    <3>5. run[r].start <= Len(uploads)
      BY <1>0 DEF FonInv, RunInv, Started
    <3>6. QED
      BY <1>0, <3>1, <3>3, <3>4, <3>5 DEF HoldsIn
  <2>4. Started(r) /\ Started(r)' /\ Ready(r)' /\ ~Written(r)'
    BY <1>0, <2>2 DEF Started, Ready, Written
  <2>5. /\ run[r].exit = "none" /\ run[r].start <= Len(uploads)
        /\ date \in Moments => date <= run[r].start
    BY <2>4 DEF FonInv, RunInv
  <2>6. \A q \in Runs : q = r
    OBVIOUS
  <2>7. QED
    BY <1>1, <1>2, <2>2, <2>3, <2>4, <2>5, <2>6 DEF RunInv, outputs
<1>3. RunInv'
  <2>1. CASE data \notin Contents
    BY <2>1, EndStep DEF FonInv, Read
  <2>2. QED
    BY <1>2, <2>1
<1>4. DateInv'
  BY <1>1 DEF FonInv, DateInv, outputs
<1>5. PublicInv'
  <2>1. ~(\E q \in Runs : run[q].pc = "public")
    BY <1>0
  <2>2. behind \/ gold \in {public, Blank, Missing}
    BY <2>1, Zenon DEF FonInv, PublicInv
  <2>3. QED
    BY <1>1, <2>2 DEF PublicInv, outputs
<1>6. QED
  BY <1>3, <1>4, <1>5

\* The rest of an execution: gold becomes what it holds, and the date its start.
LEMMA LaterStep ==
    ASSUME \A q, s \in Runs : q = s, FonInv, NEW r \in Runs,
           Diff(r) \/ Save(r) \/ PublishNumbers(r) \/ Record(r) \/ Kill(r)
    PROVE  RunInv' /\ DateInv' /\ PublicInv'
<1>0. /\ run \in [Runs -> Run] /\ run[r] \in Run /\ run[r].start \in Int
      /\ uploads' = uploads /\ Started(r) /\ \A q \in Runs : q = r
  <2>1. run \in [Runs -> Run] /\ run[r] \in Run /\ run[r].start \in Int
    BY BoundsAssumption DEF FonInv, TypeOK, Run, Moments
  <2>2. uploads' = uploads /\ run[r].pc # "idle"
    BY DEF Diff, Save, PublishNumbers, Record, Kill
  <2>3. QED
    BY <2>1, <2>2 DEF Started
<1>1. /\ run[r].exit = "none"
      /\ run[r].start <= Len(uploads)
      /\ date \in Moments => date <= run[r].start
      /\ Ready(r) => /\ run[r].new \in Contents
                     /\ run[r].new \notin LocalFiles
                           => HoldsIn(uploads, run[r].new, run[r].start)
      /\ Written(r) => gold \in {run[r].new, Blank}
  BY <1>0 DEF FonInv, RunInv
<1>2. ASSUME NEW pc \in {"save", "public", "record"}, Goto(r, pc), Ready(r), date' = date,
             pc # "save" => gold' \in {run[r].new, Blank}
      PROVE  RunInv'
  <2>1. /\ run'[r].pc = pc /\ run'[r].new = run[r].new
        /\ run'[r].exit = run[r].exit /\ run'[r].start = run[r].start
    BY <1>0, <1>2 DEF Goto, Run
  <2>2. Started(r)' /\ Ready(r)' /\ (Written(r)' => pc # "save")
    BY <2>1 DEF Started, Ready, Written
  <2>3. QED
    BY <1>0, <1>1, <1>2, <2>1, <2>2 DEF RunInv
<1>3. RunInv'
  <2>1. ASSUME NEW code \in {"ok", "raised"}, Exit(r, code)
        PROVE  RunInv'
    BY <2>1, EndStep DEF FonInv
  <2>2. CASE Diff(r)
    <3>1. Ready(r) /\ date' = date /\ gold' = gold
      BY <2>2 DEF Diff, Ready, outputs
    <3>2. QED
      BY <1>2, <2>1, <2>2, <3>1 DEF Diff, DiffFound
  <2>3. CASE Save(r)
    <3>1. Ready(r) /\ date' = date /\ gold' = run[r].new
      BY <2>3 DEF Save, Ready
    <3>2. QED
      BY <1>2, <2>3, <3>1 DEF Save
  <2>4. CASE PublishNumbers(r)
    <3>1. Ready(r) /\ Written(r) /\ date' = date /\ gold' = gold
      BY <2>4 DEF PublishNumbers, Ready, Written
    <3>2. QED
      BY <1>1, <1>2, <2>4, <3>1 DEF PublishNumbers
  <2>5. CASE Record(r) \/ Kill(r)
    BY <2>1, <2>5 DEF Record, Kill
  <2>6. QED
    BY <2>2, <2>3, <2>4, <2>5
<1>4. DateInv'
  <2>1. CASE Diff(r) \/ PublishNumbers(r) \/ Kill(r)
    <3>1. date' = date /\ gold' = gold
      BY <2>1 DEF Diff, PublishNumbers, Kill, outputs
    <3>2. QED
      BY <1>0, <3>1 DEF FonInv, DateInv
  <2>2. CASE Save(r)
    <3>1. Ready(r) /\ date' = date /\ gold' = run[r].new
      BY <2>2 DEF Save, Ready
    <3>2. ASSUME date \in Moments, gold' \notin LocalFiles
          PROVE  HoldsIn(uploads, gold', date)
      <4>1. HoldsIn(uploads, run[r].new, run[r].start) /\ date <= run[r].start
        BY <1>1, <3>1, <3>2
      <4>2. date \in Int
        BY <3>2, BoundsAssumption DEF Moments
      <4>3. Len(uploads) \in Nat
        BY DEF FonInv, TypeOK
      <4>4. QED
        BY <1>0, <3>1, <4>1, <4>2, <4>3 DEF HoldsIn
    <3>3. QED
      BY <1>0, <3>1, <3>2 DEF FonInv, DateInv
  <2>3. CASE Record(r)
    <3>1. Ready(r) /\ Written(r) /\ gold' = gold
      BY <2>3 DEF Record, Ready, Written
    <3>2. (date' = date /\ date = NoRegistry) \/ date' = run[r].start
      BY <2>3 DEF Record
    <3>3. CASE date' = run[r].start
      BY <1>0, <1>1, <3>1, <3>3 DEF DateInv
    <3>4. CASE date' = date /\ date = NoRegistry
      BY <3>4, BoundsAssumption DEF DateInv, NoRegistry, Moments
    <3>5. QED
      BY <3>2, <3>3, <3>4
  <2>4. QED
    BY <2>1, <2>2, <2>3
<1>5. PublicInv'
  <2>1. ASSUME run[r].pc # "public"
        PROVE  behind \/ gold \in {public, Blank, Missing}
    <3>1. ~(\E q \in Runs : run[q].pc = "public")
      BY <1>0, <2>1
    <3>2. QED
      BY <3>1, Zenon DEF FonInv, PublicInv
  <2>2. CASE Diff(r) \/ Record(r) \/ (Kill(r) /\ run[r].pc # "public")
    <3>1. gold' = gold /\ public' = public /\ run[r].pc # "public"
      BY <2>2 DEF Diff, Record, Kill, outputs
    <3>2. behind' = behind \/ behind' = (behind \/ run[r].pc = "public")
      BY <2>2, Zenon DEF Diff, Record, Kill, bounds
    <3>3. behind => behind'
      BY <3>2, Zenon
    <3>4. QED
      BY <2>1, <3>1, <3>3, Zenon DEF PublicInv
  <2>3. CASE Save(r)
    <3>1. CASE run[r].publish
      <4>1. run'[r].pc = "public"
        BY <1>0, <2>3, <3>1 DEF Save, Goto, Run
      <4>2. QED
        BY <4>1 DEF PublicInv
    <3>2. CASE ~run[r].publish
      <4>1. behind'
        BY <2>3, <3>2, Zenon DEF Save
      <4>2. QED
        BY <4>1, Zenon DEF PublicInv
    <3>3. QED
      BY <3>1, <3>2
  <2>4. CASE PublishNumbers(r)
    <3>1. Written(r) /\ gold' = gold /\ public' = run[r].new
      BY <2>4 DEF PublishNumbers, Written
    <3>2. QED
      BY <1>1, <3>1 DEF PublicInv
  <2>5. CASE Kill(r) /\ run[r].pc = "public"
    <3>1. behind'
      BY <2>5, Zenon DEF Kill
    <3>2. QED
      BY <3>1, Zenon DEF PublicInv
  <2>6. QED
    BY <2>2, <2>3, <2>4, <2>5
<1>6. QED
  BY <1>3, <1>4, <1>5

LEMMA FonStepInv ==
    ASSUME \A q, r \in Runs : q = r
    PROVE  FonInv /\ [Next]_vars => FonInv'
<1> SUFFICES ASSUME FonInv, [Next]_vars
             PROVE  FonInv'
  OBVIOUS
<1>1. TypeOK'
  BY FonStepType DEF FonInv
<1>2. CASE UNCHANGED vars
  BY <1>1, <1>2 DEF FonInv, vars, RunInv, DateInv, PublicInv, Started, Ready, Written, HoldsIn
<1>3. CASE Upload \/ RecreateGold \/ CreateRegistry
  BY <1>1, <1>3, EnvironmentStep DEF FonInv
<1>4. ASSUME NEW r \in Runs, Scheduled(r) \/ Manual(r) \/ Step(r) \/ Kill(r)
      PROVE  FonInv'
  BY <1>1, <1>4, BeginStep, ReadStep, LaterStep DEF FonInv, Step
<1>5. QED
  BY <1>2, <1>3, <1>4 DEF Next

\* The load date (fon_gold.py:98-100) never claims too much: when executions do not
\* overlap, the gold file holds no older bronze file than the one that was there at
\* the recorded start, unless it was blanked since or may be a local file.
THEOREM FonDatesSound ==
    ASSUME \A q, r \in Runs : q = r
    PROVE  Spec => []LoadDateSound
<1>1. FonInv => LoadDateSound
  BY DEF FonInv, DateInv, HoldsIn, LoadDateSound, Holds
<1>2. QED
  BY <1>1, FonInitInv, FonStepInv, PTL DEF Spec

\* "Update the public file as well" (fon_gold.py:124): when executions do not
\* overlap, a run with -p that ended well leaves the public file as the gold table,
\* unless the run that saved it did not publish it.
THEOREM FonPublishes ==
    ASSUME \A q, r \in Runs : q = r
    PROVE  Spec => PublicFollows
<1>1. FonInv /\ [Next]_vars => [PublishedInStep]_vars
  <2> SUFFICES ASSUME FonInv, Next, NEW r \in Runs, EndsPublished(r), ~behind
               PROVE  gold' \in {public', Blank}
    BY DEF PublishedInStep
  <2>0. run \in [Runs -> Run] /\ run[r] \in Run /\ run[r].exit = "none"
    BY DEF FonInv, TypeOK, RunInv, EndsPublished, Started
  <2>1. ~(Upload \/ RecreateGold \/ CreateRegistry)
    BY <2>0 DEF Upload, RecreateGold, CreateRegistry, EndsPublished
  <2>2. ~(Scheduled(r) \/ Manual(r))
    BY DEF Scheduled, Manual, Begin, EndsPublished
  <2>3. Step(r) \/ Kill(r)
    BY <2>1, <2>2 DEF Next
  <2>4. Record(r)
    BY <2>0, <2>3 DEF Step, Read, Diff, Save, PublishNumbers, Kill, Goto, Exit, NoRun,
                      EndsPublished, Run
  <2>5. run[r].pc = "record" /\ gold' = gold /\ public' = public
    BY <2>4 DEF Record
  <2>6. gold \in {run[r].new, Blank} /\ run[r].new \in Contents
    BY <2>5 DEF FonInv, RunInv, Written, Ready
  <2>7. gold # Missing
    BY <2>6, ContentsAssumption DEF Missing, Blank
  <2>8. ~(\E q \in Runs : run[q].pc = "public")
    BY <2>5
  <2>9. behind \/ gold \in {public, Blank, Missing}
    BY <2>8, Zenon DEF FonInv, PublicInv
  <2>10. QED
    BY <2>5, <2>7, <2>9
<1>2. QED
  BY <1>1, FonInitInv, FonStepInv, PTL DEF Spec, PublicFollows
=============================================================================
