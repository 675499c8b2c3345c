-------------------------- MODULE SparkScriptsProofs --------------------------
(***************************************************************************)
(* Theorems about SparkScripts, for any processes, tables, query chains    *)
(* and depth of nesting.                                                   *)
(***************************************************************************)
EXTENDS SparkScripts, SequenceTheorems, TLAPS

\* The types the argument about sessions needs.
SessionType == /\ session \in [Procs -> {"active", "none"}]
               /\ frames \in [Procs -> Seq(Frame)]
               /\ raising \in [Procs -> BOOLEAN]
               /\ runs \in Seq([caller : Nat, exit : {"none", "ok", "raised"}])

\* The stack of p becomes s, which has the frames of the same scripts, with the same
\* right to the session.
SameShape(s, old) == /\ s \in Seq(Frame)
                     /\ Len(s) = Len(old)
                     /\ \A i \in 1..Len(old) : s[i].created = old[i].created
                                              /\ s[i].run = old[i].run

\* A function on 1..n is a sequence of length n.
LEMMA FunctionIsSeq ==
    ASSUME NEW S, NEW n \in Nat, NEW s \in [1..n -> S]
    PROVE  s \in Seq(S) /\ Len(s) = n
<1>1. s \in Seq(S)
  BY SeqDef
<1>2. Len(s) \in Nat /\ 1..Len(s) = 1..n
  BY <1>1, LenProperties
<1>3. QED
  BY <1>1, <1>2

\* A non-empty stack without its innermost frame.
LEMMA OuterType ==
    ASSUME NEW S, NEW old \in Seq(S), old # <<>>
    PROVE  /\ Len(old) \in Nat \ {0}
           /\ old[Len(old)] \in S
           /\ SubSeq(old, 1, Len(old) - 1) \in Seq(S)
           /\ Len(SubSeq(old, 1, Len(old) - 1)) = Len(old) - 1
           /\ \A i \in 1..(Len(old) - 1) : SubSeq(old, 1, Len(old) - 1)[i] = old[i]
<1>1. Len(old) \in Nat \ {0}
  BY EmptySeq
<1>2. \A i \in 1..Len(old) : old[i] \in S
  BY ElementOfSeq
<1> DEFINE n == Len(old) - 1
<1>3. n \in Nat /\ 1 \in Int /\ n \in Int /\ (\A i \in 1..n : old[i] \in S)
  BY <1>1, <1>2
<1>4. /\ SubSeq(old, 1, n) \in Seq(S)
      /\ Len(SubSeq(old, 1, n)) = IF 1 <= n THEN n - 1 + 1 ELSE 0
      /\ \A i \in 1..(n - 1 + 1) : SubSeq(old, 1, n)[i] = old[1 + i - 1]
  BY <1>3, SubSeqProperties
<1>5. n - 1 + 1 = n /\ \A i \in 1..n : 1 + i - 1 = i
  BY <1>3
<1>6. Len(SubSeq(old, 1, n)) = n /\ \A i \in 1..n : SubSeq(old, 1, n)[i] = old[i]
  BY <1>3, <1>4, <1>5
<1>7. QED
  BY <1>1, <1>2, <1>4, <1>6

\* A stack whose innermost frame is replaced.
LEMMA TopReplaced ==
    ASSUME NEW old \in Seq(Frame), old # <<>>, NEW f \in Frame,
           f.created = old[Len(old)].created, f.run = old[Len(old)].run
    PROVE  SameShape(Append(SubSeq(old, 1, Len(old) - 1), f), old)
<1> DEFINE outer == SubSeq(old, 1, Len(old) - 1)
<1>1. /\ Len(old) \in Nat \ {0}
      /\ outer \in Seq(Frame)
      /\ Len(outer) = Len(old) - 1
      /\ \A i \in 1..(Len(old) - 1) : outer[i] = old[i]
  BY OuterType
<1> HIDE DEF outer
<1>2. /\ Append(outer, f) \in Seq(Frame)
      /\ Len(Append(outer, f)) = Len(outer) + 1
      /\ \A i \in 1..Len(outer) : Append(outer, f)[i] = outer[i]
      /\ Append(outer, f)[Len(outer) + 1] = f
  BY <1>1, AppendProperties
<1>3. SameShape(Append(outer, f), old)
  BY <1>1, <1>2 DEF SameShape
<1>4. QED
  BY <1>3 DEF outer

\* The innermost frame of a process with open scripts.
LEMMA TopType ==
    ASSUME SessionType, NEW p \in Procs, frames[p] # <<>>
    PROVE  /\ frames[p] \in Seq(Frame)
           /\ Depth(p) \in Nat \ {0}
           /\ Top(p) \in Frame
           /\ Top(p) = frames[p][Len(frames[p])]
           /\ Outer(p) \in Seq(Frame)
           /\ Len(Outer(p)) = Depth(p) - 1
           /\ \A i \in 1..(Depth(p) - 1) : Outer(p)[i] = frames[p][i]
<1>1. frames[p] \in Seq(Frame)
  BY DEF SessionType
<1>2. QED
  BY <1>1, OuterType DEF Depth, Top, Outer

\* What every step of a body does to the stacks.
BodyStep == /\ UNCHANGED <<session, runs>>
            /\ raising' \in [Procs -> BOOLEAN]
            /\ \A q \in Procs : raising[q] => raising'[q]
            /\ frames' \in [Procs -> Seq(Frame)]
            /\ \A q \in Procs : SameShape(frames'[q], frames[q])

\* A script that raises or goes on keeps its stack.
LEMMA RaiseBody ==
    ASSUME SessionType, NEW p \in Procs, Raise(p), UNCHANGED <<session, runs>>
    PROVE  BodyStep
BY DEF SessionType, Raise, BodyStep, SameShape

LEMMA GotoBody ==
    ASSUME SessionType, NEW p \in Procs, frames[p] # <<>>, NEW pc,
           pc \in {"table", "feature", "migrate", "exists", "query", "exit"},
           Goto(p, pc), UNCHANGED <<session, runs>>
    PROVE  BodyStep
<1> DEFINE f == [Top(p) EXCEPT !.pc = pc]
<1>1. /\ f \in Frame /\ f.created = frames[p][Len(frames[p])].created
      /\ f.run = frames[p][Len(frames[p])].run
  BY TopType DEF Frame
<1>2. frames' = [frames EXCEPT ![p] = Append(Outer(p), f)] /\ raising' = raising
  BY DEF Goto, Become
<1> HIDE DEF f
<1>3. SameShape(Append(Outer(p), f), frames[p])
  BY <1>1, TopType, TopReplaced DEF Outer, Depth
<1>4. \A q \in Procs : SameShape(frames'[q], frames[q])
  BY <1>2, <1>3 DEF SessionType, SameShape
<1>5. QED
  BY <1>2, <1>3, <1>4 DEF BodyStep, SessionType, SameShape

\* A write keeps the stacks of all processes, its marks on other scripts included.
LEMMA WroteBody ==
    ASSUME SessionType, NEW p \in Procs, frames[p] # <<>>, NEW t, NEW f \in Frame,
           f.created = Top(p).created, f.run = Top(p).run, Wrote(p, f, t),
           UNCHANGED <<session, runs, raising>>
    PROVE  BodyStep
<1> DEFINE g(q, i) == IF q = p /\ i = Depth(p) THEN f
                      ELSE Disturb(frames[q][i], t, Top(p).run)
<1>1. ASSUME NEW q \in Procs, NEW i \in 1..Len(frames[q])
      PROVE  /\ g(q, i) \in Frame /\ g(q, i).created = frames[q][i].created
             /\ g(q, i).run = frames[q][i].run
  <2>1. frames[q][i] \in Frame
    BY DEF SessionType
  <2>2. /\ Disturb(frames[q][i], t, Top(p).run) \in Frame
        /\ Disturb(frames[q][i], t, Top(p).run).created = frames[q][i].created
        /\ Disturb(frames[q][i], t, Top(p).run).run = frames[q][i].run
    BY <2>1 DEF Disturb, Frame
  <2>3. QED
    BY <2>2, TopType DEF Depth, Top
<1>2. ASSUME NEW q \in Procs
      PROVE  frames'[q] = [i \in 1..Len(frames[q]) |-> g(q, i)]
  BY DEF Wrote, SessionType
<1> HIDE DEF g
<1>3. ASSUME NEW q \in Procs
      PROVE  SameShape(frames'[q], frames[q])
  <2>1. Len(frames[q]) \in Nat
    BY DEF SessionType
  <2>2. frames'[q] \in [1..Len(frames[q]) -> Frame]
    BY <1>1, <1>2
  <2>3. frames'[q] \in Seq(Frame) /\ Len(frames'[q]) = Len(frames[q])
    BY <2>1, <2>2, FunctionIsSeq
  <2>4. QED
    BY <1>1, <1>2, <2>3 DEF SameShape
<1>4. DOMAIN frames' = Procs /\ frames' = [q \in Procs |-> frames'[q]]
  BY DEF Wrote
<1>5. QED
  BY <1>3, <1>4 DEF BodyStep, SessionType, SameShape

\* Every action of a body is a body step.
LEMMA Bodies ==
    ASSUME SessionType, NEW p \in Procs,
           \/ InitializeTable(p) \/ AddFeature(p) \/ CheckMigrate(p)
           \/ CheckExists(p) \/ Query(p) \/ Fail(p)
    PROVE  BodyStep
<1>0. frames[p] # <<>>
  BY DEF At, InitializeTable, AddFeature, CheckMigrate, CheckExists, Query, Fail
<1>1. Top(p) \in Frame
  BY <1>0, TopType
<1>2. CASE InitializeTable(p)
  <2>1. CASE Raise(p)
    BY <1>2, <2>1, RaiseBody DEF InitializeTable
  <2>2. CASE ~Raise(p)
    <3> DEFINE f == [Top(p) EXCEPT !.pc = AfterTable(Top(p).cmd)]
    <3>1. f \in Frame /\ f.created = Top(p).created /\ f.run = Top(p).run
      BY <1>1 DEF Frame, AfterTable
    <3>2. Wrote(p, f, Top(p).cmd.table) /\ UNCHANGED <<session, runs, raising>>
      BY <1>2, <2>2 DEF InitializeTable
    <3>3. QED
      BY <1>0, <3>1, <3>2, WroteBody
  <2>3. QED
    BY <2>1, <2>2
<1>3. CASE AddFeature(p)
  BY <1>0, <1>3, GotoBody DEF AddFeature
<1>4. CASE CheckMigrate(p)
  BY <1>0, <1>4, GotoBody, RaiseBody DEF CheckMigrate
<1>5. CASE CheckExists(p)
  BY <1>0, <1>5, GotoBody, RaiseBody DEF CheckExists
<1>6. CASE Query(p)
  <2>1. CASE Raise(p)
    BY <1>6, <2>1, RaiseBody DEF Query
  <2>2. CASE ~Raise(p)
    <3> DEFINE f == [Top(p) EXCEPT !.pc = AfterQuery(Top(p)), !.next = @ + 1]
    <3>1. f \in Frame /\ f.created = Top(p).created /\ f.run = Top(p).run
      <4>1. AfterQuery(Top(p)) \in {"exit", "query"}
        BY DEF AfterQuery
      <4>2. Top(p).next + 1 \in Nat
        BY <1>1 DEF Frame
      <4>3. QED
        BY <1>1, <4>1, <4>2 DEF Frame
    <3>2. Wrote(p, f, Top(p).cmd.table) /\ UNCHANGED <<session, runs, raising>>
      BY <1>6, <2>2 DEF Query
    <3>3. QED
      BY <1>0, <3>1, <3>2, WroteBody
  <2>3. QED
    BY <2>1, <2>2
<1>7. CASE Fail(p)
  BY <1>7, RaiseBody DEF Fail
<1>8. QED
  BY <1>2, <1>3, <1>4, <1>5, <1>6, <1>7

-----------------------------------------------------------------------------
\* What a process owns: only its outermost script can have created the session, and
\* it has unless the caller had one.
Owns(s, stack, p) ==
    /\ stack = <<>> => s = Given(p)
    /\ stack # <<>> => s = "active"
    /\ \A i \in 1..Len(stack) : stack[i].created <=> i = 1 /\ p \notin Inherits

SessionInv == \A p \in Procs : Owns(session[p], frames[p], p)

\* The record of a script that ends is still a record.
LEMMA ExitTyped ==
    ASSUME SessionType, NEW p \in Procs, Exit(p)
    PROVE  runs' \in Seq([caller : Nat, exit : {"none", "ok", "raised"}])
<1> DEFINE R == [caller : Nat, exit : {"none", "ok", "raised"}]
           n == Top(p).run
           e == IF raising[p] THEN "raised" ELSE "ok"
<1>1. runs \in [1..Len(runs) -> R] /\ Len(runs) \in Nat
  BY LenProperties DEF SessionType
<1>2. runs' = [runs EXCEPT ![n].exit = e] /\ e \in {"none", "ok", "raised"}
  BY DEF Exit
<1> HIDE DEF n, e
<1>3. \A i \in 1..Len(runs) : [runs[i] EXCEPT !.exit = e] \in R
  BY <1>1, <1>2
<1> HIDE DEF R
<1>4. runs' \in [1..Len(runs) -> R]
  BY <1>1, <1>2, <1>3
<1>5. QED
  BY <1>1, <1>4, FunctionIsSeq DEF R

\* And so are those of the scripts that are killed.
LEMMA KillTyped ==
    ASSUME SessionType, NEW p \in Procs, Kill(p)
    PROVE  runs' \in Seq([caller : Nat, exit : {"none", "ok", "raised"}])
<1> DEFINE R == [caller : Nat, exit : {"none", "ok", "raised"}]
           g(r) == IF \E i \in DOMAIN frames[p] : frames[p][i].run = r
                   THEN [runs[r] EXCEPT !.exit = "raised"] ELSE runs[r]
<1>1. Len(runs) \in Nat /\ DOMAIN runs = 1..Len(runs)
  BY DEF SessionType
<1>2. \A r \in 1..Len(runs) : g(r) \in R
  <3>1. \A r \in 1..Len(runs) : runs[r] \in R
    BY ElementOfSeq DEF SessionType
  <3>2. \A r \in 1..Len(runs) : [runs[r] EXCEPT !.exit = "raised"] \in R
    BY <3>1
  <3>3. QED
    BY <3>1, <3>2
<1>3. runs' = [r \in 1..Len(runs) |-> g(r)]
  BY <1>1 DEF Kill
<1> HIDE DEF g
<1>4. runs' \in [1..Len(runs) -> R]
  BY <1>2, <1>3
<1>5. QED
  BY <1>1, <1>4, FunctionIsSeq

\* Entering a script: the first one creates the session if there is none.
LEMMA EnterStep ==
    ASSUME SessionType, SessionInv, NEW p \in Procs, NEW cmd \in Commands, Enter(p, cmd)
    PROVE  SessionType' /\ SessionInv'
<1> DEFINE f == [run |-> Len(runs) + 1, cmd |-> cmd, created |-> session[p] = "none",
                 next |-> 1, alone |-> TRUE, pc |-> FirstPc(cmd)]
<1>1. f \in Frame /\ (f.created <=> session[p] = "none")
  <2>1. FirstPc(cmd) \in {"table", "exists", "exit"}
    BY DEF FirstPc, Commands
  <2>2. Len(runs) + 1 \in Nat
    BY DEF SessionType
  <2>3. QED
    BY <2>1, <2>2 DEF Frame
<1>2. /\ frames' = [frames EXCEPT ![p] = Append(frames[p], f)]
      /\ session' = [session EXCEPT ![p] = "active"]
      /\ raising' = raising
  BY DEF Enter
<1> HIDE DEF f
<1>3. frames[p] \in Seq(Frame)
  BY DEF SessionType
<1>4. runs' \in Seq([caller : Nat, exit : {"none", "ok", "raised"}])
  <2>1. (IF frames[p] = <<>> THEN 0 ELSE Top(p).run) \in Nat
    BY TopType DEF Frame
  <2>2. QED
    BY <2>1 DEF Enter, SessionType
<1>5. SessionType'
  BY <1>1, <1>2, <1>3, <1>4 DEF SessionType
<1>6. Owns("active", Append(frames[p], f), p)
  <2>1. Append(frames[p], f) # <<>> /\ Len(Append(frames[p], f)) = Len(frames[p]) + 1
    BY <1>1, <1>3
  <2>2. f.created <=> Len(frames[p]) = 0 /\ p \notin Inherits
    BY <1>1, <1>3 DEF SessionInv, Owns, Given, SessionType
  <2>3. ASSUME NEW i \in 1..(Len(frames[p]) + 1)
        PROVE  Append(frames[p], f)[i].created <=> i = 1 /\ p \notin Inherits
    BY <1>1, <1>3, <2>2 DEF SessionInv, Owns
  <2>4. QED
    BY <2>1, <2>3 DEF Owns
<1>7. QED
  BY <1>2, <1>5, <1>6 DEF SessionInv, SessionType

\* Leaving a script: the session ends with the script that created it, which is the
\* outermost one, whether or not an exception is on its way out.
LEMMA ExitStep ==
    ASSUME SessionType, SessionInv, NEW p \in Procs, Exit(p)
    PROVE  SessionType' /\ SessionInv'
<1>0. frames[p] # <<>>
  BY DEF Exit
<1>1. /\ frames' = [frames EXCEPT ![p] = Outer(p)]
      /\ session' = [session EXCEPT ![p] = IF Top(p).created THEN "none" ELSE session[p]]
      /\ raising' = [raising EXCEPT ![p] = Propagates(p)]
  BY DEF Exit, Stops
<1>2. SessionType'
  <2>1. Propagates(p) \in BOOLEAN
    BY DEF Propagates
  <2>2. runs' \in Seq([caller : Nat, exit : {"none", "ok", "raised"}])
    BY ExitTyped
  <2>3. QED
    BY <1>0, <1>1, <2>1, <2>2, TopType DEF SessionType
<1>3. Owns(session'[p], Outer(p), p)
  <2>1. Top(p).created <=> Depth(p) = 1 /\ p \notin Inherits
    <3>1. \A i \in 1..Len(frames[p]) :
             frames[p][i].created <=> i = 1 /\ p \notin Inherits
      BY DEF SessionInv, Owns
    <3>2. Len(frames[p]) \in 1..Len(frames[p]) /\ Depth(p) = Len(frames[p])
      BY <1>0, TopType DEF Depth
    <3>3. Top(p) = frames[p][Len(frames[p])]
      BY <1>0, TopType
    <3>4. QED
      BY <3>1, <3>2, <3>3
  <2>2. session[p] = "active" /\ session'[p] = IF Top(p).created THEN "none" ELSE session[p]
    BY <1>0, <1>1 DEF SessionInv, Owns, SessionType
  <2>3. Outer(p) = <<>> <=> Depth(p) = 1
    BY <1>0, TopType
  <2>4. \A i \in 1..Len(Outer(p)) : Outer(p)[i].created <=> i = 1 /\ p \notin Inherits
    BY <1>0, TopType DEF SessionInv, Owns, Depth
  <2>5. QED
    BY <2>1, <2>2, <2>3, <2>4, <1>0, TopType DEF Owns, Given
<1>4. QED
  BY <1>1, <1>2, <1>3 DEF SessionInv, SessionType

\* A killed process leaves nothing behind.
LEMMA KillStep ==
    ASSUME SessionType, SessionInv, NEW p \in Procs, Kill(p)
    PROVE  SessionType' /\ SessionInv'
<1>1. /\ frames' = [frames EXCEPT ![p] = <<>>]
      /\ session' = [session EXCEPT ![p] = Given(p)]
      /\ raising' = [raising EXCEPT ![p] = FALSE]
  BY DEF Kill
<1>2. runs' \in Seq([caller : Nat, exit : {"none", "ok", "raised"}])
  BY KillTyped
<1>3. SessionType'
  BY <1>1, <1>2 DEF SessionType, Given
<1>4. Owns(Given(p), <<>>, p)
  BY DEF Owns
<1>5. QED
  BY <1>1, <1>3, <1>4 DEF SessionInv, SessionType

\* Every step keeps the sessions in order.
LEMMA SessionStep ==
    ASSUME SessionType, SessionInv, [Next]_vars
    PROVE  SessionType' /\ SessionInv'
<1>1. CASE BodyStep
  <2>1. SessionType'
    BY <1>1 DEF BodyStep, SessionType
  <2>2. ASSUME NEW p \in Procs
        PROVE  Owns(session'[p], frames'[p], p)
    <3>1. SameShape(frames'[p], frames[p]) /\ session'[p] = session[p]
      BY <1>1 DEF BodyStep
    <3>2. frames[p] \in Seq(Frame)
      BY DEF SessionType
    <3>3. frames'[p] = <<>> <=> frames[p] = <<>>
      BY <3>1, <3>2 DEF SameShape
    <3>4. QED
      BY <3>1, <3>2, <3>3 DEF SameShape, SessionInv, Owns
  <2>3. QED
    BY <2>1, <2>2 DEF SessionInv
<1>2. CASE UNCHANGED vars
  BY <1>2 DEF vars, SessionType, SessionInv
<1>3. ASSUME NEW p \in Procs, NEW cmd \in Commands, Enter(p, cmd)
      PROVE  SessionType' /\ SessionInv'
  BY <1>3, EnterStep
<1>4. ASSUME NEW p \in Procs, Exit(p)
      PROVE  SessionType' /\ SessionInv'
  BY <1>4, ExitStep
<1>5. ASSUME NEW p \in Procs, Kill(p)
      PROVE  SessionType' /\ SessionInv'
  BY <1>5, KillStep
<1>6. ASSUME NEW p \in Procs,
             \/ InitializeTable(p) \/ AddFeature(p) \/ CheckMigrate(p)
             \/ CheckExists(p) \/ Query(p) \/ Fail(p)
      PROVE  SessionType' /\ SessionInv'
  BY <1>1, <1>6, Bodies
<1>7. QED
  BY <1>2, <1>3, <1>4, <1>5, <1>6 DEF Next, Step

\* However scripts nest, raise and are killed, an open script has its session, and a
\* process whose scripts have all ended is as it was: the session they created is
\* stopped, and the caller's is not.
THEOREM SessionsKept == Spec => []SessionsInOrder
<1>1. Init => SessionType /\ SessionInv
  BY DEF Init, SessionType, SessionInv, Owns, Given
<1>2. SessionInv => SessionsInOrder
  BY DEF SessionInv, Owns, SessionsInOrder
<1>3. QED
  BY <1>1, <1>2, SessionStep, PTL DEF Spec

-----------------------------------------------------------------------------
\* An open script has not ended, and its caller is the script around it.
Open(stack, rs) ==
    \A i \in 1..Len(stack) :
        /\ stack[i].run \in 1..Len(rs)
        /\ rs[stack[i].run].exit = "none"
        /\ rs[stack[i].run].caller = IF i = 1 THEN 0 ELSE stack[i - 1].run

\* The open scripts of all processes are different.
Different == \A p, q \in Procs : \A i \in 1..Len(frames[p]), j \in 1..Len(frames[q]) :
                frames[p][i].run = frames[q][j].run => p = q /\ i = j

\* The scripts whose exception is on its way out.
Passing == {Top(p).run : p \in {q \in Procs : raising[q] /\ frames[q] # <<>>}}

\* The caller of a script that raised has raised too or is about to.
RaisedInv == \A r \in 1..Len(runs) : runs[r].exit = "raised" /\ runs[r].caller # 0
                => /\ runs[r].caller \in 1..Len(runs)
                   /\ runs[runs[r].caller].exit = "raised" \/ runs[r].caller \in Passing

\* A caller has been started.
CallersInv == \A r \in 1..Len(runs) : runs[r].caller \in 0..Len(runs)

RunsInv == /\ \A p \in Procs : Open(frames[p], runs)
           /\ Different
           /\ CallersInv
           /\ RaisedInv

\* What the types say of the runs.
LEMMA RunsType ==
    ASSUME SessionType
    PROVE  /\ Len(runs) \in Nat
           /\ DOMAIN runs = 1..Len(runs)
           /\ runs \in [1..Len(runs) -> [caller : Nat, exit : {"none", "ok", "raised"}]]
BY LenProperties DEF SessionType

\* What is known of the i-th open script of q.
LEMMA OpenScripts ==
    ASSUME RunsInv, NEW q \in Procs, NEW i \in 1..Len(frames[q])
    PROVE  /\ frames[q][i].run \in 1..Len(runs)
           /\ runs[frames[q][i].run].exit = "none"
           /\ runs[frames[q][i].run].caller = IF i = 1 THEN 0 ELSE frames[q][i - 1].run
BY DEF RunsInv, Open

LEMMA DifferentScripts ==
    ASSUME RunsInv, NEW q \in Procs, NEW k \in Procs,
           NEW i \in 1..Len(frames[q]), NEW j \in 1..Len(frames[k]),
           frames[q][i].run = frames[k][j].run
    PROVE  q = k /\ i = j
BY DEF RunsInv, Different

\* A body neither ends a script nor takes an exception back.
LEMMA BodyRuns ==
    ASSUME SessionType, RunsInv, BodyStep
    PROVE  RunsInv'
<1>1. \A q \in Procs : /\ frames[q] \in Seq(Frame) /\ frames'[q] \in Seq(Frame)
                       /\ Len(frames'[q]) = Len(frames[q])
                       /\ \A i \in 1..Len(frames[q]) : frames'[q][i].run = frames[q][i].run
  BY DEF BodyStep, SessionType, SameShape
<1>2. runs' = runs /\ \A q \in Procs : raising[q] => raising'[q]
  BY DEF BodyStep
<1>3. ASSUME NEW q \in Procs
      PROVE  Open(frames'[q], runs')
  <2>1. Open(frames[q], runs) /\ Len(frames[q]) \in Nat
    BY <1>1 DEF RunsInv
  <2>2. \A i \in 1..Len(frames[q]) : i # 1 => i - 1 \in 1..Len(frames[q])
    BY <2>1
  <2>3. QED
    BY <1>1, <1>2, <2>1, <2>2 DEF Open
<1>4. Different'
  BY <1>1 DEF RunsInv, Different
<1>5. ASSUME NEW c, c \in Passing
      PROVE  c \in Passing'
  <2>1. PICK q \in Procs : raising[q] /\ frames[q] # <<>> /\ Top(q).run = c
    BY <1>5 DEF Passing
  <2>2. Len(frames[q]) \in 1..Len(frames[q]) /\ frames'[q] # <<>>
    BY <1>1, <2>1
  <2>3. Top(q)'.run = c
    BY <1>1, <2>1, <2>2 DEF Top, Depth
  <2>4. QED
    BY <1>2, <2>1, <2>2, <2>3 DEF Passing
<1>6. CallersInv' /\ RaisedInv'
  BY <1>2, <1>5 DEF RunsInv, CallersInv, RaisedInv
<1>7. QED
  BY <1>3, <1>4, <1>6 DEF RunsInv

\* A script that starts is called by the innermost one of its process.
LEMMA EnterRuns ==
    ASSUME SessionType, RunsInv, NEW p \in Procs, NEW cmd \in Commands, Enter(p, cmd)
    PROVE  RunsInv'
<1> DEFINE n == Len(runs) + 1
           f == [run |-> n, cmd |-> cmd, created |-> session[p] = "none",
                 next |-> 1, alone |-> TRUE, pc |-> FirstPc(cmd)]
           c == IF frames[p] = <<>> THEN 0 ELSE Top(p).run
           r0 == [caller |-> c, exit |-> "none"]
           old == frames[p]
<1>1. /\ frames' = [frames EXCEPT ![p] = Append(old, f)]
      /\ runs' = Append(runs, r0)
      /\ raising' = raising /\ (old # <<>> => ~raising[p])
  BY DEF Enter, At
<1>2. /\ old \in Seq(Frame) /\ Len(old) \in Nat
      /\ \A q \in Procs : frames[q] \in Seq(Frame)
      /\ Len(runs) \in Nat
  BY DEF SessionType
<1>3. f.run = n /\ r0.exit = "none" /\ r0.caller = c
  OBVIOUS
<1> HIDE DEF f, r0
<1>4. /\ Len(runs') = n /\ runs'[n] = r0
      /\ \A r \in 1..Len(runs) : runs'[r] = runs[r]
  BY <1>1, <1>2 DEF SessionType
<1>5. /\ Len(Append(old, f)) = Len(old) + 1 /\ Append(old, f)[Len(old) + 1] = f
      /\ \A i \in 1..Len(old) : Append(old, f)[i] = old[i]
  BY <1>2
<1>6. \A q \in Procs \ {p} : frames'[q] = frames[q]
  BY <1>1 DEF SessionType
<1>7. frames'[p] = Append(old, f)
  BY <1>1 DEF SessionType
<1>8. c \in 0..Len(runs) /\ (old # <<>> => c = old[Len(old)].run)
  <2>1. CASE old = <<>>
    BY <1>2, <2>1
  <2>2. CASE old # <<>>
    <3>1. Len(old) \in 1..Len(old)
      BY <1>2, <2>2
    <3>2. QED
      BY <1>2, <2>2, <3>1 DEF RunsInv, Open, Top, Depth
  <2>3. QED
    BY <2>1, <2>2
<1>9. \A q \in Procs : \A i \in 1..Len(frames[q]) : frames[q][i].run \in 1..Len(runs)
  BY DEF RunsInv, Open
<1>10. ASSUME NEW q \in Procs
       PROVE  Open(frames'[q], runs')
  <2>0. 1..Len(runs) \subseteq 1..Len(runs') /\ n \in 1..Len(runs')
    BY <1>2, <1>4
  <2>1. CASE q # p
    <3>1. frames'[q] = frames[q]
      BY <1>6, <2>1
    <3>2. \A i \in 1..Len(frames[q]) : runs'[frames[q][i].run] = runs[frames[q][i].run]
      BY <1>4, <1>9
    <3>3. QED
      BY <2>0, <3>1, <3>2, OpenScripts DEF Open
  <2>2. CASE q = p
    <3>1. ASSUME NEW i \in 1..Len(old)
          PROVE  /\ Append(old, f)[i].run \in 1..Len(runs')
                 /\ runs'[Append(old, f)[i].run].exit = "none"
                 /\ runs'[Append(old, f)[i].run].caller
                       = IF i = 1 THEN 0 ELSE Append(old, f)[i - 1].run
      <4>1. i # 1 => i - 1 \in 1..Len(old)
        BY <1>2
      <4>2. /\ old[i].run \in 1..Len(runs)
            /\ runs[old[i].run].exit = "none"
            /\ runs[old[i].run].caller = IF i = 1 THEN 0 ELSE old[i - 1].run
        BY OpenScripts
      <4>3. runs'[old[i].run] = runs[old[i].run] /\ Append(old, f)[i] = old[i]
        BY <1>4, <1>5, <4>2
      <4>4. i # 1 => Append(old, f)[i - 1] = old[i - 1]
        BY <1>5, <4>1
      <4>5. QED
        BY <2>0, <4>2, <4>3, <4>4
    <3>2. /\ f.run \in 1..Len(runs')
          /\ runs'[f.run].exit = "none"
          /\ runs'[f.run].caller = IF Len(old) + 1 = 1 THEN 0 ELSE Append(old, f)[Len(old)].run
      <4>1. Len(old) # 0 => Len(old) \in 1..Len(old) /\ old # <<>>
        BY <1>2
      <4>2. Len(old) = 0 => c = 0
        BY <1>2
      <4>3. runs'[f.run].caller = c /\ runs'[f.run].exit = "none"
        BY <1>3, <1>4
      <4>4. QED
        BY <1>2, <1>3, <1>5, <1>8, <2>0, <4>1, <4>2, <4>3
    <3>3. Len(frames'[p]) = Len(old) + 1
      BY <1>5, <1>7
    <3>4. \A i \in 1..(Len(old) + 1) : i \in 1..Len(old) \/ i = Len(old) + 1
      BY <1>2
    <3>5. Len(old) + 1 - 1 = Len(old)
      BY <1>2
    <3>6. ASSUME NEW i \in 1..(Len(old) + 1)
          PROVE  /\ Append(old, f)[i].run \in 1..Len(runs')
                 /\ runs'[Append(old, f)[i].run].exit = "none"
                 /\ runs'[Append(old, f)[i].run].caller
                       = IF i = 1 THEN 0 ELSE Append(old, f)[i - 1].run
      <4>1. CASE i \in 1..Len(old)
        BY <3>1, <4>1
      <4>2. CASE i = Len(old) + 1
        BY <1>5, <3>2, <3>5, <4>2
      <4>3. QED
        BY <3>4, <4>1, <4>2
    <3>7. QED
      BY <1>7, <2>2, <3>3, <3>6 DEF Open
  <2>3. QED
    BY <2>1, <2>2
<1>11. Different'
  <2> DEFINE Is(q, i) == i \in 1..Len(frames[q]) /\ frames'[q][i].run = frames[q][i].run
  <2>1. ASSUME NEW q \in Procs, NEW i \in 1..Len(frames'[q])
        PROVE  Is(q, i) \/ (q = p /\ i = Len(old) + 1 /\ frames'[q][i].run = n)
    <3>1. CASE q # p
      BY <1>6, <3>1
    <3>2. CASE q = p
      <4>1. frames'[q] = Append(old, f) /\ Len(frames'[q]) = Len(old) + 1
        BY <1>5, <1>7, <3>2
      <4>2. i \in 1..Len(old) \/ i = Len(old) + 1
        BY <1>2, <4>1
      <4>3. CASE i \in 1..Len(old)
        BY <1>5, <3>2, <4>1, <4>3
      <4>4. CASE i = Len(old) + 1
        BY <1>3, <1>5, <3>2, <4>1, <4>4
      <4>5. QED
        BY <4>2, <4>3, <4>4
    <3>3. QED
      BY <3>1, <3>2
  <2>2. n \notin 1..Len(runs)
    BY <1>2
  <2>3. ASSUME NEW q \in Procs, NEW k \in Procs, NEW i \in 1..Len(frames'[q]),
               NEW j \in 1..Len(frames'[k]), frames'[q][i].run = frames'[k][j].run
        PROVE  q = k /\ i = j
    <3> DEFINE New(x, y) == x = p /\ y = Len(old) + 1 /\ frames'[x][y].run = n
    <3>1. (Is(q, i) \/ New(q, i)) /\ (Is(k, j) \/ New(k, j))
      BY <2>1
    <3>2. Is(q, i) => frames'[q][i].run # n
      BY <1>9, <2>2
    <3>3. Is(k, j) => frames'[k][j].run # n
      BY <1>9, <2>2
    <3>4. CASE Is(q, i) /\ Is(k, j)
      <4>1. /\ i \in 1..Len(frames[q]) /\ j \in 1..Len(frames[k])
            /\ frames[q][i].run = frames[k][j].run
        BY <2>3, <3>4
      <4>2. QED
        BY <4>1, DifferentScripts
    <3>5. QED
      BY <2>3, <3>1, <3>2, <3>3, <3>4
  <2>4. QED
    BY <2>3 DEF Different
<1>12. ASSUME NEW d, d \in Passing
       PROVE  d \in Passing'
  <2>1. PICK q \in Procs : raising[q] /\ frames[q] # <<>> /\ Top(q).run = d
    BY <1>12 DEF Passing
  <2>2. q # p
    BY <1>1, <2>1
  <2>3. frames'[q] = frames[q] /\ raising'[q]
    BY <1>1, <1>6, <2>1, <2>2
  <2>4. QED
    BY <2>1, <2>3 DEF Passing, Top, Depth
<1>13. CallersInv' /\ RaisedInv'
  <2>1. \A r \in 1..Len(runs') : r \in 1..Len(runs) \/ r = n
    BY <1>2, <1>4
  <2>2. CallersInv'
    BY <1>2, <1>3, <1>4, <1>8, <2>1 DEF RunsInv, CallersInv
  <2>3. ASSUME NEW r \in 1..Len(runs'), runs'[r].exit = "raised", runs'[r].caller # 0
        PROVE  /\ runs'[r].caller \in 1..Len(runs')
               /\ runs'[runs'[r].caller].exit = "raised" \/ runs'[r].caller \in Passing'
    <3>1. r \in 1..Len(runs) /\ runs'[r] = runs[r]
      BY <1>3, <1>4, <2>1, <2>3
    <3>2. /\ runs[r].caller \in 1..Len(runs)
          /\ runs[runs[r].caller].exit = "raised" \/ runs[r].caller \in Passing
      BY <2>3, <3>1 DEF RunsInv, RaisedInv
    <3>3. runs'[runs[r].caller] = runs[runs[r].caller] /\ runs[r].caller \in 1..Len(runs')
      BY <1>2, <1>4, <3>2
    <3>4. QED
      BY <1>12, <3>1, <3>2, <3>3
  <2>4. QED
    BY <2>2, <2>3 DEF RaisedInv
<1>14. QED
  BY <1>10, <1>11, <1>13 DEF RunsInv

LEMMA Below ==
    ASSUME NEW m \in Nat, m # 0, m # 1
    PROVE  m - 1 \in 1..m /\ m > 1
OBVIOUS

\* A script that ends with an exception hands it to its caller.
LEMMA ExitRuns ==
    ASSUME SessionType, RunsInv, NEW p \in Procs, Exit(p)
    PROVE  RunsInv'
<1> DEFINE t == Top(p).run
           e == IF raising[p] THEN "raised" ELSE "ok"
           d == Depth(p)
<1>1. /\ frames[p] # <<>>
      /\ frames' = [frames EXCEPT ![p] = Outer(p)]
      /\ runs' = [runs EXCEPT ![t].exit = e]
      /\ raising' = [raising EXCEPT ![p] = raising[p] /\ d > 1]
  BY DEF Exit, Propagates
<1>2. /\ frames[p] \in Seq(Frame) /\ d \in Nat \ {0} /\ d = Len(frames[p])
      /\ Top(p) = frames[p][d]
      /\ Len(Outer(p)) = d - 1
      /\ \A i \in 1..(d - 1) : Outer(p)[i] = frames[p][i]
  BY <1>1, TopType DEF Depth
<1>3. d \in 1..Len(frames[p])
  BY <1>2
<1>4. /\ t \in 1..Len(runs) /\ runs[t].exit = "none"
      /\ runs[t].caller = IF d = 1 THEN 0 ELSE frames[p][d - 1].run
  <2>1. /\ frames[p][d].run \in 1..Len(runs)
        /\ runs[frames[p][d].run].exit = "none"
        /\ runs[frames[p][d].run].caller = IF d = 1 THEN 0 ELSE frames[p][d - 1].run
    BY <1>3, OpenScripts
  <2>2. t = frames[p][d].run
    BY <1>2
  <2>3. QED
    BY <2>1, <2>2
<1>5. /\ Len(runs') = Len(runs)
      /\ runs'[t].exit = e /\ runs'[t].caller = runs[t].caller
      /\ \A r \in 1..Len(runs) : r # t => runs'[r] = runs[r]
  <2>0. t = Top(p).run /\ e \in {"raised", "ok"}
    OBVIOUS
  <2> HIDE DEF t, e
  <2>1. DOMAIN runs' = 1..Len(runs) /\ Len(runs) \in Nat
    BY <1>1, RunsType
  <2>2. runs' \in Seq([caller : Nat, exit : {"none", "ok", "raised"}])
    BY ExitTyped, <2>0
  <2>3. Len(runs') = Len(runs)
    BY <2>1, <2>2, LenProperties
  <2>4. QED
    BY <1>1, <1>4, <2>3, RunsType
<1>6. \A q \in Procs : /\ Len(frames'[q]) \in Nat /\ Len(frames[q]) \in Nat
                       /\ Len(frames'[q]) = IF q = p THEN d - 1 ELSE Len(frames[q])
                       /\ \A i \in 1..Len(frames'[q]) : /\ i \in 1..Len(frames[q])
                                                       /\ frames'[q][i] = frames[q][i]
  <2>1. ASSUME NEW q \in Procs, q # p
        PROVE  frames'[q] = frames[q] /\ Len(frames[q]) \in Nat
    BY <1>1, <2>1 DEF SessionType
  <2>2. frames'[p] = Outer(p)
    BY <1>1 DEF SessionType
  <2>3. \A i \in 1..(d - 1) : i \in 1..Len(frames[p]) /\ Outer(p)[i] = frames[p][i]
    BY <1>2
  <2>4. d - 1 \in Nat
    BY <1>2
  <2>5. QED
    BY <1>2, <2>1, <2>2, <2>3, <2>4
<1> HIDE DEF t, e, d
<1>7. ASSUME NEW q \in Procs, NEW i \in 1..Len(frames'[q])
      PROVE  frames[q][i].run # t
  <2>1. t = frames[p][d].run
    BY <1>2 DEF t
  <2>2. q = p => i # d
    BY <1>2, <1>6
  <2>3. QED
    BY <1>3, <1>6, <2>1, <2>2 DEF RunsInv, Different
<1>8. ASSUME NEW q \in Procs
      PROVE  Open(frames'[q], runs')
  <2>1. ASSUME NEW i \in 1..Len(frames'[q])
        PROVE  /\ frames'[q][i].run \in 1..Len(runs')
               /\ runs'[frames'[q][i].run].exit = "none"
               /\ runs'[frames'[q][i].run].caller
                     = IF i = 1 THEN 0 ELSE frames'[q][i - 1].run
    <3>1. i # 1 => i - 1 \in 1..Len(frames'[q])
      BY <1>6
    <3>2. /\ frames[q][i].run \in 1..Len(runs)
          /\ runs[frames[q][i].run].exit = "none"
          /\ runs[frames[q][i].run].caller = IF i = 1 THEN 0 ELSE frames[q][i - 1].run
      BY <1>6 DEF RunsInv, Open
    <3>3. runs'[frames[q][i].run] = runs[frames[q][i].run]
      BY <1>5, <1>7, <3>2
    <3>4. QED
      BY <1>5, <1>6, <3>1, <3>2, <3>3
  <2>2. QED
    BY <2>1 DEF Open
<1>9. Different'
  <2>1. ASSUME NEW q \in Procs, NEW k \in Procs, NEW i \in 1..Len(frames'[q]),
               NEW j \in 1..Len(frames'[k]), frames'[q][i].run = frames'[k][j].run
        PROVE  q = k /\ i = j
    <3>1. /\ i \in 1..Len(frames[q]) /\ frames'[q][i] = frames[q][i]
          /\ j \in 1..Len(frames[k]) /\ frames'[k][j] = frames[k][j]
      BY <1>6
    <3>2. QED
      BY <2>1, <3>1, DifferentScripts
  <2>2. QED
    BY <2>1 DEF Different
<1>10. CallersInv'
  BY <1>5 DEF RunsInv, CallersInv
<1>11. RaisedInv'
  <2>1. ASSUME NEW r \in 1..Len(runs'), runs'[r].exit = "raised", runs'[r].caller # 0
        PROVE  /\ runs'[r].caller \in 1..Len(runs')
               /\ runs'[runs'[r].caller].exit = "raised" \/ runs'[r].caller \in Passing'
    <3>1. CASE r = t
      <4>1. runs'[r].caller = frames[p][d - 1].run /\ d # 1
        BY <1>4, <1>5, <2>1, <3>1
      <4>2. d - 1 \in 1..Len(frames[p]) /\ d > 1 /\ Len(frames'[p]) = d - 1
        <5>1. Len(frames'[p]) = d - 1
          BY <1>6
        <5>2. d \in Nat /\ d # 0 /\ d = Len(frames[p]) /\ d # 1
          BY <1>2, <4>1
        <5>3. d - 1 \in 1..d /\ d > 1
          BY <5>2, Below
        <5>4. QED
          BY <5>1, <5>2, <5>3
      <4>3. raising[p]
        BY <1>5, <2>1, <3>1 DEF e
      <4>4. raising'[p]
        BY <1>1, <4>2, <4>3 DEF SessionType
      <4>5. frames'[p] # <<>> /\ Top(p)' = frames[p][d - 1]
        BY <1>6, <4>2 DEF Top, Depth
      <4>6. frames[p][d - 1].run \in 1..Len(runs')
        BY <1>5, <4>2, OpenScripts
      <4>7. runs'[r].caller = Top(p)'.run
        BY <4>1, <4>5
      <4>8. runs'[r].caller \in Passing'
        BY <4>4, <4>5, <4>7 DEF Passing
      <4>9. QED
        BY <4>1, <4>6, <4>8
    <3>2. CASE r # t
      <4>1. r \in 1..Len(runs) /\ runs'[r] = runs[r]
        BY <1>5, <3>2
      <4>2. /\ runs[r].caller \in 1..Len(runs)
            /\ runs[runs[r].caller].exit = "raised" \/ runs[r].caller \in Passing
        BY <2>1, <4>1 DEF RunsInv, RaisedInv
      <4>3. CASE runs[runs[r].caller].exit = "raised"
        BY <1>4, <1>5, <4>1, <4>2, <4>3
      <4>4. CASE runs[r].caller \in Passing
        <5>1. PICK q \in Procs : /\ raising[q] /\ frames[q] # <<>>
                                 /\ Top(q).run = runs[r].caller
          BY <4>4 DEF Passing
        <5>2. CASE q = p
          BY <1>5, <4>1, <4>2, <5>1, <5>2 DEF t, e
        <5>3. CASE q # p
          <6>1. frames'[q] = frames[q] /\ raising'[q]
            BY <1>1, <5>1, <5>3 DEF SessionType
          <6>2. QED
            <7>1. runs[r].caller \in Passing'
              BY <5>1, <6>1 DEF Passing, Top, Depth
            <7>2. QED
              BY <1>5, <4>1, <4>2, <7>1
        <5>4. QED
          BY <5>2, <5>3
      <4>5. QED
        BY <4>2, <4>3, <4>4
    <3>3. QED
      BY <3>1, <3>2
  <2>2. QED
    BY <2>1 DEF RaisedInv
<1>12. QED
  BY <1>8, <1>9, <1>10, <1>11 DEF RunsInv

\* All open scripts of a killed process end together.
LEMMA KillRuns ==
    ASSUME SessionType, RunsInv, NEW p \in Procs, Kill(p)
    PROVE  RunsInv'
<1> DEFINE Killed(r) == \E i \in 1..Len(frames[p]) : frames[p][i].run = r
<1>1. /\ frames' = [frames EXCEPT ![p] = <<>>]
      /\ raising' = [raising EXCEPT ![p] = FALSE]
  BY DEF Kill
<1>2. Len(runs) \in Nat /\ DOMAIN frames[p] = 1..Len(frames[p])
  BY DEF SessionType
<1>3. runs' = [r \in 1..Len(runs) |->
                  IF Killed(r) THEN [runs[r] EXCEPT !.exit = "raised"] ELSE runs[r]]
  BY <1>2, RunsType DEF Kill
<1>4. Len(runs') = Len(runs)
  BY <1>2, <1>3, KillTyped, LenProperties
<1>5. \A r \in 1..Len(runs) : /\ runs'[r].caller = runs[r].caller
                              /\ runs'[r].exit = IF Killed(r) THEN "raised" ELSE runs[r].exit
                              /\ ~Killed(r) => runs'[r] = runs[r]
  BY <1>3, RunsType
<1>6. \A q \in Procs : frames'[q] = IF q = p THEN <<>> ELSE frames[q]
  BY <1>1 DEF SessionType
<1>7. ASSUME NEW q \in Procs
      PROVE  Open(frames'[q], runs')
  <2>1. CASE q = p
    BY <1>6, <2>1 DEF Open
  <2>2. CASE q # p
    <3>1. \A i \in 1..Len(frames[q]) : ~Killed(frames[q][i].run)
      BY <2>2 DEF RunsInv, Different
    <3>2. QED
      <4>1. frames'[q] = frames[q]
        BY <1>6, <2>2
      <4>2. \A i \in 1..Len(frames[q]) : runs'[frames[q][i].run] = runs[frames[q][i].run]
        BY <1>5, <3>1, OpenScripts
      <4>3. QED
        BY <1>4, <4>1, <4>2, OpenScripts DEF Open
  <2>3. QED
    BY <2>1, <2>2
<1>8. Different'
  BY <1>6 DEF RunsInv, Different
<1>9. CallersInv'
  BY <1>4, <1>5 DEF RunsInv, CallersInv
<1>10. RaisedInv'
  <2>1. ASSUME NEW r \in 1..Len(runs'), runs'[r].exit = "raised", runs'[r].caller # 0
        PROVE  /\ runs'[r].caller \in 1..Len(runs')
               /\ runs'[runs'[r].caller].exit = "raised" \/ runs'[r].caller \in Passing'
    <3>0. r \in 1..Len(runs) /\ runs'[r].caller = runs[r].caller
      BY <1>4, <1>5
    <3>1. CASE Killed(r)
      <4>1. PICK i \in 1..Len(frames[p]) : frames[p][i].run = r
        BY <3>1
      <4>2. runs[r].caller = IF i = 1 THEN 0 ELSE frames[p][i - 1].run
        BY <4>1 DEF RunsInv, Open
      <4>3. i # 1
        BY <2>1, <3>0, <4>2
      <4>4. Len(frames[p]) \in Nat
        BY DEF SessionType
      <4>5. i - 1 \in 1..Len(frames[p])
        BY <4>3, <4>4
      <4>6. Killed(runs[r].caller) /\ runs[r].caller \in 1..Len(runs)
        BY <4>2, <4>3, <4>5 DEF RunsInv, Open
      <4>7. QED
        BY <1>4, <1>5, <3>0, <4>6
    <3>2. CASE ~Killed(r)
      <4>1. /\ runs[r].caller \in 1..Len(runs)
            /\ runs[runs[r].caller].exit = "raised" \/ runs[r].caller \in Passing
        BY <1>5, <2>1, <3>0, <3>2 DEF RunsInv, RaisedInv
      <4>2. CASE runs[runs[r].caller].exit = "raised"
        BY <1>4, <1>5, <3>0, <4>1, <4>2
      <4>3. CASE runs[r].caller \in Passing
        <5>1. PICK q \in Procs : /\ raising[q] /\ frames[q] # <<>>
                                 /\ Top(q).run = runs[r].caller
          BY <4>3 DEF Passing
        <5>2. CASE q = p
          <6>1. Len(frames[p]) \in 1..Len(frames[p])
            BY <5>1, <5>2, TopType DEF Depth
          <6>2. Killed(runs[r].caller)
            BY <5>1, <5>2, <6>1 DEF Top, Depth
          <6>3. QED
            BY <1>4, <1>5, <3>0, <4>1, <6>2
        <5>3. CASE q # p
          <6>1. frames'[q] = frames[q] /\ raising'[q]
            BY <1>1, <1>6, <5>1, <5>3 DEF SessionType
          <6>2. QED
            <7>1. runs[r].caller \in Passing'
              BY <5>1, <6>1 DEF Passing, Top, Depth
            <7>2. QED
              BY <1>4, <3>0, <4>1, <7>1
        <5>4. QED
          BY <5>2, <5>3
      <4>4. QED
        BY <4>1, <4>2, <4>3
    <3>3. QED
      BY <3>1, <3>2
  <2>2. QED
    BY <2>1 DEF RaisedInv
<1>11. QED
  BY <1>7, <1>8, <1>9, <1>10 DEF RunsInv

\* Every step keeps what is known of the runs.
LEMMA RunsStep ==
    ASSUME SessionType, RunsInv, [Next]_vars
    PROVE  RunsInv'
<1>1. CASE UNCHANGED vars
  BY <1>1 DEF vars, RunsInv, Different, CallersInv, RaisedInv, Passing, Open, Top, Depth
<1>2. ASSUME NEW p \in Procs, NEW cmd \in Commands, Enter(p, cmd)
      PROVE  RunsInv'
  BY <1>2, EnterRuns
<1>3. ASSUME NEW p \in Procs, Exit(p)
      PROVE  RunsInv'
  BY <1>3, ExitRuns
<1>4. ASSUME NEW p \in Procs, Kill(p)
      PROVE  RunsInv'
  BY <1>4, KillRuns
<1>5. ASSUME NEW p \in Procs,
             \/ InitializeTable(p) \/ AddFeature(p) \/ CheckMigrate(p)
             \/ CheckExists(p) \/ Query(p) \/ Fail(p)
      PROVE  RunsInv'
  BY <1>5, Bodies, BodyRuns
<1>6. QED
  BY <1>1, <1>2, <1>3, <1>4, <1>5 DEF Next, Step

\* No script ends well after a script that one of its queries called has raised or was
\* killed: the exception reaches every caller up to the outermost.
THEOREM FailuresPropagate == Spec => []FailurePropagates
<1>1. Init => SessionType /\ SessionInv /\ RunsInv
  <2>1. Init => SessionType /\ SessionInv
    BY DEF Init, SessionType, SessionInv, Owns, Given
  <2>2. Init => RunsInv
    BY DEF Init, RunsInv, Open, Different, CallersInv, RaisedInv
  <2>3. QED
    BY <2>1, <2>2
<1>2. SessionType /\ SessionInv /\ RunsInv /\ [Next]_vars
          => SessionType' /\ SessionInv' /\ RunsInv'
  BY SessionStep, RunsStep
<1>3. ASSUME SessionType, RunsInv
      PROVE  FailurePropagates
  <2>1. ASSUME NEW r \in DOMAIN runs, runs[r].exit = "raised", runs[r].caller # 0
        PROVE  runs[runs[r].caller].exit # "ok"
    <3>1. runs[runs[r].caller].exit = "raised" \/ runs[r].caller \in Passing
      BY <1>3, <2>1, RunsType DEF RunsInv, RaisedInv
    <3>2. CASE runs[r].caller \in Passing
      <4>1. PICK q \in Procs : frames[q] # <<>> /\ Top(q).run = runs[r].caller
        BY <3>2 DEF Passing
      <4>2. Len(frames[q]) \in 1..Len(frames[q])
        BY <1>3, <4>1, TopType DEF Depth
      <4>3. QED
        BY <1>3, <4>1, <4>2 DEF RunsInv, Open, Top, Depth
    <3>3. QED
      BY <3>1, <3>2
  <2>2. QED
    BY <2>1 DEF FailurePropagates
<1>4. QED
  BY <1>1, <1>2, <1>3, PTL DEF Spec

-----------------------------------------------------------------------------
\* The next query of an open load is one of its chain.
Pending(f) == /\ f.pc = "exists" => f.next = 1
              /\ f.pc = "query" => f.cmd.table \notin Csvs
              /\ f.pc = "query" /\ f.cmd.table \in Deltas => f.next \in 1..Chain[f.cmd.table]

PendingStack(stack) == \A i \in 1..Len(stack) : Pending(stack[i])

PendingInv == \A q \in Procs : PendingStack(frames[q])

Logged(t) == [run : Nat, query : 1..Chain[t]]

LogOf(t) == IF t \in Deltas THEN Seq(Logged(t)) ELSE {<<>>}

TableType(t, s) == s \in [exists : BOOLEAN, feature : BOOLEAN, log : LogOf(t)]

TablesType == /\ DOMAIN tables = Tables
              /\ \A t \in Tables : TableType(t, tables[t])

TablesInv == PendingInv /\ TablesType

\* The innermost frame of p becomes one that is in order.
LEMMA BecomePending ==
    ASSUME SessionType, PendingInv, NEW p \in Procs, frames[p] # <<>>, NEW f \in Frame,
           Pending(f), Become(p, f)
    PROVE  PendingInv'
<1>1. /\ Outer(p) \in Seq(Frame) /\ Len(Outer(p)) \in Nat
      /\ \A i \in 1..Len(Outer(p)) : i \in 1..Len(frames[p]) /\ Outer(p)[i] = frames[p][i]
  BY TopType DEF Depth
<1>2. \A q \in Procs : frames'[q] = IF q = p THEN Append(Outer(p), f) ELSE frames[q]
  BY DEF Become, SessionType
<1>3. PendingStack(Append(Outer(p), f))
  <2>1. PendingStack(frames[p])
    BY DEF PendingInv
  <2>2. /\ Len(Append(Outer(p), f)) = Len(Outer(p)) + 1
        /\ Append(Outer(p), f)[Len(Outer(p)) + 1] = f
        /\ \A i \in 1..Len(Outer(p)) : Append(Outer(p), f)[i] = Outer(p)[i]
    BY <1>1, AppendProperties
  <2>3. \A i \in 1..(Len(Outer(p)) + 1) : i \in 1..Len(Outer(p)) \/ i = Len(Outer(p)) + 1
    BY <1>1
  <2>4. QED
    BY <1>1, <2>1, <2>2, <2>3 DEF PendingStack
<1>4. QED
  BY <1>2, <1>3 DEF PendingInv

\* A step that leaves the stacks alone.
LEMMA SamePending ==
    ASSUME PendingInv, UNCHANGED frames
    PROVE  PendingInv'
BY DEF PendingInv, PendingStack

\* A write marks other scripts, which does not put them out of order.
LEMMA WrotePending ==
    ASSUME SessionType, PendingInv, NEW p \in Procs, NEW t, NEW f \in Frame,
           Pending(f), Wrote(p, f, t)
    PROVE  PendingInv'
<1>1. ASSUME NEW q \in Procs, NEW i \in 1..Len(frames[q])
      PROVE  Pending(Disturb(frames[q][i], t, Top(p).run))
  <2>1. frames[q][i] \in Frame /\ Pending(frames[q][i])
    BY DEF SessionType, PendingInv, PendingStack
  <2>2. /\ Disturb(frames[q][i], t, Top(p).run).pc = frames[q][i].pc
        /\ Disturb(frames[q][i], t, Top(p).run).next = frames[q][i].next
        /\ Disturb(frames[q][i], t, Top(p).run).cmd = frames[q][i].cmd
    BY <2>1 DEF Disturb, Frame
  <2>3. QED
    BY <2>1, <2>2 DEF Pending
<1>2. ASSUME NEW q \in Procs
      PROVE  PendingStack(frames'[q])
  <2>1. frames'[q] = [i \in 1..Len(frames[q]) |->
                         IF q = p /\ i = Depth(p) THEN f
                         ELSE Disturb(frames[q][i], t, Top(p).run)]
    BY DEF Wrote, SessionType
  <2>2. Len(frames[q]) \in Nat /\ DOMAIN frames'[q] = 1..Len(frames[q])
    BY <2>1 DEF SessionType
  <2>3. Len(frames'[q]) = Len(frames[q])
    <3>1. \A i \in 1..Len(frames[q]) : frames'[q][i] \in {frames'[q][j] : j \in 1..Len(frames[q])}
      OBVIOUS
    <3> DEFINE S == {frames'[q][j] : j \in 1..Len(frames[q])}
    <3>2. frames'[q] \in [1..Len(frames[q]) -> S]
      BY <2>1, <3>1
    <3> HIDE DEF S
    <3>3. QED
      BY <2>2, <3>2, FunctionIsSeq
  <2>4. QED
    BY <1>1, <2>1, <2>3 DEF PendingStack
<1>3. QED
  BY <1>2 DEF PendingInv

\* One table is changed to another of its type.
LEMMA TableChanged ==
    ASSUME TablesType, DOMAIN tables' = Tables,
           \A t \in Tables : tables'[t] = tables[t] \/ TableType(t, tables'[t])
    PROVE  TablesType'
BY DEF TablesType, TableType, LogOf, Logged

LEMMA InitializeTyped ==
    ASSUME SessionType, TablesInv, NEW p \in Procs, InitializeTable(p)
    PROVE  TablesInv'
<1>0. frames[p] # <<>> /\ Top(p) \in Frame
  BY TopType DEF InitializeTable, At
<1>1. CASE Raise(p) /\ UNCHANGED tables
  BY <1>1, SamePending DEF Raise, TablesInv, TablesType, TableType, LogOf, Logged
<1>2. CASE ~(Raise(p) /\ UNCHANGED tables)
  <2> DEFINE f == [Top(p) EXCEPT !.pc = AfterTable(Top(p).cmd)]
             u == Top(p).cmd.table
  <2>1. f \in Frame /\ Pending(f)
    <3>1. AfterTable(Top(p).cmd) \in {"migrate", "feature"}
      BY DEF AfterTable
    <3>2. QED
      BY <1>0, <3>1 DEF Frame, Pending
  <2>2. Wrote(p, f, u) /\ tables' = [tables EXCEPT ![u].exists = TRUE,
                              ![u].log = IF Top(p).cmd.recreate THEN <<>> ELSE @]
    BY <1>2 DEF InitializeTable
  <2>3. PendingInv'
    BY <2>1, <2>2, WrotePending DEF TablesInv
  <2> HIDE DEF f, u
  <2>4. ASSUME NEW t \in Tables
        PROVE  tables'[t] = tables[t] \/ TableType(t, tables'[t])
    <3>1. TableType(t, tables[t]) /\ <<>> \in LogOf(t) /\ DOMAIN tables = Tables
      BY DEF TablesInv, TablesType, LogOf
    <3>2. CASE t # u
      BY <2>2, <3>1, <3>2
    <3>3. CASE t = u
      <4>1. tables'[t] = [tables[t] EXCEPT !.exists = TRUE,
                              !.log = IF Top(p).cmd.recreate THEN <<>> ELSE tables[t].log]
        BY <2>2, <3>1, <3>3
      <4>2. QED
        BY <3>1, <4>1 DEF TableType
    <3>4. QED
      BY <3>2, <3>3
  <2>5. QED
    BY <2>2, <2>3, <2>4, TableChanged DEF TablesInv, TablesType
<1>3. QED
  BY <1>1, <1>2

LEMMA FeatureTyped ==
    ASSUME SessionType, TablesInv, NEW p \in Procs, AddFeature(p)
    PROVE  TablesInv'
<1> DEFINE u == Top(p).cmd.table
           f == [Top(p) EXCEPT !.pc = "migrate"]
<1>0. frames[p] # <<>> /\ Top(p) \in Frame
  BY TopType DEF AddFeature, At
<1>1. Become(p, f) /\ tables' = [tables EXCEPT ![u].feature = TRUE]
  BY DEF AddFeature, Goto
<1>2. f \in Frame /\ Pending(f)
  BY <1>0 DEF Frame, Pending
<1>3. PendingInv'
  BY <1>0, <1>1, <1>2, BecomePending DEF TablesInv
<1> HIDE DEF u, f
<1>4. ASSUME NEW t \in Tables
      PROVE  tables'[t] = tables[t] \/ TableType(t, tables'[t])
  <2>1. TableType(t, tables[t]) /\ DOMAIN tables = Tables
    BY DEF TablesInv, TablesType
  <2>2. CASE t # u
    BY <1>1, <2>1, <2>2
  <2>3. CASE t = u
    <3>1. tables'[t] = [tables[t] EXCEPT !.feature = TRUE]
      BY <1>1, <2>1, <2>3
    <3>2. QED
      BY <2>1, <3>1 DEF TableType
  <2>4. QED
    BY <2>2, <2>3
<1>5. QED
  BY <1>1, <1>3, <1>4, TableChanged DEF TablesInv, TablesType

\* A query is appended to the log of the table that it loads.
LEMMA QueryTyped ==
    ASSUME SessionType, TablesInv, NEW p \in Procs, Query(p)
    PROVE  TablesInv'
<1>0. frames[p] # <<>> /\ Top(p) \in Frame /\ Top(p).pc = "query" /\ Pending(Top(p))
  <2>1. frames[p] # <<>> /\ Top(p).pc = "query"
    BY DEF Query, At
  <2>2. Len(frames[p]) \in 1..Len(frames[p])
    BY <2>1, TopType DEF Depth
  <2>3. QED
    BY <2>1, <2>2, TopType DEF TablesInv, PendingInv, PendingStack
<1>1. CASE Raise(p) /\ UNCHANGED tables
  BY <1>1, SamePending DEF Raise, TablesInv, TablesType, TableType, LogOf, Logged
<1>2. CASE ~(Raise(p) /\ UNCHANGED tables)
  <2> DEFINE g == Top(p)
             u == g.cmd.table
             r == [run |-> g.run, query |-> g.next]
             f == [g EXCEPT !.pc = AfterQuery(g), !.next = @ + 1]
  <2>1. f \in Frame /\ Pending(f)
    <3>1. /\ AfterQuery(g) \in {"exit", "query"} /\ g.next + 1 \in Nat
          /\ f = [g EXCEPT !.pc = AfterQuery(g), !.next = g.next + 1]
      BY <1>0 DEF AfterQuery, Frame
    <3>2. /\ f \in Frame /\ f.pc = AfterQuery(g)
          /\ f.next = g.next + 1 /\ f.cmd = g.cmd
      BY <1>0, <3>1 DEF Frame
    <3>3. ASSUME f.pc = "query", g.cmd.table \in Deltas
          PROVE  g.next + 1 \in 1..Chain[g.cmd.table]
      <4>1. g.next # Chain[g.cmd.table]
        BY <3>2, <3>3 DEF AfterQuery
      <4>2. g.next \in 1..Chain[g.cmd.table] /\ Chain[g.cmd.table] \in Nat
        BY <1>0, <3>3, TablesAssumption DEF Pending
      <4>3. QED
        BY <4>1, <4>2
    <3>4. QED
      BY <1>0, <3>1, <3>2, <3>3 DEF Pending
  <2>2. Wrote(p, f, u) /\ tables' = [tables EXCEPT ![u].log = Append(@, r)]
    BY <1>2 DEF Query
  <2>3. PendingInv'
    BY <2>1, <2>2, WrotePending DEF TablesInv
  <2>4. u \notin Csvs /\ (u \in Deltas => r \in Logged(u))
    BY <1>0 DEF Pending, Logged, Frame
  <2> HIDE DEF f, u, r
  <2>5. ASSUME NEW t \in Tables
        PROVE  tables'[t] = tables[t] \/ TableType(t, tables'[t])
    <3>1. TableType(t, tables[t]) /\ DOMAIN tables = Tables
      BY DEF TablesInv, TablesType
    <3>2. CASE t # u
      BY <2>2, <3>1, <3>2
    <3>3. CASE t = u
      <4>1. tables'[t] = [tables[t] EXCEPT !.log = Append(tables[t].log, r)]
        BY <2>2, <3>1, <3>3
      <4>2. t \in Deltas /\ r \in Logged(t)
        BY <2>4, <3>3 DEF Tables
      <4>3. Append(tables[t].log, r) \in LogOf(t)
        BY <3>1, <4>2 DEF LogOf, TableType
      <4>4. QED
        BY <3>1, <4>1, <4>3 DEF TableType
    <3>4. QED
      BY <3>2, <3>3
  <2>6. QED
    BY <2>2, <2>3, <2>5, TableChanged DEF TablesInv, TablesType
<1>3. QED
  BY <1>1, <1>2

\* The other steps leave the tables alone.
LEMMA OthersTyped ==
    ASSUME SessionType, TablesInv, NEW p \in Procs,
           CheckMigrate(p) \/ CheckExists(p) \/ Fail(p) \/ Exit(p) \/ Kill(p)
              \/ \E cmd \in Commands : Enter(p, cmd)
    PROVE  TablesInv'
<1>1. UNCHANGED tables
  BY DEF CheckMigrate, CheckExists, Fail, Exit, Kill, Enter
<1>2. PendingInv'
  <2>1. CASE Raise(p)
    BY <2>1, SamePending DEF Raise, TablesInv
  <2>2. CASE CheckMigrate(p) /\ ~Raise(p)
    <3>1. frames[p] # <<>> /\ Top(p) \in Frame /\ Become(p, [Top(p) EXCEPT !.pc = "exit"])
      BY <2>2, TopType DEF CheckMigrate, At, Goto
    <3>2. [Top(p) EXCEPT !.pc = "exit"] \in Frame /\ Pending([Top(p) EXCEPT !.pc = "exit"])
      BY <3>1 DEF Frame, Pending
    <3>3. QED
      BY <3>1, <3>2, BecomePending DEF TablesInv
  <2>3. CASE CheckExists(p) /\ ~Raise(p)
    <3> DEFINE f == [Top(p) EXCEPT !.pc = "query"]
               t == Top(p).cmd.table
    <3>1. frames[p] # <<>> /\ Top(p) \in Frame /\ Become(p, f)
      BY <2>3, TopType DEF CheckExists, At, Goto
    <3>2. t \notin Csvs /\ Chain[t] # 0 /\ Top(p).pc = "exists"
      BY <2>3 DEF CheckExists, At
    <3>3. Len(frames[p]) \in 1..Len(frames[p])
      BY <3>1, TopType DEF Depth
    <3>4. Top(p).next = 1
      BY <3>1, <3>2, <3>3, TopType DEF TablesInv, PendingInv, PendingStack, Pending
    <3>5. f \in Frame /\ f.pc = "query" /\ f.next = 1 /\ f.cmd.table = t
      BY <3>1, <3>4 DEF Frame
    <3>6. t \in Deltas => 1 \in 1..Chain[t]
      BY <3>2, TablesAssumption
    <3>7. Pending(f)
      BY <3>2, <3>5, <3>6 DEF Pending
    <3>8. QED
      BY <3>1, <3>5, <3>7, BecomePending DEF TablesInv
  <2>4. CASE Exit(p)
    <3>1. /\ frames[p] # <<>>
          /\ \A q \in Procs : frames'[q] = IF q = p THEN Outer(p) ELSE frames[q]
      BY <2>4 DEF Exit, SessionType
    <3>2. \A i \in 1..Len(Outer(p)) : i \in 1..Len(frames[p]) /\ Outer(p)[i] = frames[p][i]
      BY <3>1, TopType DEF Depth
    <3>3. QED
      BY <3>1, <3>2 DEF TablesInv, PendingInv, PendingStack
  <2>5. CASE Kill(p)
    <3>1. \A q \in Procs : frames'[q] = IF q = p THEN <<>> ELSE frames[q]
      BY <2>5 DEF Kill, SessionType
    <3>2. QED
      BY <3>1 DEF TablesInv, PendingInv, PendingStack
  <2>6. ASSUME NEW cmd \in Commands, Enter(p, cmd)
        PROVE  PendingInv'
    <3> DEFINE f == [run |-> Len(runs) + 1, cmd |-> cmd, created |-> session[p] = "none",
                     next |-> 1, alone |-> TRUE, pc |-> FirstPc(cmd)]
    <3>1. \A q \in Procs : frames'[q] = IF q = p THEN Append(frames[p], f) ELSE frames[q]
      BY <2>6 DEF Enter, SessionType
    <3>2. Pending(f)
      BY DEF Pending, FirstPc, Commands
    <3> HIDE DEF f
    <3>3. frames[p] \in Seq(Frame) /\ Len(frames[p]) \in Nat
      BY DEF SessionType
    <3>4. /\ Len(Append(frames[p], f)) = Len(frames[p]) + 1
          /\ Append(frames[p], f)[Len(frames[p]) + 1] = f
          /\ \A i \in 1..Len(frames[p]) : Append(frames[p], f)[i] = frames[p][i]
      BY <3>3
    <3>5. \A i \in 1..(Len(frames[p]) + 1) : i \in 1..Len(frames[p]) \/ i = Len(frames[p]) + 1
      BY <3>3
    <3>6. PendingStack(frames[p])
      BY DEF TablesInv, PendingInv
    <3>7. PendingStack(Append(frames[p], f))
      BY <3>2, <3>4, <3>5, <3>6 DEF PendingStack
    <3>8. QED
      BY <3>1, <3>7 DEF TablesInv, PendingInv
  <2>7. QED
    BY <2>1, <2>2, <2>3, <2>4, <2>5, <2>6 DEF Fail
<1>3. QED
  BY <1>1, <1>2 DEF TablesInv, TablesType, TableType, LogOf, Logged

\* The first state, and every step, keep the tables in order.
LEMMA TablesInit == Init => TablesInv
<1> SUFFICES ASSUME Init
             PROVE  TablesInv
  OBVIOUS
<1>1. PendingInv
  BY DEF Init, PendingInv, PendingStack
<1>2. DOMAIN tables = Tables
  BY DEF Init
<1>3. ASSUME NEW t \in Tables
      PROVE  TableType(t, tables[t])
  <2>1. PICK e \in BOOLEAN : tables[t] = [exists |-> e, feature |-> FALSE, log |-> <<>>]
    BY DEF Init
  <2>2. <<>> \in LogOf(t)
    BY DEF LogOf
  <2>3. QED
    BY <2>1, <2>2 DEF TableType
<1>4. QED
  BY <1>1, <1>2, <1>3 DEF TablesInv, TablesType

LEMMA TablesStep ==
    ASSUME SessionType, TablesInv, [Next]_vars
    PROVE  TablesInv'
<1>1. CASE UNCHANGED vars
  BY <1>1, SamePending DEF vars, TablesInv, TablesType, TableType, LogOf, Logged
<1>2. CASE Next
  BY <1>2, InitializeTyped, FeatureTyped, QueryTyped, OthersTyped DEF Next, Step
<1>3. QED
  BY <1>1, <1>2

\* Every variable keeps its type: in particular a load never runs, or logs, a query
\* that its table does not have.
THEOREM ScriptsTypeCorrect == Spec => []TypeOK
<1>1. Init => SessionType /\ SessionInv /\ TablesInv
  <2>1. Init => SessionType /\ SessionInv
    BY DEF Init, SessionType, SessionInv, Owns, Given
  <2>2. QED
    BY <2>1, TablesInit
<1>2. SessionType /\ TablesInv /\ [Next]_vars => TablesInv'
  BY TablesStep
<1>3. SessionType /\ TablesInv => TypeOK
  BY DEF SessionType, TablesInv, TablesType, TableType, LogOf, Logged, TypeOK
<1>4. SessionType /\ SessionInv /\ [Next]_vars => SessionType' /\ SessionInv'
  BY SessionStep
<1>5. QED
  BY <1>1, <1>2, <1>3, <1>4, PTL DEF Spec

-----------------------------------------------------------------------------
\* The program counters of a script are those of its kind.
Kind(f) == /\ f.cmd.script = "create" => f.pc \in {"table", "feature", "migrate", "exit"}
           /\ f.cmd.script = "load" => f.pc \in {"exists", "query", "exit"}

\* How far the table of an open create is; ts are the tables.
Ready(f, ts) ==
    f.cmd.script = "create" =>
        /\ f.pc \in {"feature", "migrate", "exit"} => ts[f.cmd.table].exists
        /\ f.pc \in {"migrate", "exit"} /\ f.cmd.table \in Deltas
               => ts[f.cmd.table].feature

\* The log ends with the first n queries of the run of f.
Written(f, n, log) ==
    /\ Len(log) >= n
    /\ \A i \in 1..n : log[Len(log) - n + i] = [run |-> f.run, query |-> i]

\* An open load that nobody has disturbed finds the queries it has run at the end of
\* the log.
Whole(f, ts) ==
    f.cmd.script = "load" /\ f.alone =>
        /\ f.pc = "query" => Written(f, f.next - 1, ts[f.cmd.table].log)
        /\ f.pc = "exit" => Written(f, Chain[f.cmd.table], ts[f.cmd.table].log)

Fine(f, ts) == Kind(f) /\ Ready(f, ts) /\ Whole(f, ts)

FineInv == \A q \in Procs : \A i \in 1..Len(frames[q]) : Fine(frames[q][i], tables)

\* The i-th frame of q after the step is the one before it.
Kept(q, i) == i \in 1..Len(frames[q]) /\ frames'[q][i] = frames[q][i]

\* The innermost frame of p becomes f and the others stay.
LEMMA BecomeFrames ==
    ASSUME SessionType, NEW p \in Procs, frames[p] # <<>>, NEW f \in Frame, Become(p, f),
           NEW q \in Procs, NEW i \in 1..Len(frames'[q])
    PROVE  (q = p /\ frames'[q][i] = f) \/ Kept(q, i)
<1>1. /\ Outer(p) \in Seq(Frame) /\ Len(Outer(p)) \in Nat
      /\ \A j \in 1..Len(Outer(p)) : j \in 1..Len(frames[p]) /\ Outer(p)[j] = frames[p][j]
  BY TopType DEF Depth
<1>2. frames'[q] = IF q = p THEN Append(Outer(p), f) ELSE frames[q]
  BY DEF Become, SessionType
<1>3. CASE q = p
  <2>1. /\ Len(Append(Outer(p), f)) = Len(Outer(p)) + 1
        /\ Append(Outer(p), f)[Len(Outer(p)) + 1] = f
        /\ \A j \in 1..Len(Outer(p)) : Append(Outer(p), f)[j] = Outer(p)[j]
    BY <1>1, AppendProperties
  <2>2. i \in 1..Len(Outer(p)) \/ i = Len(Outer(p)) + 1
    BY <1>1, <1>2, <1>3, <2>1
  <2>3. QED
    BY <1>1, <1>2, <1>3, <2>1, <2>2 DEF Kept
<1>4. CASE q # p
  BY <1>2, <1>4 DEF Kept
<1>5. QED
  BY <1>3, <1>4

\* A write to table t: the innermost frame of p becomes f, and the others stay but
\* for the mark that a write leaves.
LEMMA WroteFrames ==
    ASSUME SessionType, NEW p \in Procs, frames[p] # <<>>, NEW t, NEW f, Wrote(p, f, t),
           NEW q \in Procs, NEW i \in 1..Len(frames'[q])
    PROVE  /\ i \in 1..Len(frames[q])
           /\ frames'[q][i] = IF q = p /\ i = Depth(p) THEN f
                              ELSE Disturb(frames[q][i], t, Top(p).run)
<1>1. frames'[q] = [j \in 1..Len(frames[q]) |->
                       IF q = p /\ j = Depth(p) THEN f
                       ELSE Disturb(frames[q][j], t, Top(p).run)]
  BY DEF Wrote, SessionType
<1>2. Len(frames[q]) \in Nat
  BY DEF SessionType
<1> DEFINE S == {frames'[q][j] : j \in 1..Len(frames[q])}
<1>3. frames'[q] \in [1..Len(frames[q]) -> S]
  BY <1>1
<1> HIDE DEF S
<1>4. Len(frames'[q]) = Len(frames[q])
  BY <1>2, <1>3, FunctionIsSeq
<1>5. QED
  BY <1>1, <1>4

\* A frame that stays, while its table stays, is as fine as it was.
LEMMA FineStays ==
    ASSUME FineInv, NEW q \in Procs, NEW i, Kept(q, i), UNCHANGED tables
    PROVE  Fine(frames'[q][i], tables')
BY DEF FineInv, Kept

\* What is known of the innermost frame of p.
LEMMA TopFine ==
    ASSUME SessionType, FineInv, NEW p \in Procs, frames[p] # <<>>
    PROVE  Fine(Top(p), tables) /\ Top(p) \in Frame /\ Depth(p) \in 1..Len(frames[p])
<1>1. Len(frames[p]) \in 1..Len(frames[p]) /\ Depth(p) = Len(frames[p])
  BY TopType DEF Depth
<1>2. QED
  BY <1>1, TopType DEF FineInv

\* The steps that leave the tables alone.
LEMMA OthersFine ==
    ASSUME SessionType, TablesInv, FineInv, NEW p \in Procs,
           CheckMigrate(p) \/ CheckExists(p) \/ Fail(p) \/ Exit(p) \/ Kill(p)
              \/ \E cmd \in Commands : Enter(p, cmd)
    PROVE  FineInv'
<1>1. UNCHANGED tables
  BY DEF CheckMigrate, CheckExists, Fail, Exit, Kill, Enter
<1>2. CASE Raise(p)
  BY <1>1, <1>2 DEF Raise, FineInv
<1>3. ASSUME NEW pc \in {"exit", "query"}, frames[p] # <<>>,
             Become(p, [Top(p) EXCEPT !.pc = pc]),
             Fine([Top(p) EXCEPT !.pc = pc], tables)
      PROVE  FineInv'
  <2>1. [Top(p) EXCEPT !.pc = pc] \in Frame
    BY <1>3, TopType DEF Frame
  <2>2. QED
    BY <1>1, <1>3, <2>1, BecomeFrames, FineStays DEF FineInv
<1>4. CASE CheckMigrate(p) /\ ~Raise(p)
  <2>1. frames[p] # <<>> /\ Top(p).pc = "migrate" /\ Become(p, [Top(p) EXCEPT !.pc = "exit"])
    BY <1>4 DEF CheckMigrate, At, Goto
  <2>2. Fine(Top(p), tables) /\ Top(p) \in Frame
    BY <2>1, TopFine
  <2>3. Fine([Top(p) EXCEPT !.pc = "exit"], tables)
    BY <2>1, <2>2 DEF Fine, Kind, Ready, Whole, Frame
  <2>4. QED
    BY <1>3, <2>1, <2>3
<1>5. CASE CheckExists(p) /\ ~Raise(p)
  <2> DEFINE g == [Top(p) EXCEPT !.pc = "query"]
  <2>1. frames[p] # <<>> /\ Top(p).pc = "exists" /\ Become(p, g) /\ ~(Top(p).cmd.table \in Csvs)
    BY <1>5 DEF CheckExists, At, Goto
  <2>2. Fine(Top(p), tables) /\ Top(p) \in Frame /\ Depth(p) \in 1..Len(frames[p])
    BY <2>1, TopFine
  <2>3. Top(p).next = 1
    BY <2>1, <2>2 DEF TablesInv, PendingInv, PendingStack, Pending, Top
  <2>4. g.pc = "query" /\ g.next - 1 = 0 /\ g.cmd = Top(p).cmd
    BY <2>2, <2>3 DEF Frame
  <2>5. g.cmd.script = "load" => Written(g, g.next - 1, tables[g.cmd.table].log)
    <3>1. ASSUME g.cmd.script = "load"
          PROVE  Len(tables[g.cmd.table].log) \in Nat
      <4>1. g.cmd.table \in Deltas
        BY <2>1, <2>2, <2>4, <3>1 DEF Frame, Commands, Tables
      <4>2. tables[g.cmd.table].log \in Seq(Logged(g.cmd.table))
        BY <4>1 DEF TablesInv, TablesType, TableType, LogOf, Tables
      <4>3. QED
        BY <4>2, LenProperties
    <3>2. QED
      BY <2>4, <3>1 DEF Written
  <2>6. Fine(g, tables)
    <3>1. Kind(g)
      BY <2>1, <2>2, <2>4 DEF Fine, Kind
    <3>2. Ready(g, tables)
      BY <2>4 DEF Ready
    <3>3. Whole(g, tables)
      BY <2>4, <2>5 DEF Whole
    <3>4. QED
      BY <3>1, <3>2, <3>3 DEF Fine
  <2>7. QED
    BY <1>3, <2>1, <2>6
<1>6. CASE Exit(p)
  <2>1. /\ frames[p] # <<>>
        /\ \A q \in Procs : frames'[q] = IF q = p THEN Outer(p) ELSE frames[q]
    BY <1>6 DEF Exit, SessionType
  <2>2. \A i \in 1..Len(Outer(p)) : i \in 1..Len(frames[p]) /\ Outer(p)[i] = frames[p][i]
    BY <2>1, TopType DEF Depth
  <2>3. \A q \in Procs : \A i \in 1..Len(frames'[q]) : Kept(q, i)
    BY <2>1, <2>2 DEF Kept
  <2>4. QED
    BY <1>1, <2>3, FineStays DEF FineInv
<1>7. CASE Kill(p)
  <2>1. \A q \in Procs : frames'[q] = IF q = p THEN <<>> ELSE frames[q]
    BY <1>7 DEF Kill, SessionType
  <2>2. \A q \in Procs : \A i \in 1..Len(frames'[q]) : Kept(q, i)
    BY <2>1 DEF Kept
  <2>3. QED
    BY <1>1, <2>2, FineStays DEF FineInv
<1>8. ASSUME NEW cmd \in Commands, Enter(p, cmd)
      PROVE  FineInv'
  <2> DEFINE f == [run |-> Len(runs) + 1, cmd |-> cmd, created |-> session[p] = "none",
                   next |-> 1, alone |-> TRUE, pc |-> FirstPc(cmd)]
  <2>1. \A q \in Procs : frames'[q] = IF q = p THEN Append(frames[p], f) ELSE frames[q]
    BY <1>8 DEF Enter, SessionType
  <2>2. Fine(f, tables)
    BY DEF Fine, Kind, Ready, Whole, FirstPc, Commands
  <2> HIDE DEF f
  <2>3. frames[p] \in Seq(Frame) /\ Len(frames[p]) \in Nat
    BY DEF SessionType
  <2>4. /\ Len(Append(frames[p], f)) = Len(frames[p]) + 1
        /\ Append(frames[p], f)[Len(frames[p]) + 1] = f
        /\ \A i \in 1..Len(frames[p]) : Append(frames[p], f)[i] = frames[p][i]
    BY <2>3
  <2>5. \A i \in 1..(Len(frames[p]) + 1) : i \in 1..Len(frames[p]) \/ i = Len(frames[p]) + 1
    BY <2>3
  <2>6. \A q \in Procs : \A i \in 1..Len(frames'[q]) : frames'[q][i] = f \/ Kept(q, i)
    BY <2>1, <2>4, <2>5 DEF Kept
  <2>7. QED
    BY <1>1, <2>2, <2>6, FineStays DEF FineInv
<1>9. QED
  BY <1>2, <1>4, <1>5, <1>6, <1>7, <1>8 DEF Fail

\* The feature is added to a table; nothing else of it changes.
LEMMA FeatureFine ==
    ASSUME SessionType, TablesInv, FineInv, NEW p \in Procs, AddFeature(p)
    PROVE  FineInv'
<1> DEFINE u == Top(p).cmd.table
           g == [Top(p) EXCEPT !.pc = "migrate"]
<1>1. /\ frames[p] # <<>> /\ Top(p).pc = "feature" /\ Become(p, g)
      /\ tables' = [tables EXCEPT ![u].feature = TRUE]
  BY DEF AddFeature, Goto, At
<1>2. Fine(Top(p), tables) /\ Top(p) \in Frame /\ g \in Frame
  BY <1>1, TopFine DEF Frame
<1>3. ASSUME NEW t \in Tables
      PROVE  /\ tables'[t].exists = tables[t].exists
             /\ tables'[t].log = tables[t].log
             /\ tables'[t].feature = (t = u \/ tables[t].feature)
  <2>1. TableType(t, tables[t]) /\ DOMAIN tables = Tables
    BY DEF TablesInv, TablesType
  <2>2. tables'[t] = IF t = u THEN [tables[t] EXCEPT !.feature = TRUE] ELSE tables[t]
    BY <1>1, <2>1
  <2>3. QED
    BY <2>1, <2>2 DEF TableType
<1>4. g.pc = "migrate" /\ g.cmd = Top(p).cmd
  BY <1>2 DEF Frame
<1>5. Fine(g, tables')
  <2>1. Kind(g)
    BY <1>1, <1>2, <1>4 DEF Fine, Kind
  <2>2. Whole(g, tables')
    BY <1>4 DEF Whole
  <2>3. Ready(g, tables')
    BY <1>1, <1>2, <1>3, <1>4 DEF Fine, Ready, Frame, Commands
  <2>4. QED
    BY <2>1, <2>2, <2>3 DEF Fine
<1>6. ASSUME NEW q \in Procs, NEW i, Kept(q, i)
      PROVE  Fine(frames'[q][i], tables')
  <2> DEFINE f == frames[q][i]
  <2>1. frames'[q][i] = f /\ f \in Frame /\ Fine(f, tables)
    BY <1>6 DEF Kept, FineInv, SessionType
  <2>2. f.cmd.script \in {"create", "load"} => f.cmd.table \in Tables
    BY <2>1 DEF Frame, Commands
  <2> HIDE DEF f
  <2>3. QED
    BY <1>3, <2>1, <2>2 DEF Fine, Kind, Ready, Whole
<1> HIDE DEF g, u
<1>7. ASSUME NEW q \in Procs, NEW i \in 1..Len(frames'[q])
      PROVE  Fine(frames'[q][i], tables')
  <2>1. (q = p /\ frames'[q][i] = g) \/ Kept(q, i)
    BY <1>1, <1>2, BecomeFrames
  <2>2. QED
    BY <1>5, <1>6, <2>1
<1>8. QED
  BY <1>7 DEF FineInv

\* A write to the table u by the innermost script of p: the other scripts stay fine,
\* as u goes on to exist with its feature, and the loads of u are no longer alone.
LEMMA WroteFine ==
    ASSUME SessionType, TablesInv, RunsInv, FineInv, NEW p \in Procs, frames[p] # <<>>,
           NEW f, NEW u, Wrote(p, f, u), Fine(f, tables'),
           \A t \in Tables : /\ tables[t].exists => tables'[t].exists
                             /\ tables'[t].feature = tables[t].feature
                             /\ t # u => tables'[t].log = tables[t].log
    PROVE  FineInv'
<1>1. ASSUME NEW q \in Procs, NEW i \in 1..Len(frames[q]), ~(q = p /\ i = Depth(p))
      PROVE  Fine(Disturb(frames[q][i], u, Top(p).run), tables')
  <2> DEFINE old == frames[q][i]
             new == Disturb(old, u, Top(p).run)
  <2>1. old \in Frame /\ Fine(old, tables)
    BY DEF FineInv, SessionType
  <2>2. old.run # Top(p).run
    <3>1. Depth(p) \in 1..Len(frames[p])
      BY TopFine
    <3>2. QED
      BY <1>1, <3>1, DifferentScripts DEF Top
  <2>3. old.cmd.script \in {"create", "load"} => old.cmd.table \in Tables
    BY <2>1 DEF Frame, Commands
  <2> HIDE DEF old
  <2>4. /\ new.pc = old.pc /\ new.cmd = old.cmd /\ new.run = old.run /\ new.next = old.next
        /\ new.alone => old.alone
        /\ new.cmd.script = "load" /\ new.alone => old.cmd.table # u
    BY <2>1, <2>2 DEF Disturb, Frame
  <2> HIDE DEF new
  <2>5. Kind(new) /\ Ready(new, tables')
    BY <2>1, <2>3, <2>4 DEF Fine, Kind, Ready
  <2>6. Whole(new, tables')
    <3>1. ASSUME new.cmd.script = "load", new.alone
          PROVE  /\ old.cmd.script = "load" /\ old.alone
                 /\ tables'[new.cmd.table].log = tables[old.cmd.table].log
      BY <2>3, <2>4, <3>1
    <3>2. QED
      BY <2>1, <2>4, <3>1 DEF Fine, Whole, Written
  <2>7. QED
    BY <2>5, <2>6 DEF Fine, new, old
<1>2. QED
  BY <1>1, WroteFrames DEF FineInv

\* A table is created, or overwritten.
LEMMA InitializeFine ==
    ASSUME SessionType, TablesInv, RunsInv, FineInv, NEW p \in Procs, InitializeTable(p)
    PROVE  FineInv'
<1> DEFINE u == Top(p).cmd.table
           g == [Top(p) EXCEPT !.pc = AfterTable(Top(p).cmd)]
<1>0. frames[p] # <<>> /\ Top(p).pc = "table"
  BY DEF InitializeTable, At
<1>1. CASE Raise(p) /\ UNCHANGED tables
  BY <1>1 DEF Raise, FineInv
<1>2. CASE ~(Raise(p) /\ UNCHANGED tables)
  <2>1. /\ tables' = [tables EXCEPT ![u].exists = TRUE,
                                    ![u].log = IF Top(p).cmd.recreate THEN <<>> ELSE @]
        /\ Wrote(p, g, u)
    BY <1>2 DEF InitializeTable
  <2>2. Fine(Top(p), tables) /\ Top(p) \in Frame
    BY <1>0, TopFine
  <2>3. g.cmd = Top(p).cmd /\ g.pc = IF u \in Csvs THEN "migrate" ELSE "feature"
    BY <2>2 DEF Frame, AfterTable
  <2>4. ASSUME NEW t \in Tables
        PROVE  /\ tables'[t].exists = (t = u \/ tables[t].exists)
               /\ tables'[t].feature = tables[t].feature
               /\ t # u => tables'[t].log = tables[t].log
    <3>1. TableType(t, tables[t]) /\ DOMAIN tables = Tables
      BY DEF TablesInv, TablesType
    <3>2. t # u => tables'[t] = tables[t]
      BY <2>1, <3>1
    <3>3. t = u => /\ tables'[t].exists = TRUE
                   /\ tables'[t].feature = tables[t].feature
      BY <2>1, <3>1 DEF TableType
    <3>4. QED
      BY <3>1, <3>2, <3>3 DEF TableType
  <2>5. Fine(g, tables')
    <3>1. Kind(g)
      BY <1>0, <2>2, <2>3 DEF Fine, Kind
    <3>2. Ready(g, tables')
      <4>1. ASSUME g.cmd.script = "create"
            PROVE  u \in Tables /\ tables'[u].exists
        BY <2>2, <2>3, <2>4, <4>1 DEF Frame, Commands
      <4>2. g.pc = "migrate" => u \notin Deltas
        BY <2>3, TablesAssumption
      <4>3. g.pc \in {"migrate", "feature"} /\ g.cmd.table = u
        BY <2>3
      <4> HIDE DEF g, u
      <4>4. QED
        BY <4>1, <4>2, <4>3 DEF Ready
    <3>3. Whole(g, tables')
      BY <2>3 DEF Whole
    <3>4. QED
      BY <3>1, <3>2, <3>3 DEF Fine
  <2> HIDE DEF g, u
  <2>6. QED
    BY <1>0, <2>1, <2>4, <2>5, WroteFine
<1>3. QED
  BY <1>1, <1>2

\* A query that follows the earlier ones of its run.
LEMMA WrittenNext ==
    ASSUME NEW S, NEW log \in Seq(S), NEW f, NEW n \in Nat, Written(f, n, log),
           [run |-> f.run, query |-> n + 1] \in S
    PROVE  Written(f, n + 1, Append(log, [run |-> f.run, query |-> n + 1]))
<1> DEFINE r == [run |-> f.run, query |-> n + 1]
           new == Append(log, r)
<1>1. Len(log) \in Nat /\ Len(log) >= n
  BY LenProperties DEF Written
<1>2. /\ Len(new) = Len(log) + 1 /\ new[Len(log) + 1] = r
      /\ \A j \in 1..Len(log) : new[j] = log[j]
  BY AppendProperties
<1> HIDE DEF new
<1>3. ASSUME NEW i \in 1..(n + 1)
      PROVE  new[Len(new) - (n + 1) + i] = [run |-> f.run, query |-> i]
  <2>1. Len(new) - (n + 1) + i = Len(log) - n + i
    BY <1>1, <1>2
  <2>2. CASE i = n + 1
    <3>1. Len(log) - n + i = Len(log) + 1
      BY <1>1, <2>2
    <3>2. QED
      BY <1>2, <2>1, <2>2, <3>1
  <2>3. CASE i # n + 1
    <3>1. i \in 1..n /\ Len(log) - n + i \in 1..Len(log)
      BY <1>1, <2>3
    <3>2. QED
      BY <1>2, <2>1, <3>1 DEF Written
  <2>4. QED
    BY <2>2, <2>3
<1>4. Len(new) >= n + 1
  BY <1>1, <1>2
<1>5. QED
  BY <1>3, <1>4 DEF Written, new

\* A query is appended to the log.
LEMMA QueryFine ==
    ASSUME SessionType, TablesInv, RunsInv, FineInv, NEW p \in Procs, Query(p)
    PROVE  FineInv'
<1> DEFINE f == Top(p)
           u == f.cmd.table
           r == [run |-> f.run, query |-> f.next]
           g == [f EXCEPT !.pc = AfterQuery(f), !.next = @ + 1]
<1>0. frames[p] # <<>> /\ f.pc = "query"
  BY DEF Query, At
<1>1. CASE Raise(p) /\ UNCHANGED tables
  BY <1>1 DEF Raise, FineInv
<1>2. CASE ~(Raise(p) /\ UNCHANGED tables)
  <2>1. tables' = [tables EXCEPT ![u].log = Append(@, r)] /\ Wrote(p, g, u)
    BY <1>2 DEF Query
  <2>2. Fine(f, tables) /\ f \in Frame /\ Depth(p) \in 1..Len(frames[p])
    BY <1>0, TopFine
  <2>3. Pending(f)
    BY <2>2 DEF TablesInv, PendingInv, PendingStack, Top
  <2>4. /\ g.cmd = f.cmd /\ g.run = f.run /\ g.alone = f.alone /\ g.next = f.next + 1
        /\ g.pc = IF f.next = Chain[u] THEN "exit" ELSE "query"
    BY <2>2 DEF Frame, AfterQuery
  <2>5. ASSUME NEW t \in Tables
        PROVE  /\ tables'[t].exists = tables[t].exists
               /\ tables'[t].feature = tables[t].feature
               /\ t # u => tables'[t].log = tables[t].log
               /\ t = u => tables'[t].log = Append(tables[t].log, r)
    <3>1. TableType(t, tables[t]) /\ DOMAIN tables = Tables
      BY DEF TablesInv, TablesType
    <3>2. t # u => tables'[t] = tables[t]
      BY <2>1, <3>1
    <3>3. t = u => tables'[t] = [tables[t] EXCEPT !.log = Append(tables[t].log, r)]
      BY <2>1, <3>1
    <3>4. QED
      BY <3>1, <3>2, <3>3 DEF TableType
  <2>6. Fine(g, tables')
    <3>1. Kind(g) /\ Ready(g, tables')
      BY <1>0, <2>2, <2>4 DEF Fine, Kind, Ready
    <3>2. ASSUME g.cmd.script = "load", g.alone
          PROVE  Written(g, f.next, tables'[u].log)
      <4>1. u \in Deltas
        BY <1>0, <2>2, <2>3, <2>4, <3>2 DEF Frame, Commands, Tables, Pending
      <4>2. tables[u].log \in Seq(Logged(u)) /\ tables'[u].log = Append(tables[u].log, r)
        BY <2>5, <4>1 DEF TablesInv, TablesType, TableType, LogOf, Tables
      <4>3. f.next \in 1..Chain[u] /\ Chain[u] \in Nat
        BY <1>0, <2>3, <4>1, TablesAssumption DEF Pending
      <4>4. f.next - 1 \in Nat /\ f.next - 1 + 1 = f.next
        BY <4>3
      <4>5. Written(f, f.next - 1, tables[u].log)
        BY <1>0, <2>2, <2>4, <3>2 DEF Fine, Whole
      <4>6. [run |-> f.run, query |-> f.next - 1 + 1] \in Logged(u)
        BY <2>2, <4>3, <4>4 DEF Logged, Frame
      <4> HIDE DEF f, u, g, r
      <4>7. Written(f, f.next - 1 + 1,
                    Append(tables[u].log, [run |-> f.run, query |-> f.next - 1 + 1]))
        BY <4>2, <4>4, <4>5, <4>6, WrittenNext
      <4>8. QED
        BY <2>4, <4>2, <4>4, <4>7 DEF Written, r
    <3>3. ASSUME g.cmd.script = "load", g.alone
          PROVE  g.next - 1 = f.next
      BY <2>2, <2>4 DEF Frame
    <3>4. Whole(g, tables')
      BY <2>4, <3>2, <3>3 DEF Whole
    <3>5. QED
      BY <3>1, <3>4 DEF Fine
  <2>7. \A t \in Tables : /\ tables[t].exists => tables'[t].exists
                          /\ tables'[t].feature = tables[t].feature
                          /\ t # u => tables'[t].log = tables[t].log
    BY <2>5
  <2> HIDE DEF f, g, u, r
  <2>8. QED
    BY <1>0, <2>1, <2>6, <2>7, WroteFine
<1>3. QED
  BY <1>1, <1>2

\* All that is known of a reachable state.
ScriptsInv == SessionType /\ SessionInv /\ RunsInv /\ TablesInv /\ FineInv

LEMMA ScriptsInit == Init => ScriptsInv
<1>1. Init => FineInv
  BY DEF Init, FineInv
<1>2. Init => SessionType /\ SessionInv
  BY DEF Init, SessionType, SessionInv, Owns, Given
<1>3. Init => RunsInv
  BY DEF Init, RunsInv, Open, Different, CallersInv, RaisedInv
<1>4. QED
  BY <1>1, <1>2, <1>3, TablesInit DEF ScriptsInv

LEMMA ScriptsStep == ScriptsInv /\ [Next]_vars => ScriptsInv'
<1> SUFFICES ASSUME ScriptsInv, [Next]_vars
             PROVE  ScriptsInv'
  OBVIOUS
<1>1. SessionType' /\ SessionInv'
  BY SessionStep DEF ScriptsInv
<1>2. RunsInv' /\ TablesInv'
  BY RunsStep, TablesStep DEF ScriptsInv
<1>3. FineInv'
  <2>1. CASE UNCHANGED vars
    BY <2>1 DEF vars, FineInv, ScriptsInv
  <2>2. CASE Next
    BY <2>2, InitializeFine, FeatureFine, QueryFine, OthersFine DEF ScriptsInv, Next, Step
  <2>3. QED
    BY <2>1, <2>2
<1>4. QED
  BY <1>1, <1>2, <1>3 DEF ScriptsInv

\* A script that ends well does so in Exit, from its last program counter.
LEMMA EndsInExit ==
    ASSUME SessionType, RunsInv, FineInv, [Next]_vars, NEW p \in Procs, NEW f, EndsOk(p, f)
    PROVE  f.pc = "exit" /\ Fine(f, tables) /\ f \in Frame /\ UNCHANGED tables
<1>0. frames[p] # <<>> /\ Top(p) = f /\ Depth(p) > Len(frames'[p]) /\ runs'[f.run].exit = "ok"
  BY DEF EndsOk
<1>1. /\ Depth(p) = Len(frames[p]) /\ Depth(p) \in Nat /\ Depth(p) \in 1..Len(frames[p])
      /\ Fine(f, tables) /\ f \in Frame /\ f = frames[p][Depth(p)]
  BY <1>0, TopFine, TopType DEF Depth
<1>2. CASE UNCHANGED vars \/ BodyStep
  <2>1. Len(frames'[p]) = Len(frames[p])
    BY <1>2 DEF BodyStep, SameShape, vars
  <2>2. FALSE
    BY <1>0, <1>1, <2>1
  <2>3. QED
    BY <2>2
<1>3. ASSUME NEW q \in Procs, NEW cmd \in Commands, Enter(q, cmd)
      PROVE  FALSE
  <2>1. frames[p] \in Seq(Frame)
    BY DEF SessionType
  <2>2. PICK g : frames' = [frames EXCEPT ![q] = Append(@, g)]
    BY <1>3 DEF Enter
  <2>3. Len(frames'[p]) = Len(frames[p]) \/ Len(frames'[p]) = Len(frames[p]) + 1
    BY <2>1, <2>2 DEF SessionType
  <2>4. QED
    BY <1>0, <1>1, <2>3
<1>4. ASSUME NEW q \in Procs, Kill(q)
      PROVE  FALSE
  <2>1. q = p
    <3>1. q # p => frames'[p] = frames[p]
      BY <1>4 DEF Kill, SessionType
    <3>2. QED
      BY <1>0, <1>1, <3>1
  <2>2. f.run \in 1..Len(runs)
    BY <1>1, OpenScripts
  <2>3. runs'[f.run] = [runs[f.run] EXCEPT !.exit = "raised"]
    BY <1>1, <1>4, <2>1, <2>2, RunsType, LenProperties DEF Kill, SessionType
  <2>4. runs'[f.run].exit = "raised"
    BY <2>2, <2>3, RunsType
  <2>5. QED
    BY <1>0, <2>4
<1>5. ASSUME NEW q \in Procs, Exit(q)
      PROVE  f.pc = "exit" /\ UNCHANGED tables
  <2>1. q = p
    <3>1. q # p => frames'[p] = frames[p]
      BY <1>5 DEF Exit, SessionType
    <3>2. QED
      BY <1>0, <1>1, <3>1
  <2>2. runs'[f.run].exit = IF raising[p] THEN "raised" ELSE "ok"
    <3>1. f.run \in 1..Len(runs)
      BY <1>1, OpenScripts
    <3>2. QED
      BY <1>0, <1>5, <2>1, <3>1, RunsType DEF Exit
  <2>3. QED
    BY <1>0, <1>5, <2>1, <2>2 DEF Exit, At
<1>6. ASSUME NEW q \in Procs,
             \/ InitializeTable(q) \/ AddFeature(q) \/ CheckMigrate(q)
             \/ CheckExists(q) \/ Query(q) \/ Fail(q)
      PROVE  FALSE
  BY <1>2, <1>6, Bodies, <1>0, <1>1 DEF BodyStep, SameShape
<1>7. QED
  BY <1>0, <1>1, <1>2, <1>3, <1>4, <1>5, <1>6 DEF Next, Step

\* A load that ended well has run its whole chain, in order, and nothing stands
\* between its queries unless another script wrote the table.
THEOREM LoadsAreWhole == Spec => LoadedWhole
<1>1. ASSUME ScriptsInv, [Next]_vars, NEW p \in Procs,
             NEW f \in {frames[p][i] : i \in DOMAIN frames[p]},
             EndsOk(p, f), f.cmd.script = "load", f.alone
      PROVE  Loaded(f, tables'[f.cmd.table].log)
  <2>1. f.pc = "exit" /\ Fine(f, tables) /\ UNCHANGED tables
    BY <1>1, EndsInExit DEF ScriptsInv
  <2>2. Written(f, Chain[f.cmd.table], tables'[f.cmd.table].log)
    BY <1>1, <2>1 DEF Fine, Whole
  <2>3. QED
    BY <2>2 DEF Written, Loaded
<1>2. ScriptsInv /\ [Next]_vars =>
         [\A p \in Procs : \A f \in {frames[p][i] : i \in DOMAIN frames[p]} :
             EndsOk(p, f) /\ f.cmd.script = "load" /\ f.alone
                 => Loaded(f, tables'[f.cmd.table].log)]_vars
  BY <1>1
<1>3. QED
  BY <1>2, ScriptsInit, ScriptsStep, PTL DEF Spec, LoadedWhole

\* A create that ended well leaves a table that exists and has its feature, whatever
\* other creates were cut off, or are under way, on the same table.
THEOREM CreatesAreReady == Spec => CreatedIsReady
<1>1. ASSUME ScriptsInv, [Next]_vars, NEW p \in Procs,
             NEW f \in {frames[p][i] : i \in DOMAIN frames[p]},
             EndsOk(p, f), f.cmd.script = "create"
      PROVE  /\ tables'[f.cmd.table].exists
             /\ f.cmd.table \in Deltas => tables'[f.cmd.table].feature
  <2>1. f.pc = "exit" /\ Fine(f, tables) /\ UNCHANGED tables
    BY <1>1, EndsInExit DEF ScriptsInv
  <2>2. QED
    BY <1>1, <2>1 DEF Fine, Ready
<1>2. ScriptsInv /\ [Next]_vars =>
         [\A p \in Procs : \A f \in {frames[p][i] : i \in DOMAIN frames[p]} :
             EndsOk(p, f) /\ f.cmd.script = "create"
                 => /\ tables'[f.cmd.table].exists
                    /\ f.cmd.table \in Deltas => tables'[f.cmd.table].feature]_vars
  BY <1>1
<1>3. QED
  BY <1>2, ScriptsInit, ScriptsStep, PTL DEF Spec, CreatedIsReady
=============================================================================
