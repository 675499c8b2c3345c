--------------------------- MODULE LoadDatesProofs ---------------------------
(***************************************************************************)
(* Theorems about LoadDates, for any scripts, names and bounds.            *)
(***************************************************************************)
EXTENDS LoadDates, FiniteSetTheorems, TLAPS

\* An upsert of a row of the right type yields rows of the right type.
LEMMA UpsertedType ==
    ASSUME NEW df \in SUBSET Row, NEW n \in Names, NEW i \in Nat, NEW s \in Nat
    PROVE  Upserted(df, n, i, s) \in SUBSET Row
BY DEF Upserted, Row

\* An upsert gives the name its load date and touches no row of another name.
LEMMA UpsertedRows ==
    ASSUME NEW df \in SUBSET Row, NEW n \in Names, NEW i \in Nat, NEW s \in Nat,
           NEW r \in Upserted(df, n, i, s)
    PROVE  IF r.name = n THEN r.start = s ELSE r \in df
<1>1. CASE RowsOf(df, n) # {}
  <2>1. PICK q \in df : r = IF q.name = n THEN [q EXCEPT !.start = s] ELSE q
    BY <1>1 DEF Upserted
  <2>2. QED
    BY <2>1 DEF Row
<1>2. CASE RowsOf(df, n) = {}
  <2>1. \A q \in df : q.name # n
    BY <1>2 DEF RowsOf
  <2>2. QED
    BY <1>2, <2>1 DEF Upserted
<1>3. QED
  BY <1>1, <1>2

\* An upsert keeps one row per name: it sets the rows of the name, or adds one
\* where there was none.
LEMMA UpsertedOneRow ==
    ASSUME NEW df \in SUBSET Row, NEW n \in Names, NEW i \in Nat, NEW s \in Nat,
           OneRowPerName(df)
    PROVE  OneRowPerName(Upserted(df, n, i, s))
<1>1. CASE RowsOf(df, n) # {}
  <2> DEFINE up(r) == IF r.name = n THEN [r EXCEPT !.start = s] ELSE r
  <2>1. \A r \in df : up(r).name = r.name
    BY DEF Row
  <2>2. Upserted(df, n, i, s) = {up(r) : r \in df}
    BY <1>1 DEF Upserted
  <2> HIDE DEF up
  <2>3. QED
    BY <2>1, <2>2 DEF OneRowPerName
<1>2. CASE RowsOf(df, n) = {}
  <2>1. \A r \in df : r.name # n
    BY <1>2 DEF RowsOf
  <2>2. Upserted(df, n, i, s) = df \cup {[id |-> i, name |-> n, start |-> s]}
    BY <1>2 DEF Upserted
  <2>3. QED
    BY <2>1, <2>2 DEF OneRowPerName
<1>3. QED
  BY <1>1, <1>2

-----------------------------------------------------------------------------
\* What one action of one script does to the types; ParkGold composes the same
\* actions, so the lemmas are about the actions and not about Next.
LEMMA EnterUpdateType ==
    ASSUME TypeOK, NEW l \in Loaders, NEW s \in Nat, EnterUpdate(l, s)
    PROVE  job' \in [Loaders -> Job]
<1>1. [NoJob EXCEPT !.pc = "read", !.start = s] \in Job
  BY DEF NoJob, Job
<1>2. QED
  BY <1>1 DEF TypeOK, EnterUpdate

\* A script starts with a load date of the right type.
LEMMA BeginType ==
    ASSUME TypeOK, NEW l \in Loaders, Begin(l)
    PROVE  TypeOK'
<1>1. job' \in [Loaders -> Job]
  BY EnterUpdateType DEF TypeOK, Begin
<1>2. clock' \in Nat
  BY DEF TypeOK, Begin
<1>3. QED
  BY <1>1, <1>2 DEF TypeOK, Begin

\* Reading, numbering, saving and crashing keep the types.
LEMMA StepType ==
    ASSUME TypeOK, NEW l \in Loaders, Step(l)
    PROVE  TypeOK'
<1> USE NameOfAssumption
<1>0. job[l] \in Job
  BY DEF TypeOK
<1>1. CASE ReadDates(l)
  BY <1>0, <1>1 DEF TypeOK, ReadDates, NoJob, Job
<1>2. CASE NextId(l)
  BY <1>0, <1>2 DEF TypeOK, NextId, Job, Row
<1>3. CASE SaveDates(l)
  <2>1. dates' \in SUBSET Row
    BY <1>0, <1>3, UpsertedType DEF TypeOK, SaveDates, Job
  <2>2. job' \in [Loaders -> Job]
    BY <1>3 DEF TypeOK, SaveDates, NoJob, Job
  <2>3. QED
    BY <1>3, <2>1, <2>2 DEF TypeOK, SaveDates
<1>4. CASE Crash(l)
  BY <1>4 DEF TypeOK, Crash, NoJob, Job
<1>5. QED
  BY <1>1, <1>2, <1>3, <1>4 DEF Step

\* So does blanking the registry.
LEMMA RecreateType ==
    ASSUME TypeOK, Recreate
    PROVE  TypeOK'
BY DEF TypeOK, Recreate

\* Type correctness: in particular ids and load dates stay natural numbers, and
\* a registry without a file has no rows.
THEOREM TypeCorrect == Spec => []TypeOK
<1>1. Init => TypeOK
  BY DEF Init, TypeOK, NoJob, Job, Row
<1>2. TypeOK /\ [Next]_vars => TypeOK'
  <2> SUFFICES ASSUME TypeOK, [Next]_vars
               PROVE  TypeOK'
    OBVIOUS
  <2>1. ASSUME NEW l \in Loaders, Begin(l)
        PROVE  TypeOK'
    BY <2>1, BeginType
  <2>2. ASSUME NEW l \in Loaders, Step(l)
        PROVE  TypeOK'
    BY <2>2, StepType
  <2>3. CASE Recreate
    BY <2>3, RecreateType
  <2>4. CASE UNCHANGED vars
    BY <2>4 DEF vars, TypeOK
  <2>5. QED
    BY <2>1, <2>2, <2>3, <2>4 DEF Next
<1>3. QED
  BY <1>1, <1>2, PTL DEF Spec

-----------------------------------------------------------------------------
\* NamesUnique is not inductive: a put writes a dataframe read long before, so
\* the dataframes in flight have to keep one row per name too.
NamesInv == /\ OneRowPerName(dates)
            /\ \A l \in Loaders : OneRowPerName(job[l].df)

\* No step of a script brings a second row for a name, in the file or in a copy.
LEMMA StepNames ==
    ASSUME TypeOK, NamesInv, NEW l \in Loaders, Step(l)
    PROVE  NamesInv'
<1> USE NameOfAssumption
<1>0. job[l] \in Job
  BY DEF TypeOK
<1>1. CASE ReadDates(l)
  BY <1>1 DEF TypeOK, NamesInv, ReadDates, NoJob, Job, OneRowPerName
<1>2. CASE NextId(l)
  BY <1>2 DEF TypeOK, NamesInv, NextId, Job
<1>3. CASE SaveDates(l)
  <2>1. OneRowPerName(dates')
    BY <1>0, <1>3, UpsertedOneRow DEF NamesInv, SaveDates, Job
  <2>2. \A k \in Loaders : OneRowPerName(job'[k].df)
    BY <1>3 DEF TypeOK, NamesInv, SaveDates, NoJob, OneRowPerName
  <2>3. QED
    BY <2>1, <2>2 DEF NamesInv
<1>4. CASE Crash(l)
  BY <1>4 DEF TypeOK, NamesInv, Crash, NoJob, OneRowPerName
<1>5. QED
  BY <1>1, <1>2, <1>3, <1>4 DEF Step

\* At first there are no rows.
LEMMA NamesInitially == Init => NamesInv
BY DEF Init, NamesInv, NoJob, OneRowPerName

\* No step of any script, and no recreate, brings a second row.
LEMMA NamesStep == TypeOK /\ NamesInv /\ [Next]_vars => NamesInv'
<1> SUFFICES ASSUME TypeOK, NamesInv, [Next]_vars
             PROVE  NamesInv'
  OBVIOUS
<1>1. ASSUME NEW l \in Loaders, Begin(l)
      PROVE  NamesInv'
  BY <1>1 DEF TypeOK, NamesInv, Begin, EnterUpdate, NoJob, OneRowPerName
<1>2. ASSUME NEW l \in Loaders, Step(l)
      PROVE  NamesInv'
  BY <1>2, StepNames
<1>3. CASE Recreate
  BY <1>3 DEF NamesInv, Recreate, OneRowPerName
<1>4. CASE UNCHANGED vars
  BY <1>4 DEF vars, NamesInv
<1>5. QED
  BY <1>1, <1>2, <1>3, <1>4 DEF Next

\* UNIQUE_CONSTRAINTS = ["name"] holds for any number of scripts that overlap
\* in any way, crash anywhere and lose each other's updates.
THEOREM UniqueNames == Spec => []NamesUnique
<1>1. NamesInv => NamesUnique
  BY DEF NamesInv, NamesUnique
<1>2. QED
  BY <1>1, NamesInitially, NamesStep, TypeCorrect, PTL DEF Spec

-----------------------------------------------------------------------------
(* One script at a time: ids are unique, and the three calls of an update  *)
(* are one step of LoadRegistry.                                           *)

\* Scripts do not overlap.  What a script in flight has read is still the file;
\* every id and load date in the file is older than its start, which is what makes
\* the id it chose a new one, and one that the clock bounds.
SerialInv ==
    /\ clock \in 1..MaxTime \/ clock = 1
    /\ \A k, l \in Loaders : job[k].pc # "idle" /\ job[l].pc # "idle" => k = l
    /\ IdsUnique
    /\ \A r \in dates : r.id \in 1..(clock - 1) /\ r.start \in 1..(clock - 1)
    /\ \A l \in Loaders : job[l].pc # "idle" =>
          /\ job[l].start \in 1..MaxTime /\ job[l].start < clock
          /\ \A r \in dates : r.id < job[l].start /\ r.start < job[l].start
          /\ job[l].pc \in {"next_id", "save"} => datesExist /\ job[l].df = dates
          /\ job[l].pc = "next_id" => RowsOf(dates, NameOf[l]) = {}
          /\ job[l].pc = "save" /\ RowsOf(dates, NameOf[l]) = {} =>
                /\ job[l].newId \in 1..job[l].start
                /\ \A r \in dates : r.id # job[l].newId

\* With a bound of one script, another one or a recreate waits until none is left.
LEMMA NobodyBusy ==
    ASSUME TypeOK, SerialInv, MaxInFlight <= 1, Cardinality(Busy) < MaxInFlight
    PROVE  \A l \in Loaders : job[l].pc = "idle"
<1> SUFFICES ASSUME NEW l \in Loaders, job[l].pc # "idle"
             PROVE  FALSE
  OBVIOUS
<1>1. Busy = {l}
  BY DEF Busy, SerialInv
<1>2. Cardinality(Busy) = 1
  BY <1>1, FS_Singleton
<1>3. QED
  BY <1>2, BoundsAssumption

\* No two rows share an id; an id that no row has, if there is a new row for n.
OwnIds(rows) == \A q, r \in rows : q.id = r.id => q = r

NewFor(rows, n, i) == RowsOf(rows, n) = {} => \A r \in rows : r.id # i

\* An upsert of the file that was read keeps ids apart: an old row keeps its own,
\* a new one has an id that none had.
LEMMA UpsertedIds ==
    ASSUME NEW df \in SUBSET Row, NEW n \in Names, NEW i \in Nat, NEW s \in Nat,
           OwnIds(df), NewFor(df, n, i)
    PROVE  OwnIds(Upserted(df, n, i, s))
<1>1. CASE RowsOf(df, n) # {}
  <2> DEFINE up(r) == IF r.name = n THEN [r EXCEPT !.start = s] ELSE r
  <2>1. \A r \in df : up(r).id = r.id
    BY DEF Row
  <2>2. Upserted(df, n, i, s) = {up(r) : r \in df}
    BY <1>1 DEF Upserted
  <2> HIDE DEF up
  <2>3. QED
    BY <2>1, <2>2 DEF OwnIds
<1>2. CASE RowsOf(df, n) = {}
  <2>1. Upserted(df, n, i, s) = df \cup {[id |-> i, name |-> n, start |-> s]}
    BY <1>2 DEF Upserted
  <2>2. QED
    BY <1>2, <2>1 DEF OwnIds, NewFor
<1>3. QED
  BY <1>1, <1>2

\* Ids and load dates are bounded by b.
Below(rows, b) == \A r \in rows : r.id \in 1..b /\ r.start \in 1..b

\* An upsert keeps the bound.
LEMMA UpsertedBelow ==
    ASSUME NEW df \in SUBSET Row, NEW n \in Names, NEW i \in Nat, NEW b \in Nat,
           NEW s \in 1..b, Below(df, b), RowsOf(df, n) = {} => i \in 1..b
    PROVE  Below(Upserted(df, n, i, s), b)
<1>1. CASE RowsOf(df, n) # {}
  <2> DEFINE up(r) == IF r.name = n THEN [r EXCEPT !.start = s] ELSE r
  <2>1. \A r \in df : up(r).id = r.id /\ up(r).start \in {r.start, s}
    BY DEF Row
  <2>2. Upserted(df, n, i, s) = {up(r) : r \in df}
    BY <1>1 DEF Upserted
  <2> HIDE DEF up
  <2>3. QED
    BY <2>1, <2>2 DEF Below
<1>2. CASE RowsOf(df, n) = {}
  BY <1>2 DEF Upserted, Below
<1>3. QED
  BY <1>1, <1>2

\* One step of the script in flight.
LEMMA SerialStep ==
    ASSUME TypeOK, SerialInv, NEW l \in Loaders, Step(l)
    PROVE  SerialInv'
<1> USE NameOfAssumption
<1>0. job[l] \in Job /\ job[l].pc # "idle" /\ \A k \in Loaders \ {l} : job[k].pc = "idle"
  BY DEF TypeOK, SerialInv, Step, ReadDates, NextId, SaveDates, Crash
<1>1. CASE ReadDates(l)
  BY <1>0, <1>1 DEF TypeOK, SerialInv, ReadDates, NoJob, Job, IdsUnique
<1>2. CASE NextId(l)
  <2>1. PICK i \in Nat : job' = [job EXCEPT ![l].pc = "save", ![l].newId = i]
                         /\ i \in 1..job[l].start /\ \A r \in dates : r.id # i
    <3>1. CASE dates = {} /\ job' = [job EXCEPT ![l].pc = "save", ![l].newId = 1]
      <4>1. 1 \in 1..job[l].start
        BY <1>0, BoundsAssumption DEF SerialInv
      <4>2. QED
        BY <3>1, <4>1
    <3>2. ASSUME NEW r \in dates, \A q \in dates : q.id <= r.id,
                 job' = [job EXCEPT ![l].pc = "save", ![l].newId = r.id + 1]
          PROVE  \E i \in Nat : job' = [job EXCEPT ![l].pc = "save", ![l].newId = i]
                                /\ i \in 1..job[l].start /\ \A q \in dates : q.id # i
      <4>1. r.id \in Nat /\ r.id < job[l].start /\ job[l].start \in Nat
        BY <1>0 DEF TypeOK, SerialInv, Job, Row
      <4>2. \A q \in dates : q.id \in Nat
        BY DEF TypeOK, Row
      <4>3. r.id + 1 \in Nat /\ r.id + 1 \in 1..job[l].start /\ \A q \in dates : q.id # r.id + 1
        BY <3>2, <4>1, <4>2
      <4>4. QED
        BY <3>2, <4>3
    <3>3. QED
      BY <1>2, <3>1, <3>2 DEF NextId
  <2>2. UNCHANGED <<datesExist, dates, clock>> /\ job[l].pc = "next_id"
    BY <1>2 DEF NextId
  <2>3. QED
    BY <1>0, <2>1, <2>2 DEF TypeOK, SerialInv, Job, IdsUnique
<1>3. CASE SaveDates(l)
  <2> DEFINE n == NameOf[l]
             i == job[l].newId
             s == job[l].start
  <2>1. /\ dates \in SUBSET Row /\ n \in Names /\ i \in Nat /\ s \in Nat
        /\ job[l].df = dates /\ dates' = Upserted(dates, n, i, s)
        /\ job' = [job EXCEPT ![l] = NoJob] /\ clock' = clock
    BY <1>0, <1>3 DEF TypeOK, SerialInv, SaveDates, Job
  <2>2. /\ s \in 1..(clock - 1) /\ clock \in Nat
        /\ RowsOf(dates, n) = {} => i \in 1..s /\ \A r \in dates : r.id # i
    BY <1>0, <1>3 DEF TypeOK, SerialInv, SaveDates, Job
  <2>3. OwnIds(dates) /\ NewFor(dates, n, i)
    BY <2>2 DEF SerialInv, IdsUnique, OwnIds, NewFor
  <2>4. \A r \in dates : r.id \in 1..(clock - 1) /\ r.start \in 1..(clock - 1)
    BY DEF SerialInv
  <2> HIDE DEF n, i, s
  <2>5. IdsUnique'
    <3>1. OwnIds(Upserted(dates, n, i, s))
      BY <2>1, <2>3, UpsertedIds
    <3>2. QED
      BY <2>1, <3>1 DEF IdsUnique, OwnIds
  <2>6. Below(dates', clock - 1)
    <3>1. clock - 1 \in Nat /\ Below(dates, clock - 1)
      BY <2>2, <2>4 DEF Below
    <3>2. RowsOf(dates, n) = {} => i \in 1..(clock - 1)
      BY <2>2
    <3>3. QED
      BY <2>1, <2>2, <3>1, <3>2, UpsertedBelow
  <2>7. \A k \in Loaders : job'[k].pc = "idle"
    BY <1>0, <2>1 DEF TypeOK, NoJob
  <2>8. QED
    BY <2>1, <2>5, <2>6, <2>7 DEF SerialInv, Below
<1>4. CASE Crash(l)
  BY <1>0, <1>4 DEF TypeOK, SerialInv, Crash, NoJob, IdsUnique
<1>5. QED
  BY <1>1, <1>2, <1>3, <1>4 DEF Step

\* Every step keeps scripts apart and what they have read valid.
LEMMA SerialNext ==
    ASSUME MaxInFlight <= 1
    PROVE  TypeOK /\ SerialInv /\ [Next]_vars => SerialInv'
<1> SUFFICES ASSUME TypeOK, SerialInv, [Next]_vars
             PROVE  SerialInv'
  OBVIOUS
<1>1. ASSUME NEW l \in Loaders, Begin(l)
      PROVE  SerialInv'
  <2>1. \A k \in Loaders : job[k].pc = "idle"
    BY <1>1, NobodyBusy DEF Begin
  <2>2. /\ clock \in Nat \ {0} /\ clock < MaxTime /\ clock' = clock + 1
        /\ UNCHANGED <<datesExist, dates>>
        /\ job' = [job EXCEPT ![l] = [NoJob EXCEPT !.pc = "read", !.start = clock]]
    BY <1>1 DEF Begin, EnterUpdate, TypeOK, SerialInv
  <2>3. /\ job'[l] = [NoJob EXCEPT !.pc = "read", !.start = clock]
        /\ \A k \in Loaders \ {l} : job'[k].pc = "idle"
    BY <2>1, <2>2 DEF TypeOK
  <2>4. job'[l].pc = "read" /\ job'[l].start = clock
    BY <2>3 DEF NoJob
  <2>5. MaxTime \in Nat
    BY BoundsAssumption
  <2>6. QED
    BY <2>2, <2>3, <2>4, <2>5 DEF SerialInv, IdsUnique
<1>2. ASSUME NEW l \in Loaders, Step(l)
      PROVE  SerialInv'
  BY <1>2, SerialStep
<1>3. CASE Recreate
  <2>1. \A k \in Loaders : job[k].pc = "idle"
    BY <1>3, NobodyBusy DEF Recreate
  <2>2. QED
    BY <1>3, <2>1 DEF Recreate, SerialInv, IdsUnique
<1>4. CASE UNCHANGED vars
  BY <1>4 DEF vars, SerialInv, IdsUnique
<1>5. QED
  BY <1>1, <1>2, <1>3, <1>4 DEF Next

\* At first there are no rows and no script.
LEMMA SerialInit == Init => SerialInv
BY DEF Init, SerialInv, NoJob, IdsUnique

\* PK = "external_data_load_date_id": as long as scripts run one after the other,
\* no two rows get the same id, wherever a script is killed; next_id reads the file
\* a second time, and it is still the one the dataframe holds.
THEOREM SerialIds ==
    ASSUME MaxInFlight <= 1
    PROVE  Spec => []IdsUnique
<1>1. SerialInv => IdsUnique
  BY DEF SerialInv
<1>2. QED
  BY <1>1, SerialInit, SerialNext, TypeCorrect, PTL DEF Spec

-----------------------------------------------------------------------------
\* The table that a set of rows stands for.
TableOf(rows) == [n \in {r.name : r \in rows} |->
                     LET r == CHOOSE r \in rows : r.name = n
                     IN  [id |-> r.id, start |-> r.start]]

\* With one row per name the table has that row.
LEMMA TableRow ==
    ASSUME NEW rows, OneRowPerName(rows), NEW q \in rows
    PROVE  /\ q.name \in DOMAIN TableOf(rows)
           /\ TableOf(rows)[q.name] = [id |-> q.id, start |-> q.start]
<1> DEFINE c == CHOOSE r \in rows : r.name = q.name
<1>1. c \in rows /\ c.name = q.name
  OBVIOUS
<1>2. c = q
  BY <1>1 DEF OneRowPerName
<1>3. q.name \in {r.name : r \in rows}
  OBVIOUS
<1>4. QED
  BY <1>2, <1>3 DEF TableOf

\* The table with a load date for n, and the id that goes with it.
TableWith(rows, n, i, s) ==
    [m \in DOMAIN TableOf(rows) \cup {n} |->
        IF m = n THEN [id |-> i, start |-> s] ELSE TableOf(rows)[m]]

IdFor(rows, n, i) == IF RowsOf(rows, n) = {} THEN i ELSE TableOf(rows)[n].id

\* The upsert of the rows is the upsert of the table.
LEMMA UpsertedTable ==
    ASSUME NEW df \in SUBSET Row, NEW n \in Names, NEW i \in Nat, NEW s \in Nat,
           OneRowPerName(df)
    PROVE  TableOf(Upserted(df, n, i, s)) = TableWith(df, n, IdFor(df, n, i), s)
<1> DEFINE j == IdFor(df, n, i)
           rows == Upserted(df, n, i, s)
           target == TableWith(df, n, j, s)
<1>1. OneRowPerName(rows)
  BY UpsertedOneRow
<1>2. ASSUME NEW q \in df, q.name # n
      PROVE  q \in rows
  BY <1>2 DEF Upserted
<1>3. \E q \in rows : q.name = n /\ q.id = j /\ q.start = s
  <2>1. CASE RowsOf(df, n) = {}
    <3>1. [id |-> i, name |-> n, start |-> s] \in rows /\ j = i
      BY <2>1 DEF Upserted, IdFor
    <3>2. QED
      BY <3>1
  <2>2. CASE RowsOf(df, n) # {}
    <3>1. PICK q \in df : q.name = n
      BY <2>2 DEF RowsOf
    <3>2. [q EXCEPT !.start = s] \in rows
      BY <2>2, <3>1 DEF Upserted
    <3>3. j = q.id
      <4>1. TableOf(df)[n] = [id |-> q.id, start |-> q.start]
        BY <3>1, TableRow
      <4>2. QED
        BY <2>2, <4>1 DEF IdFor
    <3>4. QED
      BY <3>1, <3>2, <3>3 DEF Row
  <2>3. QED
    BY <2>1, <2>2
<1>4. \A r \in rows : r.name = n \/ r \in df
  BY UpsertedRows
<1>5. {r.name : r \in rows} = {r.name : r \in df} \cup {n}
  BY <1>2, <1>3, <1>4
<1>6. DOMAIN TableOf(rows) = DOMAIN target
  BY <1>5 DEF TableOf, TableWith
<1> HIDE DEF rows, j
<1>7. ASSUME NEW m \in DOMAIN target
      PROVE  TableOf(rows)[m] = target[m]
  <2>1. CASE m = n
    BY <1>1, <1>3, <2>1, TableRow DEF TableWith
  <2>2. CASE m # n
    <3>1. PICK q \in df : q.name = m
      BY <2>2 DEF TableOf, TableWith
    <3>2. TableOf(df)[m] = [id |-> q.id, start |-> q.start]
      BY <3>1, TableRow
    <3>3. TableOf(rows)[m] = [id |-> q.id, start |-> q.start]
      BY <1>1, <1>2, <2>2, <3>1, TableRow
    <3>4. QED
      BY <2>2, <3>2, <3>3 DEF TableWith
  <2>3. QED
    BY <2>1, <2>2
<1>8. TableOf(rows) = target
  <2>1. TableOf(rows) = [m \in DOMAIN TableOf(rows) |-> TableOf(rows)[m]]
    BY DEF TableOf
  <2>2. QED
    BY <1>6, <1>7, <2>1 DEF TableWith
<1>9. QED
  BY <1>8 DEF rows, j

\* The put is the upsert of LoadRegistry.
LEMMA SaveIsUpsert ==
    ASSUME TypeOK, NamesInv, SerialInv, NEW l \in Loaders, SaveDates(l)
    PROVE  Registry!Next
<1> USE NameOfAssumption
<1> DEFINE n == NameOf[l]
           s == job[l].start
           i == job[l].newId
           j == IdFor(dates, n, i)
<1>1. /\ dates \in SUBSET Row /\ n \in Names /\ i \in Nat /\ s \in Nat
      /\ job[l].df = dates /\ dates' = Upserted(dates, n, i, s)
      /\ datesExist /\ datesExist' = TRUE
  BY DEF TypeOK, SerialInv, SaveDates, Job
<1>2. /\ s \in 1..MaxTime /\ OneRowPerName(dates)
      /\ \A r \in dates : r.id \in 1..MaxTime /\ r.start < s
  <2>1. /\ s \in 1..MaxTime /\ s < clock /\ clock \in Nat
        /\ \A r \in dates : r.id \in 1..(clock - 1) /\ r.id < s /\ r.start < s
    BY DEF TypeOK, SerialInv, SaveDates
  <2> HIDE DEF s
  <2>2. \A r \in dates : r.id \in 1..MaxTime
    BY <2>1, BoundsAssumption
  <2>3. QED
    BY <2>1, <2>2 DEF NamesInv
<1>3. RowsOf(dates, n) = {} => i \in 1..s /\ \A r \in dates : r.id # i
  BY DEF SerialInv, SaveDates
<1>4. Table = TableOf(dates) /\ Table' = TableOf(dates')
  BY DEF Table, TableOf
<1> HIDE DEF n, s, i
<1>5. /\ n \in DOMAIN Table <=> RowsOf(dates, n) # {}
      /\ DOMAIN Table = {r.name : r \in dates}
  BY <1>4 DEF TableOf, RowsOf
<1>6. j \in 1..MaxTime
  <2>1. CASE RowsOf(dates, n) = {}
    BY <1>2, <1>3, <2>1, BoundsAssumption DEF IdFor
  <2>2. CASE RowsOf(dates, n) # {}
    <3>1. PICK q \in dates : q.name = n
      BY <2>2 DEF RowsOf
    <3>2. j = q.id
      <4>1. TableOf(dates)[n] = [id |-> q.id, start |-> q.start]
        BY <1>2, <3>1, TableRow
      <4>2. QED
        BY <2>2, <4>1 DEF IdFor
    <3>3. QED
      BY <1>2, <3>2
  <2>3. QED
    BY <2>1, <2>2
<1>7. IF n \in DOMAIN Table
      THEN j = Table[n].id /\ Table[n].start < s
      ELSE \A m \in DOMAIN Table : Table[m].id # j
  <2>1. CASE RowsOf(dates, n) # {}
    <3>1. PICK q \in dates : q.name = n
      BY <2>1 DEF RowsOf
    <3>2. Table[n] = [id |-> q.id, start |-> q.start]
      BY <1>2, <1>4, <3>1, TableRow
    <3>3. j = Table[n].id
      BY <1>4, <2>1 DEF IdFor
    <3>4. Table[n].start < s
      BY <1>2, <3>2
    <3>5. QED
      BY <1>5, <2>1, <3>3, <3>4
  <2>2. CASE RowsOf(dates, n) = {}
    <3>1. ASSUME NEW m \in DOMAIN Table
          PROVE  Table[m].id # j
      <4>1. PICK q \in dates : q.name = m
        BY <1>5
      <4>2. Table[m] = [id |-> q.id, start |-> q.start]
        BY <1>2, <1>4, <4>1, TableRow
      <4>3. QED
        BY <1>3, <2>2, <4>2 DEF IdFor
    <3>2. QED
      BY <1>5, <2>2, <3>1
  <2>3. QED
    BY <2>1, <2>2
<1>8. Table' = [m \in DOMAIN Table \cup {n} |->
                   IF m = n THEN [id |-> j, start |-> s] ELSE Table[m]]
  <2>1. TableOf(dates') = TableWith(dates, n, j, s)
    BY <1>1, <1>2, UpsertedTable
  <2>2. QED
    BY <1>4, <2>1 DEF TableWith
<1> HIDE DEF j
<1>9. Registry!Upsert(n, j, s)
  BY <1>1, <1>7, <1>8 DEF Registry!Upsert
<1>10. QED
  BY <1>1, <1>2, <1>6, <1>9 DEF Registry!Next

\* Scripts that run one after the other implement LoadRegistry: the reads, the
\* kills and the lost scripts are invisible, and the put is one atomic upsert with
\* the old id or a fresh one and a later load date.
THEOREM SerialUpdatesAreAtomic ==
    ASSUME MaxInFlight <= 1
    PROVE  Spec => ImplementsRegistry
<1>1. Init => Registry!Init
  <2> SUFFICES ASSUME Init PROVE Registry!Init
    OBVIOUS
  <2>1. {r.name : r \in dates} = {}
    BY DEF Init
  <2>2. Table = [n \in {} |-> [id |-> 0, start |-> 0]]
    BY <2>1 DEF Table
  <2>3. QED
    BY <2>2 DEF Init, Registry!Init
<1>2. TypeOK /\ NamesInv /\ SerialInv /\ [Next]_vars => [Registry!Next]_(Registry!vars)
  <2> SUFFICES ASSUME TypeOK, NamesInv, SerialInv, [Next]_vars
               PROVE  Registry!Next \/ UNCHANGED Registry!vars
    OBVIOUS
  <2>1. ASSUME UNCHANGED <<datesExist, dates>>
        PROVE  UNCHANGED Registry!vars
    BY <2>1 DEF Registry!vars, Table
  <2>2. ASSUME NEW l \in Loaders, Begin(l)
        PROVE  UNCHANGED Registry!vars
    BY <2>1, <2>2 DEF Begin
  <2>3. ASSUME NEW l \in Loaders, Step(l)
        PROVE  Registry!Next \/ UNCHANGED Registry!vars
    BY <2>1, <2>3, SaveIsUpsert DEF Step, ReadDates, NextId, Crash
  <2>4. CASE Recreate
    <3>1. {r.name : r \in dates'} = {} /\ datesExist' = TRUE
      BY <2>4 DEF Recreate
    <3>2. Table' = [n \in {} |-> [id |-> 0, start |-> 0]]
      BY <3>1 DEF Table
    <3>3. QED
      BY <3>1, <3>2 DEF Registry!Recreate, Registry!Next
  <2>5. CASE UNCHANGED vars
    BY <2>1, <2>5 DEF vars
  <2>6. QED
    BY <2>2, <2>3, <2>4, <2>5 DEF Next
<1>3. QED
  BY <1>1, <1>2, SerialInit, SerialNext, TypeCorrect, NamesInitially, NamesStep, PTL
     DEF Spec, ImplementsRegistry, Registry!Spec
=============================================================================
