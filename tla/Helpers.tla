------------------------------- MODULE Helpers --------------------------------
(***************************************************************************)
(* A call of one function of helpers/: the retried GET of RetryGet, an S3  *)
(* helper of S3Helpers, or a pure function of GenericHelpers or RowHelpers *)
(* on any of its arguments.  The helpers share no state, so a behaviour is *)
(* a call of one of them.                                                  *)
(***************************************************************************)
EXTENDS RetryGet, S3Helpers, GenericHelpers, RowHelpers

CONSTANTS MaxLength, \* bound: the length of a list
          MaxStep,   \* bound: the size of a step or a batch
          Unclean,   \* the tables to clean
          Normal,    \* the text without "nan", "NaT" and blanks around it, for each text
          Tables,    \* the tables to compare
          RawTables, \* the raw DEFC tables
          Groups     \* the group mappings, in the order of the names

ASSUME SizesAssumption == {MaxLength, MaxStep} \subseteq Nat

VARIABLES user,   \* which helper is called: "http", "s3" or "pure"
          args,   \* the pure function and its arguments
          result, \* what it returned, as a sequence
          ended   \* "none", then "returned" or what it raised

purevars == <<args, result, ended>>
hvars == <<vars, s3vars, user, purevars>>

-----------------------------------------------------------------------------
(* The arguments of the pure functions.                                    *)

Lists == {[i \in 1..n |-> i] : n \in 0..MaxLength}

\* A row to clean, to compare, of the raw DEFC table, and of a group mapping.
UncleanRow == [code : {Null, "blank", "short", "full"}, rest : {Null, "text"}]
TableRow == [key : Int, text : DOMAIN Normal]
RawRow == [code : STRING, title : STRING, dates : Seq(Nat)]
Group == [name : STRING, codes : SUBSET STRING]

ASSUME TablesAssumption ==
    /\ Unclean \subseteq Seq(UncleanRow)
    /\ Tables \subseteq Seq(TableRow)
    /\ RawTables \subseteq Seq(RawRow)
    /\ Groups \subseteq Seq(Group)

Years == {999, 1000, 1900, 2000, 2023, 2024, 9999, 10000}

Arguments ==
    \/ args \in [fn : {"period"}, year : Years, period : 0..13]
    \/ args \in [fn : {"step"}, length : 0..MaxLength, start : -1..MaxLength,
                 direction : -MaxStep..MaxStep, include_start : BOOLEAN]
    \/ args \in [fn : {"batch"}, list : Lists, n : -1..MaxStep]
    \/ args \in [fn : {"clean"}, data : Unclean, columns : BOOLEAN, required : BOOLEAN,
                 options : {"none", "pad", "pad_keep_null"}, return_dropped : BOOLEAN]
    \/ args \in [fn : {"diff"}, new : Tables, current : Tables]
    \/ args \in [fn : {"defc"}, raw : RawTables, groups : Groups]

-----------------------------------------------------------------------------
(* The calls.                                                              *)

\* How the helpers look that are not called.
NoGet == /\ pc = "start" /\ max_retries = (CHOOSE b \in Budgets : TRUE)
         /\ current_retries = 0 /\ request_timeout = 60 /\ calls = 0
         /\ answer = "none" /\ outcome = "none"
NoS3 == bucket = [k \in Keys |-> Missing] /\ S3Start([fn |-> "list"])
NoPure == args = [fn |-> "batch", list |-> <<>>, n |-> 1]

HInit == /\ \/ user = "http" /\ Init /\ NoS3 /\ NoPure
            \/ user = "s3" /\ NoGet /\ S3Init /\ NoPure
            \/ user = "pure" /\ NoGet /\ NoS3 /\ Arguments
         /\ result = <<>> /\ ended = "none"

Return(value) == result' = value /\ ended' = "returned"
Raise(error) == ended' = error /\ UNCHANGED result

CallPeriod ==
    /\ args.fn = "period"
    /\ IF ValidPeriod(args.year, args.period)
       THEN Return(<<PeriodStart(args.year, args.period), PeriodEnd(args.year, args.period)>>)
       ELSE Raise("ValueError")

CallStep ==
    /\ args.fn = "step"
    /\ IF args.start \in 0..(args.length - 1)
       THEN Return(Steps(args.length, args.start, args.direction, args.include_start))
       ELSE Raise("IndexError")

CallBatch ==
    /\ args.fn = "batch"
    /\ IF args.n # 0 THEN Return(Batch(args.list, args.n)) ELSE Raise("ValueError")

\* The number of dropped rows comes with the table only if there are some; columns
\* says whether the table has those of field_map.
CallClean ==
    /\ args.fn = "clean"
    /\ LET rows == CleanRows(args.data, args.options, args.required)
           dropped == Dropped(args.data, args.options, args.required)
       IN  CASE ~args.columns -> Raise("ValueError")
             [] args.columns /\ ThresholdExceeded(args.data, args.options, args.required) ->
                    Raise("FailureThresholdExceededError")
             [] OTHER -> Return(IF args.return_dropped /\ dropped # {}
                                THEN <<Cardinality(dropped), rows>> ELSE <<rows>>)

CallDiff ==
    /\ args.fn = "diff"
    /\ \E orders \in OrderPairs(args.new, args.current) :
          Return(<<Differ(args.new, args.current, orders, Normal)>>)

CallDefc ==
    /\ args.fn = "defc"
    /\ IF HasCovidGroup(args.groups)
       THEN Return(<<DefcRows(args.raw, args.groups)>>)
       ELSE Raise("KeyError")

Pure == /\ user = "pure" /\ ended = "none"
        /\ CallPeriod \/ CallStep \/ CallBatch \/ CallClean \/ CallDiff \/ CallDefc
        /\ UNCHANGED <<vars, s3vars, user, args>>

Get == user = "http" /\ Next /\ UNCHANGED <<s3vars, user, purevars>>

S3Request == user = "s3" /\ S3Step /\ UNCHANGED <<vars, user, purevars>>

S3Others == user = "s3" /\ (Put \/ S3Kill) /\ UNCHANGED <<vars, user, purevars>>

HNext == Get \/ S3Request \/ S3Others \/ Pure

\* The requests of the helpers have timeouts, so that each comes to an end.
HSpec == HInit /\ [][HNext]_hvars /\ WF_hvars(Get) /\ WF_hvars(S3Request) /\ WF_hvars(Pure)

-----------------------------------------------------------------------------
(* Properties.                                                             *)

\* Every call comes to an end: the loop of get_with_exception_hand (scripts.py:68),
\* the attempts of a download (aws.py:222), the pages of a listing while another
\* process goes on writing.
CallEnds == <>(\/ user = "http" /\ pc = "done"
               \/ user = "s3" /\ step = "done"
               \/ user = "pure" /\ ended # "none")

\* fy_period_calendar_dates (generic.py:57): both dates lie in the fiscal year that
\* fy gives them, and the day after the period is the first of the next one.
PeriodsJoin ==
    args.fn = "period" /\ ended = "returned" =>
        /\ Fy(result[1]) = args.year /\ Fy(result[2]) = args.year
        /\ args.period < 12 =>
              NextDay(result[2]) = PeriodStart(args.year, args.period + 1)

\* The docstring of step (generic.py:145): the elements from start on, or from the
\* one next to it, in the direction and as many as it says, each with its index;
\* at either end of the list it stops.
StepsClip ==
    args.fn = "step" /\ ended = "returned" =>
        LET sign == Sign(args.direction)
            first == IF args.include_start THEN args.start ELSE args.start + sign
            wanted == [k \in 1..(sign * args.direction) |-> first + sign * (k - 1)]
            inside == {k \in DOMAIN wanted : wanted[k] \in 0..(args.length - 1)}
        IN  /\ Len(result) = Cardinality(inside)
            /\ \A k \in DOMAIN result : result[k] = <<wanted[k], wanted[k]>>

\* batch (generic.py:130) splits the list: nothing is lost or moved, and only the
\* last batch is shorter than n.
BatchesCover ==
    args.fn = "batch" /\ args.n > 0 /\ ended = "returned" =>
        /\ FlattenSeq(result) = args.list
        /\ \A i \in DOMAIN result :
              /\ Len(result[i]) \in 1..args.n
              /\ i < Len(result) => Len(result[i]) = args.n

\* The functions of generic.py have no error at the ends of a year or of a list.
GenericEnds == PeriodsJoin /\ StepsClip /\ BatchesCover

\* clean_data (scripts.py:211): no row without its required value gets into a gold
\* table, not even by way of the padding; every other row that has a value does,
\* under its index; "fail the routine" happens exactly when these are none, or less
\* than 99 of 100.
CleanExact ==
    LET HasValue(row) == row # [code |-> Null, rest |-> Null]
        Lacks(row) == row.code \notin {"short", "full"}
        all == {i \in DOMAIN args.data : HasValue(args.data[i])}
        good == {i \in all : ~(args.required /\ Lacks(args.data[i]))}
        rows == result[Len(result)]
    IN  args.fn = "clean" /\ args.columns =>
            /\ ended = "FailureThresholdExceededError" =>
                   good = {} \/ 100 * Cardinality(good) < 99 * Cardinality(all)
            /\ ended = "returned" =>
                   /\ good # {} /\ 100 * Cardinality(good) >= 99 * Cardinality(all)
                   /\ DOMAIN rows = good
                   /\ args.required => \A i \in good : ~Lacks(rows[i])
                   /\ Len(result) = 2 => result[1] = Cardinality(all) - Cardinality(good)
                   /\ args.return_dropped /\ Len(result) = 1 => all = good

\* The rows of a table with their numbers, whatever their order.
RowCounts(table) ==
    LET rows == Normalized(table, Normal)
    IN  {<<row, Cardinality({i \in DOMAIN rows : rows[i] = row})>> : row \in Range(rows)}

UniqueKeys(table) == IsInjective(KeyColumn(table))

\* The loaders skip a load on the word of check_dataframe_diff (pandas.py:16): it
\* finds no difference in unchanged data, whatever order ties are sorted in, and
\* misses none but in "nan", blanks and the order of the rows; that order makes a
\* difference only among rows with the same sort column.
DiffExact ==
    args.fn = "diff" /\ ended = "returned" =>
        /\ args.new = args.current => result = <<FALSE>>
        /\ result = <<FALSE>> => RowCounts(args.new) = RowCounts(args.current)
        /\ /\ UniqueKeys(args.new) /\ UniqueKeys(args.current)
           /\ RowCounts(args.new) = RowCounts(args.current)
           => result = <<FALSE>>

\* UNIQUE_CONSTRAINTS = ["code"] of the gold table (reference.py:152), which
\* nothing enforces: a code is there twice exactly if the raw table has a code or,
\* although titles are no key, a title twice, or the code of a row the script adds.
\* In any case the merge loses no code, invents none, and leaves each its own date.
DefcCodesUnique ==
    args.fn = "defc" /\ ended = "returned" =>
        LET rows == result[1]
            raw == args.raw
            codes == [i \in DOMAIN raw |-> raw[i].code]
        IN  /\ IsInjective([at \in DOMAIN rows |-> rows[at].code])
                  <=> /\ IsInjective([i \in DOMAIN raw |-> raw[i].title])
                      /\ IsInjective(codes)
                      /\ Range(codes) \cap Range(Outliers) = {}
            /\ {rows[at].code : at \in DOMAIN rows} = Range(codes) \cup Range(Outliers)
            /\ \A i \in DOMAIN raw :
                  \E at \in DOMAIN rows : /\ rows[at].code = raw[i].code
                                          /\ rows[at].date = Earliest(raw[i])
=============================================================================
