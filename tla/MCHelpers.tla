------------------------------ MODULE MCHelpers -------------------------------
EXTENDS Helpers

\* Every budget get_with_exception_hand accepts, and one it refuses on either side.
AnyBudget == -1..13

\* No attempt, one and some more.
AnyRetryCount == {-1, 0, 2}

\* Tables of two kinds of rows that are around the threshold.
AroundThreshold == {[i \in 1..(m + n) |-> IF i <= m THEN most ELSE some] :
                       most \in UncleanRow, some \in UncleanRow,
                       m \in {0, 98, 99, 100}, n \in 0..2}

\* Three texts; the third is the first with "nan" in it.
WithNan == <<1, 2, 1>>

\* Tables of up to three rows to compare.
ShortTables == SeqOf([key : 1..2, text : 1..3], 3)

\* Raw DEFC tables of up to three rows, with a title of two laws, one of one law
\* and one of none.
DatesOf == [both |-> {<<0, 0>>, <<0, 1>>, <<2, 1>>}, one |-> {<<0>>, <<1>>}, none |-> {<<>>}]
RawRows == UNION {[code : {"A", "B", "C", "9"}, title : {t}, dates : DatesOf[t]] :
                     t \in DOMAIN DatesOf}
ShortRaw == SeqOf(RawRows, 3)

\* A code may be in two groups, in one or in none; one mapping lacks covid_19.
FewGroups ==
    {<<[name |-> "covid_19", codes |-> c], [name |-> "infrastructure", codes |-> i]>> :
        c, i \in SUBSET {"A"}}
      \cup {<<[name |-> "infrastructure", codes |-> {"A"}]>>}
=============================================================================
