------------------------------ MODULE RowHelpers ------------------------------
(***************************************************************************)
(* What the loaders do to the rows of a table: clean_data,                 *)
(* check_dataframe_diff and the derivations of the DEFC loader.  A table   *)
(* is a function from its index to its rows, as a dataframe is.            *)
(***************************************************************************)
EXTENDS Integers, Sequences, SequencesExt, FiniteSets, FiniteSetsExt

-----------------------------------------------------------------------------
(* clean_data.  A row is a code, which may be required and padded, and the *)
(* rest; "short" is the code that padding makes "full".                    *)

Null == "null"

\* The index of raw_df: the rows that are not all nulls.
NotNull(data) == {i \in DOMAIN data : data[i] # [code |-> Null, rest |-> Null]}

\* Cells are trimmed, and what is blank then is a null.
Cell(value) == IF value = "blank" THEN Null ELSE value

\* apply_options; a null that keep_null does not keep is filled with zeros.
Padded(value, options) == CASE options = "none" -> value
                            [] value = "short" -> "full"
                            [] value = Null /\ options = "pad" -> "zeros"
                            [] OTHER -> value

\* Mutant of Kept: the required values are checked after the padding.
KeptPadded(data, options, required) ==
    {i \in NotNull(data) : required => Padded(Cell(data[i].code), options) # Null}

\* required_values_check
Kept(data, options, required) ==
    {i \in NotNull(data) : required => Cell(data[i].code) # Null}

Dropped(data, options, required) == NotNull(data) \ Kept(data, options, required)

\* FAILURE_THRESHOLD_PERCENTAGE is 0.01.
ThresholdExceeded(data, options, required) ==
    \/ Kept(data, options, required) = {}
    \/ Cardinality(Dropped(data, options, required)) * 100 > Cardinality(NotNull(data))

\* The rows that are left keep their index.
CleanRows(data, options, required) ==
    [i \in Kept(data, options, required) |->
        [code |-> Padded(Cell(data[i].code), options), rest |-> Cell(data[i].rest)]]

-----------------------------------------------------------------------------
(* check_dataframe_diff.  A row is the text of its sort column, a number,  *)
(* and the text of the others; normal maps the latter to the text without  *)
(* "nan" and "NaT" in it and blanks around it.                             *)

Normalized(table, normal) ==
    [i \in DOMAIN table |-> [key |-> table[i].key, text |-> normal[table[i].text]]]

\* sort_values by one column may put rows of equal keys in any order, but rows
\* with the same sequence of keys are put in the same one.
Orders(table) ==
    {p \in Bijection(DOMAIN table, DOMAIN table) :
        \A i, j \in DOMAIN table : i < j => table[p[i]].key <= table[p[j]].key}

KeyColumn(table) == [i \in DOMAIN table |-> table[i].key]

Arranged(table, p) == [i \in DOMAIN table |-> table[p[i]]]

\* The orders the two tables can be sorted in.
OrderPairs(new, current) ==
    {pair \in Orders(new) \X Orders(current) :
        KeyColumn(new) = KeyColumn(current) => pair[1] = pair[2]}

\* Mutant of Differ: only the keys are compared.
DifferInKeys(new, current, orders, normal) ==
    KeyColumn(Arranged(new, orders[1])) # KeyColumn(Arranged(current, orders[2]))

\* What check_dataframe_diff returns, the tables sorted in these orders.
Differ(new, current, orders, normal) ==
    Arranged(Normalized(new, normal), orders[1])
        # Arranged(Normalized(current, normal), orders[2])

-----------------------------------------------------------------------------
(* apply_defc_derivations and add_defc_outliers.  A raw row has its code   *)
(* and its title; the laws in the title are looked up for every row, and   *)
(* its dates are what GovInfo answered: when each law was approved.        *)

NoDate == 0
NoGroup == "none"

Outliers == <<"9", "QQQ">>

\* derive_pls_data
Earliest(row) ==
    LET known == {row.dates[i] : i \in DOMAIN row.dates} \ {NoDate}
    IN  IF known = {} THEN NoDate ELSE Min(known)

\* Mutant of Merged: rows without a known law are dropped.
MergedIfKnown(raw) ==
    {pair \in (DOMAIN raw) \X (DOMAIN raw) : /\ raw[pair[1]].title = raw[pair[2]].title
                                         /\ Earliest(raw[pair[2]]) # NoDate}

\* The merge on "Public Law": every row meets every derived row of its title.
Merged(raw) ==
    {pair \in (DOMAIN raw) \X (DOMAIN raw) : raw[pair[1]].title = raw[pair[2]].title}

\* group_mappings_flat: of the groups that list a code, the last one counts.
GroupOf(groups, code) ==
    LET listing == {g \in DOMAIN groups : code \in groups[g].codes}
    IN  IF listing = {} THEN NoGroup ELSE groups[Max(listing)].name

\* add_defc_outliers looks this group up, and raises a KeyError without it.
HasCovidGroup(groups) == \E g \in DOMAIN groups : groups[g].name = "covid_19"

\* The rows the script adds stand beside the merged ones.
Added == {<<0, k>> : k \in DOMAIN Outliers}

\* The derived table, with the rows the script adds.
DefcRows(raw, groups) ==
    [at \in Merged(raw) \cup Added |->
        IF at \in Added
        THEN [code |-> Outliers[at[2]], date |-> NoDate, group |-> NoGroup]
        ELSE [code |-> raw[at[1]].code, date |-> Earliest(raw[at[2]]),
              group |-> GroupOf(groups, raw[at[1]].code)]]
=============================================================================
