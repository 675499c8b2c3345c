------------------------------ MODULE FonExtract ------------------------------
(***************************************************************************)
(* The FON extractor (scripts/extractors/fon.py): it pulls the whole list  *)
(* of funding opportunities from Grants.gov page by page and saves it as   *)
(* the bronze table.  How many pages to ask for is decided by the hit      *)
(* count of the FIRST answer; the list may change between two requests.    *)
(*                                                                         *)
(* An opportunity is its id.  The load date recorded at the end is the     *)
(* business of LoadDates.                                                  *)
(***************************************************************************)
EXTENDS Integers, Sequences

CONSTANTS BATCH_SIZE,
          Published, \* bound: opportunities listed at first
          MaxChanges \* bound: changes of the list

ASSUME ExtractAssumption ==
    BATCH_SIZE \in Nat \ {0} /\ Published \in Nat /\ MaxChanges \in Nat

VARIABLES remote,   \* the list Grants.gov serves, in its order
          pc,       \* "idle", "first", "page" or "save"
          total,    \* total_records
          start,    \* post_body["startRecordNum"]
          fon_list,
          bronze,   \* the saved ids, in order
          kinds,    \* how the list changed since the first answer
          changes

vars == <<remote, pc, total, start, fon_list, bronze, kinds, changes>>

\* Every change publishes at most one opportunity more.
Ids == 1..(Published + MaxChanges)

Kinds == {"append", "insert", "remove"}

Elements(s) == {s[i] : i \in DOMAIN s}

\* Rows first+1 .. last of the list, as far as it reaches.
Rows(first, last) == SubSeq(remote, first + 1, IF last < Len(remote) THEN last ELSE Len(remote))

\* What a request for BATCH_SIZE rows after the first s is answered with.
OppHits(s) == Rows(s, s + BATCH_SIZE)

Init == /\ remote \in {[i \in 1..n |-> i] : n \in 0..Published}
        /\ pc = "idle"
        /\ total = 0 /\ start = 0 /\ fon_list = <<>>
        /\ bronze = <<>>
        /\ kinds = {} /\ changes = 0

locals == <<pc, total, start, fon_list>>

-----------------------------------------------------------------------------
(* Grants.gov.                                                             *)

Change(kind, list) ==
    /\ changes < MaxChanges
    /\ changes' = changes + 1
    /\ kinds' = kinds \cup {kind}
    /\ remote' = list
    /\ UNCHANGED <<locals, bronze>>

\* A new opportunity is listed after all others, or before the i-th.
Publish ==
    \E o \in Ids \ Elements(remote) :
        \/ Change("append", Append(remote, o))
        \/ \E i \in DOMAIN remote :
              Change("insert", SubSeq(remote, 1, i - 1) \o <<o>>
                                   \o SubSeq(remote, i, Len(remote)))

\* The i-th opportunity is taken off the list.
Withdraw ==
    \E i \in DOMAIN remote :
        Change("remove", SubSeq(remote, 1, i - 1) \o SubSeq(remote, i + 1, Len(remote)))

-----------------------------------------------------------------------------
(* extract_fon_data and main.                                              *)

\* A run of the script sets up the body of its first request.
Begin ==
    /\ pc = "idle"
    /\ pc' = "first"
    /\ start' = 0 /\ total' = 0 /\ fon_list' = <<>>
    /\ UNCHANGED <<remote, bronze, kinds, changes>>

\* The loop condition, for the row number reached and the hit count.
NextPc(s, t) == IF s + BATCH_SIZE < t THEN "page" ELSE "save"

\* Mutant of FirstPage: the hit count less the page that came with it.
FirstPageRest ==
    /\ pc = "first"
    /\ total' = Len(remote) - BATCH_SIZE
    /\ fon_list' = OppHits(0)
    /\ pc' = NextPc(0, total')
    /\ kinds' = {}
    /\ UNCHANGED <<remote, start, bronze, changes>>

\* The first answer brings the hit count and the first rows.
FirstPage ==
    /\ pc = "first"
    /\ total' = Len(remote)
    /\ fon_list' = OppHits(0)
    /\ pc' = NextPc(0, total')
    /\ kinds' = {}
    /\ UNCHANGED <<remote, start, bronze, changes>>

\* Mutant of NextPage: the page starts at the last row of the one before.
NextPageOneEarly ==
    /\ pc = "page"
    /\ start' = start + BATCH_SIZE
    /\ fon_list' = fon_list \o OppHits(start' - 1)
    /\ pc' = NextPc(start', total)
    /\ UNCHANGED <<remote, total, bronze, kinds, changes>>

\* Mutant of NextPage: the loop ends one page early.
NextPageLast ==
    /\ pc = "page"
    /\ start' = start + BATCH_SIZE
    /\ fon_list' = fon_list \o OppHits(start')
    /\ pc' = "save"
    /\ UNCHANGED <<remote, total, bronze, kinds, changes>>

\* One turn of the loop.
NextPage ==
    /\ pc = "page"
    /\ start' = start + BATCH_SIZE
    /\ fon_list' = fon_list \o OppHits(start')
    /\ pc' = NextPc(start', total)
    /\ UNCHANGED <<remote, total, bronze, kinds, changes>>

\* fon_bronze.save(fon_df)
Save ==
    /\ pc = "save"
    /\ bronze' = fon_list
    /\ pc' = "idle"
    /\ start' = 0 /\ total' = 0 /\ fon_list' = <<>>
    /\ UNCHANGED <<remote, kinds, changes>>

\* A request raises (it is not retried), an answer lacks its fields, the script
\* is killed: the bronze table stays as it is.
Fail ==
    /\ pc # "idle"
    /\ pc' = "idle"
    /\ start' = 0 /\ total' = 0 /\ fon_list' = <<>>
    /\ UNCHANGED <<remote, bronze, kinds, changes>>

Next == Publish \/ Withdraw \/ Begin \/ FirstPage \/ NextPage \/ Save \/ Fail

Spec == Init /\ [][Next]_vars

-----------------------------------------------------------------------------
(* Properties.                                                             *)

\* Every variable has its type.
TypeOK == /\ remote \in Seq(Ids)
          /\ pc \in {"idle", "first", "page", "save"}
          /\ total \in Nat /\ start \in Nat
          /\ fon_list \in Seq(Ids) /\ bronze \in Seq(Ids)
          /\ kinds \subseteq Kinds /\ changes \in 0..MaxChanges

\* While the list only grows at its end, the pages fit together: what has been
\* pulled is the beginning of the list, without a gap and without a repetition, and
\* at the end nothing that was listed at the first answer is missing.
PagesFit == pc \in {"page", "save"} /\ kinds \subseteq {"append"}
                => /\ fon_list = Rows(0, Len(fon_list))
                   /\ pc = "save" => Len(fon_list) >= total

\* PK = "id" of the bronze table: no opportunity is pulled twice, as long as none
\* is listed in front of what has been pulled; rows taken off the list are never
\* the reason for a repetition.
NoRepeats == kinds \subseteq {"append"} \/ kinds \subseteq {"remove"}
                 => \A i, j \in DOMAIN fon_list : fon_list[i] = fon_list[j] => i = j
=============================================================================
