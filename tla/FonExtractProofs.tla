--------------------------- MODULE FonExtractProofs ---------------------------
(***************************************************************************)
(* Theorems about FonExtract, for any page size, list and changes.         *)
(***************************************************************************)
EXTENDS FonExtract, SequenceTheorems, TLAPS

\* A stretch of a list that lies within it is a list of the same ids.
LEMMA StretchType ==
    ASSUME NEW S, NEW s \in Seq(S), NEW m \in Nat \ {0}, NEW n \in Int, n <= Len(s)
    PROVE  /\ SubSeq(s, m, n) \in Seq(S)
           /\ Len(SubSeq(s, m, n)) = IF m <= n THEN n - m + 1 ELSE 0
<1>1. \A i \in m..n : s[i] \in S
  BY ElementOfSeq
<1>2. m \in Int
  OBVIOUS
<1>3. QED
  BY <1>1, <1>2, SubSeqProperties

\* An answer consists of listed ids.
LEMMA HitsType ==
    ASSUME remote \in Seq(Ids), BATCH_SIZE \in Nat, NEW s \in Nat
    PROVE  OppHits(s) \in Seq(Ids)
<1> DEFINE last == IF s + BATCH_SIZE < Len(remote) THEN s + BATCH_SIZE ELSE Len(remote)
<1>1. last \in Int /\ last <= Len(remote) /\ s + 1 \in Nat \ {0}
  BY LenProperties
<1>2. SubSeq(remote, s + 1, last) \in Seq(Ids)
  BY <1>1, StretchType
<1>3. QED
  BY <1>2 DEF OppHits, Rows

\* The list that Grants.gov serves stays a list of ids, however it changes.
LEMMA ChangeType ==
    ASSUME remote \in Seq(Ids), Publish \/ Withdraw
    PROVE  remote' \in Seq(Ids) /\ kinds' \subseteq kinds \cup Kinds
<1>0. Len(remote) \in Nat
  BY LenProperties
<1>1. ASSUME NEW i \in DOMAIN remote
      PROVE  /\ SubSeq(remote, 1, i - 1) \in Seq(Ids)
             /\ SubSeq(remote, i, Len(remote)) \in Seq(Ids)
             /\ SubSeq(remote, i + 1, Len(remote)) \in Seq(Ids)
  <2>1. i \in Nat \ {0} /\ i <= Len(remote)
    BY <1>0, LenProperties
  <2>2. i - 1 \in Int /\ i - 1 <= Len(remote) /\ i + 1 \in Nat \ {0}
    BY <1>0, <2>1
  <2>3. QED
    BY <1>0, <2>1, <2>2, StretchType
<1>2. ASSUME NEW o \in Ids, Change("append", Append(remote, o))
      PROVE  remote' \in Seq(Ids) /\ kinds' \subseteq kinds \cup Kinds
  BY <1>2, AppendProperties DEF Change, Kinds
<1>3. ASSUME NEW o \in Ids, NEW i \in DOMAIN remote,
             Change("insert", SubSeq(remote, 1, i - 1) \o <<o>>
                              \o SubSeq(remote, i, Len(remote)))
      PROVE  remote' \in Seq(Ids) /\ kinds' \subseteq kinds \cup Kinds
  <2>1. <<o>> \in Seq(Ids)
    OBVIOUS
  <2>2. SubSeq(remote, 1, i - 1) \o <<o>> \in Seq(Ids)
    BY <1>1, <2>1, ConcatProperties
  <2>3. SubSeq(remote, 1, i - 1) \o <<o>> \o SubSeq(remote, i, Len(remote)) \in Seq(Ids)
    BY <1>1, <2>2, ConcatProperties
  <2>4. QED
    BY <1>3, <2>3 DEF Change, Kinds
<1>4. ASSUME NEW i \in DOMAIN remote,
             Change("remove", SubSeq(remote, 1, i - 1)
                              \o SubSeq(remote, i + 1, Len(remote)))
      PROVE  remote' \in Seq(Ids) /\ kinds' \subseteq kinds \cup Kinds
  <2>1. SubSeq(remote, 1, i - 1) \o SubSeq(remote, i + 1, Len(remote)) \in Seq(Ids)
    BY <1>1, ConcatProperties
  <2>2. QED
    BY <1>4, <2>1 DEF Change, Kinds
<1>5. QED
  BY <1>2, <1>3, <1>4 DEF Publish, Withdraw

\* No step of the extraction or of Grants.gov breaks the types.
LEMMA ExtractTypeStep == TypeOK /\ [Next]_vars => TypeOK'
<1> SUFFICES ASSUME TypeOK, [Next]_vars
             PROVE  TypeOK'
  OBVIOUS
<1>0. BATCH_SIZE \in Nat /\ MaxChanges \in Nat
  BY ExtractAssumption
<1>e. <<>> \in Seq(Ids)
  BY EmptySeq
<1>1. CASE Publish \/ Withdraw
  <2>1. remote' \in Seq(Ids) /\ kinds' \subseteq Kinds
    BY <1>1, ChangeType DEF TypeOK
  <2>2. PICK kind, list : Change(kind, list)
    BY <1>1, Zenon DEF Publish, Withdraw
  <2>3. changes' \in 0..MaxChanges
    BY <1>0, <2>2 DEF Change, TypeOK
  <2>4. UNCHANGED <<pc, total, start, fon_list, bronze>>
    BY <2>2 DEF Change, locals
  <2>5. QED
    BY <2>1, <2>3, <2>4 DEF TypeOK
<1>2. CASE Begin \/ Save \/ Fail
  <2>1. UNCHANGED <<remote, kinds, changes>> /\ pc' \in {"idle", "first"}
    BY <1>2 DEF Begin, Save, Fail
  <2>2. total' = 0 /\ start' = 0 /\ fon_list' = <<>>
    BY <1>2 DEF Begin, Save, Fail
  <2>3. bronze' \in Seq(Ids)
    BY <1>2 DEF Begin, Save, Fail, TypeOK
  <2>4. fon_list' \in Seq(Ids)
    BY <1>e, <2>2, Zenon
  <2>5. QED
    BY <2>1, <2>2, <2>3, <2>4 DEF TypeOK
<1>3. CASE FirstPage
  <2>1. fon_list' \in Seq(Ids)
    BY <1>0, <1>3, HitsType DEF FirstPage, TypeOK
  <2>2. total' \in Nat
    BY <1>3, LenProperties DEF FirstPage, TypeOK
  <2>3. QED
    BY <1>3, <2>1, <2>2 DEF FirstPage, TypeOK, NextPc
<1>4. CASE NextPage
  <2>1. start' \in Nat
    BY <1>0, <1>4 DEF NextPage, TypeOK
  <2> DEFINE hits == OppHits(start + BATCH_SIZE)
  <2>2. hits \in Seq(Ids)
    BY <1>0, HitsType DEF TypeOK
  <2>3. fon_list' = fon_list \o hits
    BY <1>4 DEF NextPage, OppHits, Rows
  <2>4. fon_list' \in Seq(Ids)
    BY <2>2, <2>3, ConcatProperties DEF TypeOK
  <2>5. QED
    BY <1>4, <2>1, <2>4 DEF NextPage, TypeOK, NextPc
<1>5. CASE UNCHANGED vars
  BY <1>5 DEF vars, TypeOK
<1>6. QED
  BY <1>1, <1>2, <1>3, <1>4, <1>5 DEF Next

\* The initial lists are numbered lists of ids.
LEMMA ExtractTypeInit == Init => TypeOK
<1> SUFFICES ASSUME Init
             PROVE  TypeOK
  OBVIOUS
<1>1. PICK n \in 0..Published : remote = [i \in 1..n |-> i]
  BY DEF Init
<1>2. n \in Nat /\ \A i \in 1..n : i \in Ids
  BY ExtractAssumption DEF Ids
<1>3. remote \in Seq(Ids)
  BY <1>1, <1>2, SeqDef
<1>4. <<>> \in Seq(Ids)
  BY EmptySeq
<1>5. QED
  BY <1>3, <1>4, ExtractAssumption DEF Init, TypeOK

\* Type correctness: whatever Grants.gov answers, and whichever request fails.
THEOREM ExtractTypeCorrect == Spec => []TypeOK
BY ExtractTypeInit, ExtractTypeStep, PTL DEF Spec

-----------------------------------------------------------------------------
(* The pages fit together while the list only grows at its end.            *)

\* What has been pulled is the beginning of the list up to the row reached, and
\* the list still reaches as far as the first answer said.
PagesInv ==
    /\ pc = "first" => start = 0
    /\ kinds \subseteq {"append"} =>
          /\ pc = "page" => /\ start + BATCH_SIZE < total
                            /\ total <= Len(remote)
                            /\ fon_list = SubSeq(remote, 1, start + BATCH_SIZE)
          /\ pc = "save" => /\ total <= Len(fon_list)
                            /\ Len(fon_list) <= Len(remote)
                            /\ fon_list = SubSeq(remote, 1, Len(fon_list))

\* A page continues the beginning of the list where that ends.
LEMMA PageContinues ==
    ASSUME remote \in Seq(Ids), BATCH_SIZE \in Nat, NEW s \in Nat, s <= Len(remote),
           NEW last \in Nat,
           last = IF s + BATCH_SIZE < Len(remote) THEN s + BATCH_SIZE ELSE Len(remote)
    PROVE  SubSeq(remote, 1, s) \o OppHits(s) = SubSeq(remote, 1, last)
<1>1. Len(remote) \in Nat
  BY LenProperties
<1>2. 1 \in 1..Len(remote) + 1 /\ s \in 1 - 1..Len(remote) /\ last \in s..Len(remote)
  BY <1>1
<1>3. SubSeq(remote, 1, s) \o SubSeq(remote, s + 1, last) = SubSeq(remote, 1, last)
  BY <1>2, ConcatAdjacentSubSeq
<1>4. OppHits(s) = SubSeq(remote, s + 1, last)
  BY DEF OppHits, Rows
<1>5. QED
  BY <1>3, <1>4

\* The beginning of a list is the same after an append.
LEMMA AppendKeepsBeginning ==
    ASSUME remote \in Seq(Ids), NEW o \in Ids, NEW n \in Nat, n <= Len(remote)
    PROVE  SubSeq(Append(remote, o), 1, n) = SubSeq(remote, 1, n)
<1>0. Len(remote) \in Nat /\ <<o>> \in Seq(Ids)
  BY LenProperties
<1>1. CASE n = 0
  BY <1>1, SubSeqEmpty
<1>2. CASE n # 0
  <2>1. 1 \in 1..Len(remote) /\ n \in 1..Len(remote)
    BY <1>0, <1>2
  <2>2. SubSeq(remote \o <<o>>, 1, n) = SubSeq(remote, 1, n)
    BY <1>0, <2>1, SubSeqOfConcat1
  <2>3. Append(remote, o) = remote \o <<o>>
    BY AppendIsConcat
  <2>4. QED
    BY <2>2, <2>3
<1>3. QED
  BY <1>1, <1>2

\* Every step keeps what is known about the pages.
LEMMA PagesStep == TypeOK /\ PagesInv /\ [Next]_vars => PagesInv'
<1> SUFFICES ASSUME TypeOK, PagesInv, [Next]_vars
             PROVE  PagesInv'
  OBVIOUS
<1>0. /\ BATCH_SIZE \in Nat \ {0} /\ remote \in Seq(Ids) /\ start \in Nat /\ total \in Nat
      /\ Len(remote) \in Nat /\ Len(fon_list) \in Nat
  BY ExtractAssumption, LenProperties DEF TypeOK
<1>1. ASSUME NEW o \in Ids, Change("append", Append(remote, o))
      PROVE  PagesInv'
  <2>1. remote' = Append(remote, o) /\ UNCHANGED <<pc, total, start, fon_list>>
    BY <1>1 DEF Change, locals
  <2>2. Len(remote') = Len(remote) + 1
    BY <1>0, <2>1, AppendProperties
  <2>3. kinds' \subseteq {"append"} => kinds \subseteq {"append"}
    BY <1>1 DEF Change
  <2>4. ASSUME NEW n \in Nat, n <= Len(remote)
        PROVE  SubSeq(remote', 1, n) = SubSeq(remote, 1, n)
    BY <1>0, <2>1, <2>4, AppendKeepsBeginning
  <2>5. start + BATCH_SIZE \in Nat
    BY <1>0
  <2>6. ASSUME kinds \subseteq {"append"}, pc = "page"
        PROVE  total <= Len(remote') /\ fon_list = SubSeq(remote', 1, start + BATCH_SIZE)
    <3>1. start + BATCH_SIZE <= Len(remote)
      BY <1>0, <2>6 DEF PagesInv
    <3>2. QED
      BY <1>0, <2>2, <2>4, <2>5, <2>6, <3>1 DEF PagesInv
  <2>7. ASSUME kinds \subseteq {"append"}, pc = "save"
        PROVE  Len(fon_list) <= Len(remote') /\ fon_list = SubSeq(remote', 1, Len(fon_list))
    BY <1>0, <2>2, <2>4, <2>7 DEF PagesInv
  <2>8. QED
    BY <2>1, <2>3, <2>6, <2>7 DEF PagesInv
<1>2. ASSUME NEW kind \in {"insert", "remove"}, NEW list, Change(kind, list)
      PROVE  PagesInv'
  <2>1. UNCHANGED <<pc, start>> /\ ~(kinds' \subseteq {"append"})
    BY <1>2 DEF Change, locals
  <2>2. QED
    BY <2>1 DEF PagesInv
<1>3. CASE Begin \/ Save \/ Fail
  <2>1. pc' \in {"first", "idle"} /\ start' = 0
    BY <1>3 DEF Begin, Save, Fail
  <2>2. QED
    BY <2>1 DEF PagesInv
<1>4. CASE FirstPage
  <2> DEFINE last == IF 0 + BATCH_SIZE < Len(remote) THEN 0 + BATCH_SIZE ELSE Len(remote)
  <2>1. /\ start' = 0 /\ total' = Len(remote) /\ remote' = remote
        /\ pc' = IF 0 + BATCH_SIZE < Len(remote) THEN "page" ELSE "save"
    BY <1>4 DEF FirstPage, PagesInv, NextPc
  <2>2. fon_list' = SubSeq(remote, 1, last)
    BY <1>4 DEF FirstPage, OppHits, Rows
  <2>3. last \in Nat /\ last <= Len(remote)
    BY <1>0
  <2>4. Len(fon_list') = last
    BY <1>0, <2>2, <2>3, StretchType
  <2>5. QED
    BY <1>0, <2>1, <2>2, <2>3, <2>4 DEF PagesInv
<1>5. CASE NextPage
  <2> DEFINE s == start + BATCH_SIZE
             last == IF s + BATCH_SIZE < Len(remote) THEN s + BATCH_SIZE ELSE Len(remote)
  <2> SUFFICES ASSUME kinds \subseteq {"append"}
               PROVE  /\ pc' = "page" => /\ start' + BATCH_SIZE < total'
                                         /\ total' <= Len(remote')
                                         /\ fon_list' = SubSeq(remote', 1, start' + BATCH_SIZE)
                      /\ pc' = "save" => /\ total' <= Len(fon_list')
                                         /\ Len(fon_list') <= Len(remote')
                                         /\ fon_list' = SubSeq(remote', 1, Len(fon_list'))
    BY <1>5 DEF NextPage, NextPc, PagesInv
  <2>1. /\ s < total /\ total <= Len(remote) /\ fon_list = SubSeq(remote, 1, s)
    BY <1>5 DEF NextPage, PagesInv
  <2>2. s \in Nat /\ last \in Nat /\ s <= Len(remote) /\ last <= Len(remote)
    BY <1>0, <2>1
  <2>3. fon_list' = fon_list \o OppHits(s)
    BY <1>5 DEF NextPage, OppHits, Rows
  <2>4. fon_list' = SubSeq(remote, 1, last)
    BY <1>0, <2>1, <2>2, <2>3, PageContinues
  <2>5. Len(fon_list') = last
    BY <1>0, <2>2, <2>4, StretchType
  <2>6. /\ start' = s /\ total' = total /\ remote' = remote
        /\ pc' = IF s + BATCH_SIZE < total THEN "page" ELSE "save"
    BY <1>5 DEF NextPage, NextPc
  <2>7. QED
    BY <1>0, <2>1, <2>2, <2>4, <2>5, <2>6
<1>6. CASE UNCHANGED vars
  BY <1>6 DEF vars, PagesInv
<1>7. QED
  <2>1. CASE Publish
    BY <1>1, <1>2, <2>1 DEF Publish
  <2>2. CASE Withdraw
    BY <1>2, <2>2 DEF Withdraw
  <2>3. QED
    BY <1>3, <1>4, <1>5, <1>6, <2>1, <2>2 DEF Next

\* At first nothing has been pulled.
LEMMA PagesInit == Init => PagesInv
BY DEF Init, PagesInv

\* fon.py decides on the first answer how many pages to ask for, and asks by row
\* number: while opportunities are only appended, for any number of them and any
\* page size, the pages fit together and none of those first counted is missing.
THEOREM PagesFitTogether == Spec => []PagesFit
<1>1. Spec => [](TypeOK /\ PagesInv)
  BY PagesInit, ExtractTypeInit, ExtractTypeStep, PagesStep, PTL DEF Spec
<1>2. TypeOK /\ PagesInv => PagesFit
  <2> SUFFICES ASSUME TypeOK, PagesInv, pc \in {"page", "save"}, kinds \subseteq {"append"}
               PROVE  /\ fon_list = Rows(0, Len(fon_list))
                      /\ pc = "save" => Len(fon_list) >= total
    BY DEF PagesFit
  <2>0. /\ BATCH_SIZE \in Nat /\ remote \in Seq(Ids) /\ start \in Nat /\ total \in Nat
        /\ Len(remote) \in Nat /\ Len(fon_list) \in Nat
    BY ExtractAssumption, LenProperties DEF TypeOK
  <2>1. fon_list = SubSeq(remote, 1, Len(fon_list)) /\ Len(fon_list) <= Len(remote)
    <3>1. CASE pc = "save"
      BY <3>1 DEF PagesInv
    <3>2. CASE pc = "page"
      <4>1. start + BATCH_SIZE <= Len(remote) /\ start + BATCH_SIZE \in Nat
        BY <2>0, <3>2 DEF PagesInv
      <4>2. Len(fon_list) = start + BATCH_SIZE
        BY <2>0, <3>2, <4>1, StretchType DEF PagesInv
      <4>3. QED
        BY <3>2, <4>1, <4>2 DEF PagesInv
    <3>3. QED
      BY <3>1, <3>2
  <2>2. Rows(0, Len(fon_list)) = SubSeq(remote, 1, Len(fon_list))
    BY <2>0, <2>1 DEF Rows
  <2>3. pc = "save" => Len(fon_list) >= total
    BY <2>0 DEF PagesInv
  <2>4. QED
    BY <2>1, <2>2, <2>3
<1>3. QED
  BY <1>1, <1>2, PTL

-----------------------------------------------------------------------------
(* No opportunity is pulled twice.                                         *)

\* A list without repetitions.
Once(s) == \A i, j \in 1..Len(s) : s[i] = s[j] => i = j

\* Rows of t after the k-th are none of those in s.
Apart(s, t, k) == \A i \in 1..Len(s), j \in 1..Len(t) : j > k => s[i] # t[j]

\* The rows of a stretch are rows of the list.
LEMMA StretchRows ==
    ASSUME NEW S, NEW s \in Seq(S), NEW m \in Nat \ {0}, NEW n \in Int, n <= Len(s)
    PROVE  \A i \in 1..Len(SubSeq(s, m, n)) :
              m + i - 1 \in m..n /\ SubSeq(s, m, n)[i] = s[m + i - 1]
<1>1. Len(s) \in Nat /\ \A i \in m..n : s[i] \in S
  BY ElementOfSeq, LenProperties
<1>2. m \in Int
  OBVIOUS
<1>3. /\ Len(SubSeq(s, m, n)) = IF m <= n THEN n - m + 1 ELSE 0
      /\ \A i \in 1..(n - m + 1) : SubSeq(s, m, n)[i] = s[m + i - 1]
  BY <1>1, <1>2, SubSeqProperties
<1>4. QED
  BY <1>1, <1>3

\* So a stretch repeats nothing either.
LEMMA StretchOnce ==
    ASSUME NEW S, NEW s \in Seq(S), NEW m \in Nat \ {0}, NEW n \in Int, n <= Len(s), Once(s)
    PROVE  Once(SubSeq(s, m, n))
<1> DEFINE t == SubSeq(s, m, n)
<1>1. \A i \in 1..Len(t) : m + i - 1 \in m..n /\ t[i] = s[m + i - 1]
  BY StretchRows
<1>2. Len(s) \in Nat /\ Len(t) \in Nat
  BY LenProperties, StretchType
<1> HIDE DEF t
<1>3. \A i \in 1..Len(t) : m + i - 1 \in 1..Len(s)
  BY <1>1, <1>2
<1>4. ASSUME NEW i \in 1..Len(t), NEW j \in 1..Len(t), t[i] = t[j]
      PROVE  i = j
  <2>1. s[m + i - 1] = s[m + j - 1]
    BY <1>1, <1>4
  <2>2. m + i - 1 \in 1..Len(s) /\ m + j - 1 \in 1..Len(s)
    BY <1>3
  <2>3. m + i - 1 = m + j - 1
    BY <2>1, <2>2 DEF Once
  <2>4. QED
    BY <1>2, <2>3
<1>5. Once(t)
  BY <1>4 DEF Once
<1>6. QED
  BY <1>5 DEF t

\* Lists without repetitions that have nothing in common make one.
LEMMA ConcatOnce ==
    ASSUME NEW S, NEW s \in Seq(S), NEW t \in Seq(S), Once(s), Once(t), Apart(s, t, 0)
    PROVE  Once(s \o t)
<1>1. Len(s) \in Nat /\ Len(t) \in Nat
  BY LenProperties
<1>2. /\ Len(s \o t) = Len(s) + Len(t)
      /\ \A i \in 1..(Len(s) + Len(t)) :
            (s \o t)[i] = IF i <= Len(s) THEN s[i] ELSE t[i - Len(s)]
  BY ConcatProperties
<1>3. ASSUME NEW i \in 1..(Len(s) + Len(t)), NEW j \in 1..(Len(s) + Len(t)),
             (s \o t)[i] = (s \o t)[j]
      PROVE  i = j
  <2>1. CASE i <= Len(s) /\ j <= Len(s)
    BY <1>1, <1>2, <1>3, <2>1 DEF Once
  <2>2. CASE i > Len(s) /\ j > Len(s)
    BY <1>1, <1>2, <1>3, <2>2 DEF Once
  <2>3. CASE i <= Len(s) /\ j > Len(s)
    BY <1>1, <1>2, <1>3, <2>3 DEF Apart
  <2>4. CASE i > Len(s) /\ j <= Len(s)
    BY <1>1, <1>2, <1>3, <2>4 DEF Apart
  <2>5. QED
    BY <1>1, <2>1, <2>2, <2>3, <2>4
<1>4. QED
  BY <1>2, <1>3 DEF Once

\* The row before which something is listed, or that is taken off.
LEMMA AroundRow ==
    ASSUME NEW S, NEW s \in Seq(S), NEW i \in 1..Len(s), NEW k \in {i, i + 1}
    PROVE  /\ SubSeq(s, 1, i - 1) \in Seq(S) /\ Len(SubSeq(s, 1, i - 1)) = i - 1
           /\ \A j \in 1..(i - 1) : SubSeq(s, 1, i - 1)[j] = s[j]
           /\ SubSeq(s, k, Len(s)) \in Seq(S) /\ Len(SubSeq(s, k, Len(s))) = Len(s) - k + 1
           /\ \A j \in 1..(Len(s) - k + 1) : SubSeq(s, k, Len(s))[j] = s[k + j - 1]
<1>1. Len(s) \in Nat /\ i \in Nat \ {0} /\ i - 1 \in Int /\ k \in Nat \ {0}
      /\ Len(s) \in Int /\ i - 1 <= Len(s) /\ k <= Len(s) + 1
  BY LenProperties
<1>2. 1 \in Nat \ {0} /\ Len(s) <= Len(s)
  BY <1>1
<1>3. /\ SubSeq(s, 1, i - 1) \in Seq(S) /\ Len(SubSeq(s, 1, i - 1)) = i - 1
      /\ SubSeq(s, k, Len(s)) \in Seq(S) /\ Len(SubSeq(s, k, Len(s))) = Len(s) - k + 1
  BY <1>1, <1>2, StretchType
<1>4. \A j \in 1..(i - 1) : SubSeq(s, 1, i - 1)[j] = s[j]
  <2>1. \A j \in 1..Len(SubSeq(s, 1, i - 1)) : SubSeq(s, 1, i - 1)[j] = s[1 + j - 1]
    BY <1>1, <1>2, StretchRows
  <2>2. \A j \in 1..(i - 1) : 1 + j - 1 = j
    BY <1>1
  <2>3. QED
    BY <1>3, <2>1, <2>2
<1>5. \A j \in 1..Len(SubSeq(s, k, Len(s))) : SubSeq(s, k, Len(s))[j] = s[k + j - 1]
  BY <1>1, <1>2, StretchRows
<1>6. QED
  BY <1>3, <1>4, <1>5

\* Whatever Grants.gov does, it lists no opportunity twice; taking one off moves
\* those behind it up by one row.
LEMMA ChangeOnce ==
    ASSUME remote \in Seq(Ids), Once(remote), Publish \/ Withdraw
    PROVE  /\ Once(remote')
           /\ Withdraw => /\ Len(remote') \in Nat
                          /\ \A j \in 1..Len(remote') :
                                \E k \in {j, j + 1} : k \in 1..Len(remote) /\ remote'[j] = remote[k]
<1>0. Len(remote) \in Nat /\ DOMAIN remote = 1..Len(remote)
  BY LenProperties
<1>1. ASSUME NEW o \in Ids \ Elements(remote), Change("append", Append(remote, o))
      PROVE  Once(remote')
  <2>1. /\ Len(remote') = Len(remote) + 1 /\ remote'[Len(remote) + 1] = o
        /\ \A i \in 1..Len(remote) : remote'[i] = remote[i]
    BY <1>1, AppendProperties DEF Change
  <2>2. \A i \in 1..Len(remote) : remote[i] # o
    BY <1>0 DEF Elements
  <2>3. QED
    BY <1>0, <2>1, <2>2 DEF Once
<1>2. ASSUME NEW o \in Ids \ Elements(remote), NEW i \in DOMAIN remote,
             Change("insert", SubSeq(remote, 1, i - 1) \o <<o>>
                              \o SubSeq(remote, i, Len(remote)))
      PROVE  Once(remote')
  <2> DEFINE a == SubSeq(remote, 1, i - 1)
             c == SubSeq(remote, i, Len(remote))
  <2>0. i \in 1..Len(remote)
    BY <1>0
  <2>1. /\ a \in Seq(Ids) /\ Len(a) = i - 1 /\ \A j \in 1..(i - 1) : a[j] = remote[j]
        /\ c \in Seq(Ids) /\ Len(c) = Len(remote) - i + 1
        /\ \A j \in 1..(Len(remote) - i + 1) : c[j] = remote[i + j - 1]
    BY <2>0, AroundRow
  <2>2. \A j \in 1..Len(remote) : remote[j] # o
    BY <1>0 DEF Elements
  <2>3. remote' = a \o <<o>> \o c
    BY <1>2 DEF Change
  <2>4. Once(c)
    BY <1>0, <2>0, StretchOnce
  <2> HIDE DEF a, c
  <2>5. <<o>> \in Seq(Ids) /\ Len(<<o>>) = 1 /\ <<o>>[1] = o
    OBVIOUS
  <2>6. Once(a)
    BY <1>0, <2>0, <2>1 DEF Once
  <2>7. Once(a \o <<o>>)
    <3>1. Once(<<o>>)
      BY <2>5 DEF Once
    <3>2. Apart(a, <<o>>, 0)
      BY <1>0, <2>0, <2>1, <2>2, <2>5 DEF Apart
    <3>3. QED
      BY <2>1, <2>5, <2>6, <3>1, <3>2, ConcatOnce
  <2>8. /\ a \o <<o>> \in Seq(Ids) /\ Len(a \o <<o>>) = i
        /\ \A j \in 1..i : (a \o <<o>>)[j] = IF j <= i - 1 THEN remote[j] ELSE o
    <3>1. /\ a \o <<o>> \in Seq(Ids) /\ Len(a \o <<o>>) = Len(a) + Len(<<o>>)
          /\ \A j \in 1..(Len(a) + Len(<<o>>)) :
                (a \o <<o>>)[j] = IF j <= Len(a) THEN a[j] ELSE <<o>>[j - Len(a)]
      BY <2>1, <2>5, ConcatProperties
    <3>2. QED
      BY <1>0, <2>0, <2>1, <2>5, <3>1
  <2>9. Apart(a \o <<o>>, c, 0)
    <3>1. ASSUME NEW j \in 1..i, NEW k \in 1..Len(c)
          PROVE  (a \o <<o>>)[j] # c[k]
      <4>1. c[k] = remote[i + k - 1] /\ i + k - 1 \in 1..Len(remote)
        BY <1>0, <2>0, <2>1
      <4>2. CASE j <= i - 1
        <5>1. (a \o <<o>>)[j] = remote[j] /\ j \in 1..Len(remote) /\ j # i + k - 1
          BY <1>0, <2>0, <2>1, <2>8, <4>2
        <5>2. QED
          BY <4>1, <5>1 DEF Once
      <4>3. CASE ~(j <= i - 1)
        BY <2>2, <2>8, <4>1, <4>3
      <4>4. QED
        BY <4>2, <4>3
    <3>2. QED
      BY <2>8, <3>1 DEF Apart
  <2>10. QED
    BY <2>1, <2>3, <2>7, <2>4, <2>8, <2>9, ConcatOnce
<1>3. ASSUME Withdraw
      PROVE  /\ Once(remote') /\ Len(remote') \in Nat
             /\ \A j \in 1..Len(remote') :
                   \E k \in {j, j + 1} : k \in 1..Len(remote) /\ remote'[j] = remote[k]
  <2>1. PICK i \in 1..Len(remote) :
            remote' = SubSeq(remote, 1, i - 1) \o SubSeq(remote, i + 1, Len(remote))
    BY <1>0, <1>3 DEF Withdraw, Change
  <2> DEFINE a == SubSeq(remote, 1, i - 1)
             c == SubSeq(remote, i + 1, Len(remote))
  <2>2. /\ a \in Seq(Ids) /\ Len(a) = i - 1 /\ \A j \in 1..(i - 1) : a[j] = remote[j]
        /\ c \in Seq(Ids) /\ Len(c) = Len(remote) - (i + 1) + 1
        /\ \A j \in 1..(Len(remote) - (i + 1) + 1) : c[j] = remote[(i + 1) + j - 1]
    BY AroundRow
  <2>3. remote' = a \o c
    BY <2>1
  <2> HIDE DEF a, c
  <2>4. /\ Len(remote') = Len(a) + Len(c)
        /\ \A j \in 1..(Len(a) + Len(c)) :
              remote'[j] = IF j <= Len(a) THEN a[j] ELSE c[j - Len(a)]
    BY <2>2, <2>3, ConcatProperties
  <2>5. /\ Len(remote') = Len(remote) - 1
        /\ \A j \in 1..(Len(remote) - 1) :
              remote'[j] = IF j < i THEN remote[j] ELSE remote[j + 1]
    <3>1. Len(remote') = Len(remote) - 1
      BY <1>0, <2>2, <2>4
    <3>2. ASSUME NEW j \in 1..(Len(remote) - 1)
          PROVE  remote'[j] = IF j < i THEN remote[j] ELSE remote[j + 1]
      <4>1. CASE j < i
        <5>1. j \in 1..(i - 1) /\ j <= Len(a) /\ j \in 1..(Len(a) + Len(c))
          BY <1>0, <2>2, <4>1
        <5>2. QED
          BY <2>2, <2>4, <4>1, <5>1
      <4>2. CASE ~(j < i)
        <5>1. j - (i - 1) \in 1..(Len(remote) - (i + 1) + 1)
          BY <1>0, <4>2
        <5>2. c[j - (i - 1)] = remote[(i + 1) + (j - (i - 1)) - 1]
          BY <2>2, <5>1
        <5>3. (i + 1) + (j - (i - 1)) - 1 = j + 1
          BY <1>0
        <5>4. QED
          BY <1>0, <2>2, <2>4, <4>2, <5>2, <5>3
      <4>3. QED
        BY <4>1, <4>2
    <3>3. QED
      BY <3>1, <3>2
  <2>6. QED
    BY <1>0, <2>5 DEF Once
<1>4. QED
  BY <1>1, <1>2, <1>3 DEF Publish

\* Nothing is listed or pulled twice; as long as rows are only taken off the list,
\* what is still to be pulled has not been pulled yet.
RepeatInv ==
    /\ Once(remote)
    /\ pc \in {"idle", "first"} => fon_list = <<>>
    /\ kinds \subseteq {"remove"} /\ pc \in {"page", "save"} => Once(fon_list)
    /\ kinds \subseteq {"remove"} /\ pc = "page" =>
          Apart(fon_list, remote, start + BATCH_SIZE)

\* Every step keeps that.
LEMMA RepeatStep == TypeOK /\ PagesInv /\ RepeatInv /\ [Next]_vars => RepeatInv'
<1> SUFFICES ASSUME TypeOK, PagesInv, RepeatInv, [Next]_vars
             PROVE  RepeatInv'
  OBVIOUS
<1>0. /\ BATCH_SIZE \in Nat \ {0} /\ remote \in Seq(Ids) /\ fon_list \in Seq(Ids)
      /\ start \in Nat /\ Len(remote) \in Nat /\ Len(fon_list) \in Nat
  BY ExtractAssumption, LenProperties DEF TypeOK
<1>1. CASE Publish
  <2>1. Once(remote')
    BY <1>0, <1>1, ChangeOnce DEF RepeatInv
  <2>2. UNCHANGED <<pc, fon_list>> /\ ~(kinds' \subseteq {"remove"})
    <3>1. \E kind \in {"append", "insert"} : kinds' = kinds \cup {kind} /\ UNCHANGED locals
      BY <1>1 DEF Publish, Change
    <3>2. QED
      BY <3>1 DEF locals
  <2>3. QED
    BY <2>1, <2>2 DEF RepeatInv
<1>2. CASE Withdraw
  <2>1. /\ Once(remote')
        /\ \A j \in 1..Len(remote') :
              \E k \in {j, j + 1} : k \in 1..Len(remote) /\ remote'[j] = remote[k]
    BY <1>0, <1>2, ChangeOnce DEF RepeatInv
  <2>2. UNCHANGED <<pc, fon_list, start>> /\ kinds \subseteq kinds'
    BY <1>2 DEF Withdraw, Change, locals
  <2>3. ASSUME Apart(fon_list, remote, start + BATCH_SIZE)
        PROVE  Apart(fon_list, remote', start + BATCH_SIZE)
    BY <1>0, <2>1, <2>3 DEF Apart
  <2>4. QED
    BY <2>1, <2>2, <2>3 DEF RepeatInv
<1>3. CASE Begin \/ Save \/ Fail
  <2>1. pc' \in {"first", "idle"} /\ fon_list' = <<>> /\ remote' = remote
    BY <1>3 DEF Begin, Save, Fail
  <2>2. QED
    BY <2>1 DEF RepeatInv
<1>4. ASSUME NEW s \in Nat, Once(fon_list), UNCHANGED remote,
             fon_list' = fon_list \o OppHits(s), start' = s, pc' \in {"page", "save"},
             Apart(fon_list, remote, s)
      PROVE  RepeatInv'
  <2> DEFINE last == IF s + BATCH_SIZE < Len(remote) THEN s + BATCH_SIZE ELSE Len(remote)
             hits == OppHits(s)
  <2>1. hits = SubSeq(remote, s + 1, last)
    BY DEF OppHits, Rows
  <2>2. s + 1 \in Nat \ {0} /\ last \in Int /\ last <= Len(remote) /\ last <= s + BATCH_SIZE
    BY <1>0
  <2>3. /\ hits \in Seq(Ids) /\ Once(hits)
        /\ \A i \in 1..Len(hits) : s + 1 + i - 1 \in (s + 1)..last
                                   /\ hits[i] = remote[s + 1 + i - 1]
    BY <1>0, <2>1, <2>2, StretchType, StretchOnce, StretchRows DEF RepeatInv
  <2>4. Len(hits) \in Nat
    BY <2>3, LenProperties
  <2> HIDE DEF hits, last
  <2>5. Apart(fon_list, hits, 0)
    BY <1>0, <1>4, <2>2, <2>3, <2>4 DEF Apart
  <2>6. Once(fon_list \o hits)
    BY <1>0, <1>4, <2>3, <2>5, ConcatOnce
  <2>7. Apart(fon_list \o hits, remote, s + BATCH_SIZE)
    <3>1. /\ Len(fon_list \o hits) = Len(fon_list) + Len(hits)
          /\ \A i \in 1..(Len(fon_list) + Len(hits)) :
                (fon_list \o hits)[i] = IF i <= Len(fon_list) THEN fon_list[i]
                                        ELSE hits[i - Len(fon_list)]
      BY <1>0, <2>3, ConcatProperties
    <3>2. ASSUME NEW i \in 1..(Len(fon_list) + Len(hits)), NEW j \in 1..Len(remote),
                 j > s + BATCH_SIZE
          PROVE  (fon_list \o hits)[i] # remote[j]
      <4>1. CASE i <= Len(fon_list)
        BY <1>0, <1>4, <3>1, <3>2, <4>1 DEF Apart
      <4>2. CASE i > Len(fon_list)
        <5> DEFINE k == i - Len(fon_list)
        <5>1. k \in 1..Len(hits) /\ (fon_list \o hits)[i] = hits[k]
          BY <1>0, <2>4, <3>1, <4>2
        <5>2. s + 1 + k - 1 \in 1..Len(remote) /\ s + 1 + k - 1 < j
          BY <1>0, <2>2, <2>3, <3>2, <5>1
        <5>3. hits[k] = remote[s + 1 + k - 1]
          BY <2>3, <5>1
        <5> HIDE DEF k
        <5>4. QED
          BY <5>1, <5>2, <5>3 DEF RepeatInv, Once
      <4>3. QED
        BY <1>0, <2>4, <4>1, <4>2
    <3>3. QED
      BY <3>1, <3>2 DEF Apart
  <2>8. fon_list' = fon_list \o hits
    BY <1>4 DEF hits
  <2>9. QED
    BY <1>4, <2>6, <2>7, <2>8 DEF RepeatInv
<1>5. CASE FirstPage
  <2>1. /\ fon_list = <<>> /\ fon_list' = OppHits(0) /\ UNCHANGED <<remote, start>>
        /\ start = 0 /\ pc' \in {"page", "save"}
    BY <1>5 DEF FirstPage, NextPc, RepeatInv, PagesInv
  <2>2. OppHits(0) \in Seq(Ids)
    BY <1>0, HitsType
  <2>3. fon_list \o OppHits(0) = OppHits(0)
    BY <2>1, <2>2, ConcatEmptySeq
  <2>4. Once(fon_list) /\ Apart(fon_list, remote, 0)
    BY <2>1, EmptySeq DEF Once, Apart
  <2>5. QED
    BY <1>4, <2>1, <2>3, <2>4
<1>6. CASE NextPage
  <2>1. /\ fon_list' = fon_list \o OppHits(start + BATCH_SIZE) /\ UNCHANGED <<remote, kinds>>
        /\ start' = start + BATCH_SIZE /\ pc' \in {"page", "save"} /\ pc = "page"
    BY <1>6 DEF NextPage, NextPc, OppHits, Rows
  <2>2. CASE kinds \subseteq {"remove"}
    <3>1. Once(fon_list) /\ Apart(fon_list, remote, start + BATCH_SIZE)
      BY <2>1, <2>2 DEF RepeatInv
    <3>2. start + BATCH_SIZE \in Nat
      BY <1>0
    <3>3. QED
      BY <1>4, <2>1, <3>1, <3>2
  <2>3. CASE ~(kinds \subseteq {"remove"})
    BY <2>1, <2>3 DEF RepeatInv
  <2>4. QED
    BY <2>2, <2>3
<1>7. CASE UNCHANGED vars
  BY <1>7 DEF vars, RepeatInv
<1>8. QED
  BY <1>1, <1>2, <1>3, <1>5, <1>6, <1>7 DEF Next

\* PK = "id" of the bronze table: for any page size and any list, no opportunity is
\* pulled twice while others are only appended, or only taken off.
THEOREM NothingTwice == Spec => []NoRepeats
<1>1. Init => RepeatInv
  <2> SUFFICES ASSUME Init PROVE RepeatInv
    OBVIOUS
  <2>1. PICK n \in 0..Published : remote = [i \in 1..n |-> i]
    BY DEF Init
  <2>2. n \in Nat
    BY ExtractAssumption
  <2>3. Len(remote) = n /\ \A i \in 1..n : remote[i] = i
    BY <2>1, <2>2
  <2>4. QED
    BY <2>3 DEF Init, RepeatInv, Once
<1>2. TypeOK /\ PagesInv /\ RepeatInv => NoRepeats
  <2> SUFFICES ASSUME TypeOK, PagesInv, RepeatInv,
                      kinds \subseteq {"append"} \/ kinds \subseteq {"remove"}
               PROVE  Once(fon_list)
    BY LenProperties DEF NoRepeats, Once, TypeOK
  <2>1. CASE pc \in {"idle", "first"}
    BY <2>1, EmptySeq DEF RepeatInv, Once
  <2>2. CASE pc \in {"page", "save"} /\ kinds \subseteq {"remove"}
    BY <2>2 DEF RepeatInv
  <2>3. CASE pc \in {"page", "save"} /\ kinds \subseteq {"append"}
    <3>1. /\ remote \in Seq(Ids) /\ Len(remote) \in Nat /\ Len(fon_list) \in Nat
          /\ BATCH_SIZE \in Nat /\ start \in Nat /\ total \in Nat
      BY ExtractAssumption, LenProperties DEF TypeOK
    <3>2. \E n \in Nat : n <= Len(remote) /\ fon_list = SubSeq(remote, 1, n)
      <4>1. CASE pc = "save"
        BY <2>3, <3>1, <4>1 DEF PagesInv
      <4>2. CASE pc = "page"
        <5>1. start + BATCH_SIZE \in Nat /\ start + BATCH_SIZE <= Len(remote)
          BY <2>3, <3>1, <4>2 DEF PagesInv
        <5>2. QED
          BY <2>3, <4>2, <5>1 DEF PagesInv
      <4>3. QED
        BY <2>3, <4>1, <4>2
    <3>3. PICK n \in Nat : n <= Len(remote) /\ fon_list = SubSeq(remote, 1, n)
      BY <3>2
    <3>4. 1 \in Nat \ {0} /\ n \in Int
      OBVIOUS
    <3>5. Once(remote)
      BY DEF RepeatInv
    <3>6. QED
      BY <3>1, <3>3, <3>4, <3>5, StretchOnce
  <2>4. QED
    BY <2>1, <2>2, <2>3 DEF TypeOK
<1>3. QED
  BY <1>1, <1>2, PagesInit, RepeatStep, ExtractTypeInit, ExtractTypeStep, PagesStep, PTL DEF Spec
=============================================================================
