----------------------------- MODULE HelperProofs ------------------------------
(***************************************************************************)
(* Theorems about the helpers: about RetryGet, for any max_retries and any *)
(* answers; about S3Helpers, for any bucket, page size and retry_count and *)
(* any number of changes by another process; about the functions of        *)
(* GenericHelpers and RowHelpers, for every year and period, lists of      *)
(* every length and tables of any rows; and about all of them as Helpers   *)
(* calls them.                                                             *)
(***************************************************************************)
EXTENDS Helpers, SequenceTheorems, FiniteSetTheorems, WellFoundedInduction, TLAPS

-----------------------------------------------------------------------------
(* get_with_exception_hand.                                                *)

\* A pause is taken only before the pauses run out; without that, counting a
\* retry could overrun them.
TypeInv == TypeOK /\ (pc = "sleep" => current_retries < Pauses)

\* Every step of the retry loop keeps the types.
LEMMA TypeInvStep == TypeInv /\ [Next]_vars => TypeInv'
<1> USE BudgetsAssumption DEF TypeInv, TypeOK, Pauses, Answers, Expected, Unexpected
<1> SUFFICES ASSUME TypeInv, [Next]_vars
             PROVE  TypeInv'
  OBVIOUS
<1>1. CASE CheckArguments
  BY <1>1 DEF CheckArguments, Finish
<1>2. CASE Call
  BY <1>2 DEF Call, Finish, MayRetry
<1>3. CASE Sleep
  BY <1>3 DEF Sleep
<1>4. CASE FallOut
  BY <1>4 DEF FallOut, Finish
<1>5. CASE UNCHANGED vars
  BY <1>5 DEF vars
<1>6. QED
  BY <1>1, <1>2, <1>3, <1>4, <1>5 DEF Next

\* The loop without its fairness: what safety rests on.
SafeSpec == Init /\ [][Next]_vars

LEMMA RetryTypes == SafeSpec => []TypeOK
<1>1. Init => TypeInv
  BY BudgetsAssumption DEF Init, TypeInv, TypeOK, Pauses, Answers
<1>2. TypeInv => TypeOK
  BY DEF TypeInv
<1>3. QED
  BY <1>1, <1>2, TypeInvStep, PTL DEF SafeSpec

\* Type correctness, with the timeout of every request.
THEOREM RetryTypeCorrect == Spec => []TypeOK
BY RetryTypes, PTL DEF Spec, SafeSpec

-----------------------------------------------------------------------------
\* In the loop the last request has not succeeded, and the function returns a value
\* exactly when it has.
SuccessInv == /\ pc # "done" => outcome = "none" /\ answer # "ok"
              /\ pc = "done" => (outcome = "returned" <=> answer = "ok")

\* Only a request changes the answer; whatever else ends the function raises.
LEMMA SuccessStep ==
    ASSUME SuccessInv, [Next]_vars
    PROVE  SuccessInv'
<1> USE DEF SuccessInv
<1>1. CASE Call
  BY <1>1 DEF Call, Finish, Answers, Expected, Unexpected
<1>2. CASE CheckArguments \/ FallOut
  BY <1>2 DEF CheckArguments, FallOut, Finish
<1>3. CASE Sleep \/ UNCHANGED vars
  BY <1>3 DEF Sleep, vars
<1>4. QED
  BY <1>1, <1>2, <1>3 DEF Next

LEMMA RetrySuccess == SafeSpec => []ReturnsOnlySuccess
<1>1. Init => SuccessInv
  BY DEF Init, SuccessInv
<1>2. SuccessInv => ReturnsOnlySuccess
  BY DEF SuccessInv, ReturnsOnlySuccess
<1>3. QED
  BY <1>1, <1>2, SuccessStep, PTL DEF SafeSpec

\* Whatever the budgets, nothing but a successful request makes the function
\* return; in particular it never returns None or an error body.
THEOREM OnlySuccessReturned == Spec => []ReturnsOnlySuccess
BY RetrySuccess, PTL DEF Spec, SafeSpec

-----------------------------------------------------------------------------
\* Every step keeps the loop invariant.
LEMMA LoopStep ==
    ASSUME TypeInv, Loop, [Next]_vars
    PROVE  Loop'
<1> USE BudgetsAssumption DEF TypeInv, TypeOK, Loop, Pauses
<1>1. CASE CheckArguments
  BY <1>1 DEF CheckArguments, Finish, Verdict, Expected, Unexpected
<1>2. CASE Call
  <2>1. PICK a \in Answers :
           /\ answer' = a
           /\ \/ a = "ok" /\ Finish("returned")
              \/ a = Unexpected /\ Finish(a)
              \/ a \in Expected /\ MayRetry /\ pc' = "sleep" /\ UNCHANGED outcome
              \/ a \in Expected /\ ~MayRetry /\ Finish(a)
    BY <1>2 DEF Call
  <2>2. /\ max_retries \in 0..12 /\ current_retries < 12 /\ calls = current_retries
        /\ current_retries <= max_retries
    BY <1>2 DEF Call
  <2>3. calls' = calls + 1 /\ UNCHANGED <<max_retries, current_retries>>
    BY <1>2 DEF Call
  <2>4. CASE pc' = "sleep" /\ MayRetry
    BY <2>2, <2>3, <2>4 DEF MayRetry, Verdict
  <2>5. CASE a = "ok" /\ Finish("returned")
    <3>1. pc' = "done" /\ outcome' = "returned" /\ answer' = "ok"
      BY <2>1, <2>5 DEF Finish
    <3>2. calls' <= max_retries' + 1
      BY <2>2, <2>3
    <3>3. Verdict'
      BY <3>1, <3>2 DEF Verdict, Expected, Unexpected
    <3>4. QED
      BY <3>1, <3>3
  <2>6. CASE a = Unexpected /\ Finish(a)
    BY <2>1, <2>2, <2>3, <2>6 DEF Finish, Verdict, Expected, Unexpected
  <2>7. CASE a \in Expected /\ ~MayRetry /\ Finish(a)
    <3>1. calls' = max_retries' + 1
      BY <2>2, <2>3, <2>7 DEF MayRetry
    <3>2. outcome' \in Expected /\ outcome' = answer' /\ pc' = "done" /\ outcome' # "returned"
      BY <2>1, <2>7 DEF Finish, Expected
    <3>3. Verdict'
      BY <2>2, <2>3, <3>1, <3>2 DEF Verdict, Expected, Unexpected
    <3>4. QED
      BY <3>2, <3>3
  <2>8. QED
    BY <2>1, <2>4, <2>5, <2>6, <2>7
<1>3. CASE Sleep
  BY <1>3 DEF Sleep, Verdict
<1>4. CASE FallOut
  <2>1. max_retries' = Pauses /\ pc' = "done"
    BY <1>4 DEF FallOut, Finish
  <2>2. QED
    BY <2>1 DEF Verdict
<1>5. CASE UNCHANGED vars
  BY <1>5 DEF vars, Verdict
<1>6. QED
  BY <1>1, <1>2, <1>3, <1>4, <1>5 DEF Next

LEMMA RetryEnds == SafeSpec => []Verdict
<1>1. Init => TypeInv /\ Loop
  BY BudgetsAssumption DEF Init, TypeInv, TypeOK, Loop, Verdict, Pauses, Answers
<1>2. TypeInv /\ Loop /\ [Next]_vars => TypeInv' /\ Loop'
  BY TypeInvStep, LoopStep
<1>3. Loop => Verdict
  BY DEF Loop
<1>4. QED
  BY <1>1, <1>2, <1>3, PTL DEF SafeSpec

\* For every budget but 12, the default: exactly max_retries + 1 requests before
\* an expected exception is raised, and it is the last one met.
THEOREM RetryVerdict == Spec => []Verdict
BY RetryEnds, PTL DEF Spec, SafeSpec

-----------------------------------------------------------------------------
(* One call of an S3 helper.                                               *)

Endings == {"none", "returned", "client_error", "other_error", "runtime_error", "killed"}

\* The shape of a call's arguments.
LEMMA CallTypes ==
    ASSUME NEW c \in Calls
    PROVE  /\ c.fn \in {"download", "delete", "rename", "delete_list", "delete_prefix",
                        "list", "file_list"}
           /\ c.fn \in {"download", "delete", "rename"} => c.key \in Keys
           /\ c.fn = "download" => c.retry_count \in Int
           /\ c.fn = "rename" => c.new_key \in Keys
           /\ c.fn \in {"delete_list", "delete_prefix"} => c.key_list \subseteq Keys
BY CountsAssumption DEF Calls

\* Which requests a call makes.
StepInv ==
    /\ step = "get" => call.fn = "download"
    /\ step = "copy" => call.fn = "rename"
    /\ step = "delete" => call.fn \in {"delete", "rename"}
    /\ step = "page" => call.fn \in {"delete_prefix", "list", "file_list"}
    /\ step = "delete_objects" => call.fn \in {"delete_list", "delete_prefix"}
    /\ ending = "none" <=> step # "done"

S3Inv == S3TypeOK /\ StepInv

LEMMA S3InitType == S3Init => S3Inv
<1> SUFFICES ASSUME NEW c \in Calls, S3Start(c)
             PROVE  S3Inv
  BY DEF S3Init
<1>1. step = FirstStep[c.fn] /\ call = c
  BY DEF S3Start
<1>2. /\ c.fn = "download" => step = "get"
      /\ c.fn = "delete" => step = "delete"
      /\ c.fn = "rename" => step = "copy"
      /\ c.fn = "delete_list" => step = "delete_objects"
      /\ c.fn \in {"delete_prefix", "list", "file_list"} => step = "page"
  BY <1>1 DEF FirstStep
<1>3. StepInv
  BY <1>1, <1>2, CallTypes DEF S3Start, StepInv
<1>4. object_list \subseteq Keys
  BY <1>1, CallTypes DEF S3Start
<1>5. S3TypeOK
  BY <1>1, <1>2, <1>4, CallTypes, CountsAssumption DEF S3Start, S3TypeOK, Objects
<1>6. QED
  BY <1>3, <1>5 DEF S3Inv

\* The bucket after a request that may have had its effect.
LEMMA BucketTypes ==
    ASSUME S3TypeOK, NEW k \in Keys, NEW o \in Objects
    PROVE  [bucket EXCEPT ![k] = o] \in [Keys -> Objects]
BY DEF S3TypeOK

\* Every step of a helper keeps the types.
LEMMA S3RequestType ==
    ASSUME S3Inv, S3Step
    PROVE  S3Inv'
<1> USE DEF S3Inv
<1>0. call \in Calls /\ attempt \in Nat /\ Missing \in Objects
  BY DEF S3TypeOK, Objects
<1>1. CASE Attempt
  <2>1. call.retry_count \in Int /\ call.key \in Keys /\ attempt <= call.retry_count
    BY <1>0, <1>1, CallTypes DEF Attempt, StepInv
  <2>2. attempt' \in Nat /\ attempt' <= call.retry_count + 1
    BY <1>0, <1>1, <2>1 DEF Attempt
  <2>3. file' \in Objects
    BY <1>1, <2>1 DEF Attempt, Failed, S3TypeOK
  <2>4. \/ step' = step /\ ending' = ending
        \/ step' = "done" /\ ending' \in {"returned", "client_error", "other_error"}
    BY <1>1 DEF Attempt, Failed, End
  <2>5. QED
    BY <1>1, <2>2, <2>3, <2>4 DEF Attempt, S3TypeOK, StepInv
<1>2. CASE NoAttemptLeft
  BY <1>2 DEF NoAttemptLeft, End, S3TypeOK, StepInv
<1>3. CASE Copy
  <2>1. call.fn = "rename" /\ call.key \in Keys /\ call.new_key \in Keys
    BY <1>0, <1>3, CallTypes DEF Copy, StepInv
  <2>2. bucket' \in [Keys -> Objects]
    BY <1>3, <2>1, BucketTypes DEF Copy, Request, Copied, S3TypeOK
  <2>3. \/ step' = "delete" /\ ending' = ending
        \/ step' = "done" /\ ending' = "client_error"
    BY <1>3 DEF Copy, End
  <2>4. QED
    BY <1>3, <2>1, <2>2, <2>3 DEF Copy, unwritten, S3TypeOK, StepInv
<1>4. CASE Delete
  <2>1. bucket' \in [Keys -> Objects]
    <3>1. call.key \in Keys
      BY <1>0, <1>4, CallTypes DEF Delete, StepInv
    <3>2. QED
      BY <1>0, <1>4, <3>1, BucketTypes DEF Delete, Request, Deleted, S3TypeOK
  <2>2. QED
    BY <1>4, <2>1 DEF Delete, End, unwritten, S3TypeOK, StepInv
<1>5. CASE ListPage
  <2>1. Page \subseteq Keys
    BY DEF Page, ToCome, Present
  <2>2. object_list' \subseteq Keys /\ marker' \in Keys \cup {-1}
    BY <1>5, <2>1 DEF ListPage, S3TypeOK
  <2>3. \/ step' = step /\ ending' = ending
        \/ step' = "delete_objects" /\ ending' = ending /\ call.fn = "delete_prefix"
        \/ step' = "done" /\ ending' = "returned"
    BY <1>5 DEF ListPage, End
  <2>4. QED
    BY <1>5, <2>2, <2>3 DEF ListPage, S3TypeOK, StepInv
<1>6. CASE ListFails
  BY <1>6 DEF ListFails, End, unwritten, S3TypeOK, StepInv
<1>7. CASE DeleteObjects
  <2>1. bucket' \in [Keys -> Objects] /\ deleted' \subseteq Keys
    BY <1>0, <1>7 DEF DeleteObjects, S3TypeOK
  <2>2. step' = "done" /\ ending' \in {"returned", "client_error"}
    BY <1>7 DEF DeleteObjects, End
  <2>3. QED
    BY <1>7, <2>1, <2>2 DEF DeleteObjects, S3TypeOK, StepInv
<1>8. QED
  BY <1>1, <1>2, <1>3, <1>4, <1>5, <1>6, <1>7 DEF S3Step

LEMMA S3StepType == S3Inv /\ [S3Next]_s3vars => S3Inv'
<1> SUFFICES ASSUME S3Inv, [S3Next]_s3vars
             PROVE  S3Inv'
  OBVIOUS
<1>1. CASE Put
  <2>1. bucket' \in [Keys -> Objects] /\ touched' \subseteq Keys
    BY <1>1, BucketTypes DEF Put, S3Inv, S3TypeOK
  <2>2. puts' \in 0..MaxPuts
    BY <1>1, CountsAssumption DEF Put, S3Inv, S3TypeOK
  <2>3. QED
    BY <1>1, <2>1, <2>2 DEF Put, progress, S3Inv, S3TypeOK, StepInv
<1>2. CASE S3Kill
  BY <1>2 DEF S3Kill, End, unwritten, S3Inv, S3TypeOK, StepInv
<1>3. CASE UNCHANGED s3vars
  BY <1>3 DEF s3vars, progress, S3Inv, S3TypeOK, StepInv
<1>4. QED
  BY <1>1, <1>2, <1>3, S3RequestType DEF S3Next

\* The types of a call's progress, and that no download is tried more often than
\* retry_count + 1 times (aws.py:222).
THEOREM S3TypeCorrect == S3Spec => []S3TypeOK
<1>1. S3Inv => S3TypeOK
  BY DEF S3Inv
<1>2. QED
  BY <1>1, S3InitType, S3StepType, PTL DEF S3Spec

-----------------------------------------------------------------------------
(* Renames.                                                                *)

\* Nobody else has written to the two keys of the rename, and there was an object.
Renaming == /\ call.fn = "rename"
            /\ before[call.key] # Missing
            /\ touched \cap {call.key, call.new_key} = {}

\* Until the copy is confirmed the object is under its old key, from then on under
\* its new one.
RenameInv == Renaming =>
    /\ step = "copy" => bucket[call.key] = before[call.key]
    /\ step = "delete" => /\ bucket[call.new_key] = before[call.key]
                          /\ call.key # call.new_key
    /\ step = "done" => before[call.key] \in {bucket[call.key], bucket[call.new_key]}
    /\ ending = "returned" => /\ bucket[call.key] = Missing
                              /\ bucket[call.new_key] = before[call.key]

LEMMA RenameStep == S3Inv /\ RenameInv /\ [S3Next]_s3vars => RenameInv'
<1> SUFFICES ASSUME S3Inv, RenameInv, [S3Next]_s3vars, Renaming'
             PROVE  RenameInv'
  BY DEF RenameInv
<1> USE DEF S3Inv
<1>0. /\ call' = call /\ before' = before /\ touched \subseteq touched'
      /\ Renaming /\ call.fn = "rename" /\ call.key \in Keys /\ call.new_key \in Keys
      /\ bucket \in [Keys -> Objects]
  <2>1. call' = call /\ before' = before /\ touched \subseteq touched'
    BY DEF S3Next, S3Step, Attempt, NoAttemptLeft, Copy, Delete, ListPage, ListFails,
           DeleteObjects, Put, S3Kill, unwritten, s3vars
  <2>2. Renaming
    BY <2>1 DEF Renaming
  <2>3. QED
    BY <2>1, <2>2, CallTypes DEF Renaming, S3TypeOK
<1>1. CASE Copy
  <2>1. CASE bucket' = bucket /\ End("client_error")
    BY <1>0, <1>1, <2>1 DEF Copy, End, RenameInv
  <2>2. CASE Copied /\ call.key # call.new_key
    <3>1. /\ bucket'[call.new_key] = before[call.key]
          /\ bucket'[call.key] = before[call.key]
      BY <1>0, <1>1, <2>2 DEF Copy, Copied, RenameInv
    <3>2. \/ step' = "delete" /\ ending' = ending
          \/ step' = "done" /\ ending' = "client_error"
      BY <1>1 DEF Copy, End
    <3>3. ending = "none"
      BY <1>1 DEF Copy, StepInv
    <3>4. QED
      BY <1>0, <2>2, <3>1, <3>2, <3>3 DEF RenameInv
  <2>3. QED
    BY <1>1, <2>1, <2>2 DEF Copy, Request
<1>2. CASE Delete
  <2>1. bucket[call.new_key] = before[call.key] /\ call.key # call.new_key
    BY <1>0, <1>2 DEF Delete, RenameInv
  <2>2. bucket'[call.new_key] = before[call.key]
    BY <1>0, <1>2, <2>1 DEF Delete, Request, Deleted
  <2>3. /\ step' = "done"
        /\ ending' = "returned" => Deleted
    BY <1>2 DEF Delete, End
  <2>4. Deleted => bucket'[call.key] = Missing
    BY <1>0 DEF Deleted
  <2>5. QED
    BY <1>0, <2>2, <2>3, <2>4 DEF RenameInv
<1>3. CASE Put
  <2>1. bucket'[call.key] = bucket[call.key] /\ bucket'[call.new_key] = bucket[call.new_key]
    BY <1>0, <1>3 DEF Put, Renaming
  <2>2. step' = step /\ ending' = ending
    BY <1>3 DEF Put, progress
  <2>3. QED
    BY <1>0, <2>1, <2>2 DEF RenameInv
<1>4. CASE S3Kill
  BY <1>0, <1>4 DEF S3Kill, End, unwritten, RenameInv, StepInv, S3TypeOK
<1>5. CASE UNCHANGED s3vars
  BY <1>0, <1>5 DEF s3vars, progress, RenameInv
<1>6. ~(Attempt \/ NoAttemptLeft \/ ListPage \/ ListFails \/ DeleteObjects)
  BY <1>0 DEF Attempt, NoAttemptLeft, ListPage, ListFails, DeleteObjects, StepInv
<1>7. QED
  BY <1>1, <1>2, <1>3, <1>4, <1>5, <1>6 DEF S3Next, S3Step

\* "1) Copying the file ... 2) If the copy was successful, delete the old file"
\* (aws.py:283): whatever request fails and whenever the process is killed, a
\* rename never loses the object, and one that returns has moved it.
THEOREM RenameNeverLoses == S3Spec => []RenameKeeps
<1>1. S3Init => RenameInv
  <2> SUFFICES ASSUME NEW c \in Calls, S3Start(c), Renaming
               PROVE  RenameInv
    BY DEF S3Init, RenameInv
  <2>1. step = "copy" /\ bucket = before /\ ending = "none"
    BY DEF S3Start, FirstStep, Renaming
  <2>2. QED
    BY <2>1 DEF RenameInv
<1>2. S3Inv /\ RenameInv => RenameKeeps
  <2> SUFFICES ASSUME S3Inv, RenameInv, Renaming
               PROVE  /\ before[call.key] \in {bucket[call.key], bucket[call.new_key]}
                      /\ ending = "returned" => /\ bucket[call.key] = Missing
                                                /\ bucket[call.new_key] = before[call.key]
    BY DEF RenameKeeps, Renaming
  <2>1. step \in {"copy", "delete", "done"}
    BY DEF S3Inv, StepInv, S3TypeOK, Renaming
  <2>2. QED
    BY <2>1 DEF RenameInv
<1>3. QED
  BY <1>1, <1>2, RenameStep, S3InitType, S3StepType, PTL DEF S3Spec

-----------------------------------------------------------------------------
(* Downloads.                                                              *)

\* A download does not write to the bucket; it has its file exactly when it has
\* returned, and attempts left while it is under way.
DownloadInv == call.fn = "download" =>
    /\ \A k \in Keys \ touched : bucket[k] = before[k]
    /\ step = "get" =>
          file = Missing /\ (call.retry_count >= 0 => attempt <= call.retry_count)
    /\ file # Missing /\ call.key \notin touched => file = before[call.key]
    /\ step = "done" /\ ending # "killed" =>
          /\ call.retry_count >= 0 => (ending = "returned" <=> file # Missing)
          /\ ending = "client_error" => attempt = call.retry_count + 1

LEMMA DownloadStep == S3Inv /\ DownloadInv /\ [S3Next]_s3vars => DownloadInv'
<1> SUFFICES ASSUME S3Inv, DownloadInv, [S3Next]_s3vars, call'.fn = "download"
             PROVE  DownloadInv'
  BY DEF DownloadInv
<1> USE DEF S3Inv
<1>0. /\ call' = call /\ call.fn = "download" /\ before' = before
      /\ call.key \in Keys /\ call.retry_count \in Int /\ attempt \in Nat
      /\ bucket \in [Keys -> Objects]
  <2>1. call' = call /\ before' = before
    BY DEF S3Next, S3Step, Attempt, NoAttemptLeft, Copy, Delete, ListPage, ListFails,
           DeleteObjects, Put, S3Kill, unwritten, s3vars
  <2>2. QED
    BY <2>1, CallTypes DEF S3TypeOK
<1>1. CASE Attempt
  <2>1. /\ step = "get" /\ file = Missing /\ attempt <= call.retry_count
        /\ attempt' = attempt + 1 /\ bucket' = bucket /\ touched' = touched
    BY <1>0, <1>1 DEF Attempt, DownloadInv
  <2>2. \/ bucket[call.key] # Missing /\ file' = bucket[call.key] /\ End("returned")
        \/ file' = file /\ attempt < call.retry_count /\ UNCHANGED <<step, ending>>
        \/ file' = file /\ ~(attempt < call.retry_count) /\ End("client_error")
        \/ file' = file /\ End("other_error")
    BY <1>1 DEF Attempt, Failed
  <2>3. QED
    BY <1>0, <2>1, <2>2 DEF End, DownloadInv
<1>2. CASE NoAttemptLeft
  <2>1. call.retry_count < 0 /\ UNCHANGED <<bucket, file, touched, attempt>>
    BY <1>0, <1>2 DEF NoAttemptLeft, DownloadInv
  <2>2. step' = "done" /\ ending' = "returned"
    BY <1>2 DEF NoAttemptLeft, End
  <2>3. QED
    BY <1>0, <2>1, <2>2 DEF DownloadInv
<1>3. CASE Put
  BY <1>0, <1>3 DEF Put, progress, DownloadInv
<1>4. CASE S3Kill
  BY <1>0, <1>4 DEF S3Kill, End, unwritten, DownloadInv
<1>5. CASE UNCHANGED s3vars
  BY <1>0, <1>5 DEF s3vars, progress, DownloadInv
<1>6. ~(Copy \/ Delete \/ ListPage \/ ListFails \/ DeleteObjects)
  BY <1>0 DEF Copy, Delete, ListPage, ListFails, DeleteObjects, StepInv
<1>7. QED
  BY <1>1, <1>2, <1>3, <1>4, <1>5, <1>6 DEF S3Next, S3Step

\* "The number of times to retry the download" (aws.py:216): for every retry_count
\* a download that returns has the file, and a ClientError comes only after that
\* many retries; none leaves part of a file.
THEOREM DownloadEndsRight == S3Spec => []DownloadVerdict
<1>1. S3Init => DownloadInv
  <2> SUFFICES ASSUME NEW c \in Calls, S3Start(c), call.fn = "download"
               PROVE  DownloadInv
    BY DEF S3Init, DownloadInv
  <2>1. step = "get" /\ bucket = before /\ file = Missing /\ attempt = 0
    BY DEF S3Start, FirstStep
  <2>2. call.retry_count \in Int
    BY CallTypes DEF S3Start
  <2>3. QED
    BY <2>1, <2>2 DEF DownloadInv
<1>2. S3Inv /\ DownloadInv => DownloadVerdict
  <2> SUFFICES ASSUME S3Inv, DownloadInv, call.fn = "download", step = "done",
                      ending # "killed"
               PROVE  DownloadVerdict
    BY DEF DownloadVerdict
  <2>1. call.retry_count \in Int /\ attempt \in Nat
        /\ (attempt > 0 => attempt <= call.retry_count + 1)
    BY CallTypes DEF S3Inv, S3TypeOK
  <2>2. QED
    BY <2>1 DEF DownloadInv, DownloadVerdict
<1>3. QED
  BY <1>1, <1>2, DownloadStep, S3InitType, S3StepType, PTL DEF S3Spec

-----------------------------------------------------------------------------
(* Listings.                                                               *)

\* The pages before the marker are complete: what nobody touched is listed or is
\* still to come; one page takes all if there are few enough.
ListInv ==
    /\ \A k \in Keys \ touched :
          step \in {"page", "delete_objects"} => bucket[k] = before[k]
    /\ call.fn \in {"list", "delete_prefix"} =>
          /\ step = "page" => \A k \in Untouched : k \in object_list \/ k > marker
          /\ step = "delete_objects" \/ ending = "returned" => Untouched \subseteq object_list
    /\ call.fn = "file_list" =>
          /\ step = "page" => object_list = {} /\ marker = -1
          /\ ending = "returned" /\ touched = {} /\ Cardinality(Untouched) <= PageSize
                => object_list = Untouched
    /\ call.fn \in {"delete_list", "delete_prefix"} /\ ending = "returned" =>
          /\ deleted \subseteq object_list
          /\ \A k \in Keys \ touched : bucket[k] = IF k \in deleted THEN Missing ELSE before[k]

\* Untouched keys can only become fewer.
LEMMA UntouchedShrinks ==
    ASSUME before' = before, touched \subseteq touched'
    PROVE  Untouched' \subseteq Untouched
BY DEF Untouched, Present

\* A page holds the first of the keys to come: none of those it leaves out is
\* before one it holds.
LEMMA PageIsFirst ==
    ASSUME NEW k \in ToCome, k \notin Page, NEW p \in Page
    PROVE  k > p
<1> DEFINE Below(n) == {j \in ToCome : j < n}
<1>1. ToCome \subseteq Keys /\ Page \subseteq ToCome
  BY DEF ToCome, Page, Present
<1>2. k \in Nat /\ p \in Nat /\ IsFiniteSet(ToCome) /\ (\A j \in ToCome : j \in Nat)
  BY <1>1, KeysAssumption, FS_Subset
<1>3. IsFiniteSet(Below(p)) /\ IsFiniteSet(Below(k))
  BY <1>2, FS_Subset
<1>4. Cardinality(Below(p)) \in Nat /\ Cardinality(Below(k)) \in Nat
  BY <1>3, FS_CardinalityType
<1>5. Cardinality(Below(p)) < PageSize /\ ~(Cardinality(Below(k)) < PageSize)
  BY DEF Page
<1>6. k <= p => Below(k) \subseteq Below(p)
  <2>1. ASSUME k <= p, NEW j \in ToCome, j < k
        PROVE  j < p
    <3>1. j \in Nat /\ k \in Nat /\ p \in Nat
      BY <1>2
    <3>2. QED
      BY <2>1, <3>1
  <2>2. QED
    BY <2>1
<1> HIDE DEF Below
<1>7. k <= p => Cardinality(Below(k)) <= Cardinality(Below(p))
  BY <1>3, <1>6, FS_Subset
<1>8. ~(k <= p)
  BY <1>4, <1>5, <1>7, CountsAssumption
<1>9. QED
  BY <1>2, <1>8

\* A page has room for keys that are no more than PageSize.
LEMMA PageHasRoom ==
    ASSUME Cardinality(ToCome) <= PageSize
    PROVE  Page = ToCome
<1> SUFFICES ASSUME NEW k \in ToCome
             PROVE  Cardinality({j \in ToCome : j < k}) < PageSize
  BY DEF Page
<1> DEFINE below == {j \in ToCome : j < k}
<1>1. ToCome \subseteq Keys
  BY DEF ToCome, Present
<1>2. IsFiniteSet(ToCome) /\ k \in Nat
  BY <1>1, KeysAssumption, FS_Subset
<1>3. below \subseteq ToCome /\ k \notin below
  BY <1>2
<1>4. IsFiniteSet(below)
  BY <1>2, <1>3, FS_Subset
<1> HIDE DEF below
<1>5. below \cup {k} \subseteq ToCome
  BY <1>3
<1>6. Cardinality(below \cup {k}) <= Cardinality(ToCome)
  BY <1>2, <1>5, FS_Subset
<1>7. Cardinality(below \cup {k}) = Cardinality(below) + 1
  BY <1>3, <1>4, FS_AddElement
<1>8. Cardinality(below) \in Nat /\ Cardinality(ToCome) \in Nat
  BY <1>2, <1>4, FS_CardinalityType
<1>9. Cardinality(below) < PageSize
  BY <1>6, <1>7, <1>8, CountsAssumption
<1>10. QED
  BY <1>9 DEF below

LEMMA ListStep == S3Inv /\ ListInv /\ [S3Next]_s3vars => ListInv'
<1> SUFFICES ASSUME S3Inv, ListInv, [S3Next]_s3vars
             PROVE  ListInv'
  OBVIOUS
<1> USE DEF S3Inv
<1>0. /\ call' = call /\ before' = before /\ touched \subseteq touched'
      /\ bucket \in [Keys -> Objects] /\ object_list \subseteq Keys
  BY DEF S3Next, S3Step, Attempt, NoAttemptLeft, Copy, Delete, ListPage, ListFails,
         DeleteObjects, Put, S3Kill, unwritten, s3vars, S3TypeOK
<1>1. Untouched' \subseteq Untouched
  BY <1>0, UntouchedShrinks
<1>2. CASE ListPage
  <2>0. /\ step = "page" /\ ending = "none" /\ UNCHANGED <<bucket, call, before, touched, deleted>>
        /\ object_list' = object_list \cup Page
        /\ call.fn \in {"delete_prefix", "list", "file_list"}
    BY <1>2 DEF ListPage, StepInv
  <2>1. Untouched' = Untouched
    BY <2>0 DEF Untouched, Present
  <2>2. \A k \in Untouched : k \in Keys /\ (k > marker => k \in ToCome)
    BY <2>0 DEF Untouched, ToCome, Present, ListInv
  <2>3. CASE LastPage /\ call.fn # "file_list"
    <3>1. Page = ToCome
      BY <2>3 DEF LastPage
    <3>2. Untouched \subseteq object_list'
      BY <2>0, <2>2, <2>3, <3>1 DEF ListInv
    <3>3. \/ step' = "delete_objects" /\ ending' = ending /\ call.fn = "delete_prefix"
          \/ step' = "done" /\ ending' = "returned" /\ call.fn = "list"
      BY <1>2, <2>0, <2>3 DEF ListPage, End
    <3>4. QED
      BY <2>0, <2>1, <3>2, <3>3 DEF ListInv
  <2>4. CASE call.fn = "file_list"
    <3>1. step' = "done" /\ ending' = "returned"
      BY <1>2, <2>4 DEF ListPage, LastPage, End
    <3>2. object_list' = Page
      BY <2>0, <2>4 DEF ListInv
    <3>3. ASSUME touched = {}, Cardinality(Untouched) <= PageSize
          PROVE  Page = Untouched
      <4>1. \A k \in Keys : bucket[k] = before[k]
        BY <2>0, <3>3 DEF ListInv
      <4>2. \A k \in Keys : k > -1
        BY KeysAssumption
      <4>3. ToCome = Untouched
        BY <2>0, <2>4, <3>3, <4>1, <4>2 DEF ToCome, Untouched, Present, ListInv
      <4>4. QED
        BY <3>3, <4>3, PageHasRoom
    <3>4. QED
      BY <2>0, <2>1, <2>4, <3>1, <3>2, <3>3 DEF ListInv
  <2>5. CASE ~LastPage
    <3>1. /\ step' = "page" /\ ending' = "none" /\ call.fn # "file_list"
          /\ marker' \in Page
      BY <1>2, <2>0, <2>5 DEF ListPage, LastPage
    <3>2. \A k \in ToCome : k \in Page \/ k > marker'
      BY <3>1, PageIsFirst
    <3>3. \A k \in Untouched : k \in object_list' \/ k > marker'
      BY <2>0, <2>2, <3>1, <3>2 DEF ListInv
    <3>4. QED
      BY <2>0, <2>1, <3>1, <3>3 DEF ListInv
  <2>6. QED
    BY <2>3, <2>4, <2>5
<1>3. CASE DeleteObjects
  <2>0. /\ step = "delete_objects" /\ ending = "none" /\ step' = "done"
        /\ UNCHANGED <<object_list, call, touched, before>>
        /\ call.fn \in {"delete_list", "delete_prefix"}
    BY <1>3 DEF DeleteObjects, End, StepInv
  <2>1. Untouched' = Untouched
    BY <2>0 DEF Untouched, Present
  <2>2. call.fn = "delete_prefix" => Untouched \subseteq object_list
    BY <2>0 DEF ListInv
  <2>3. ASSUME ending' = "returned"
        PROVE  /\ deleted' \subseteq object_list
               /\ \A k \in Keys \ touched :
                     bucket'[k] = IF k \in deleted' THEN Missing ELSE before[k]
    <3>1. /\ deleted' \subseteq object_list
          /\ bucket' = [k \in Keys |-> IF k \in deleted' THEN Missing ELSE bucket[k]]
      BY <1>3, <2>3 DEF DeleteObjects, End
    <3>2. \A k \in Keys \ touched : bucket[k] = before[k]
      BY <2>0 DEF ListInv
    <3>3. QED
      BY <3>1, <3>2
  <2>4. QED
    BY <2>0, <2>1, <2>2, <2>3 DEF ListInv
<1>4. CASE Put
  <2>1. UNCHANGED <<call, step, object_list, marker, ending, deleted>> /\ step # "done"
    BY <1>4 DEF Put, progress
  <2>2. ending = "none"
    BY <2>1 DEF StepInv
  <2>3. \A k \in Keys \ touched' : bucket'[k] = bucket[k] /\ k \notin touched
    BY <1>0, <1>4 DEF Put
  <2>4. QED
    BY <1>0, <1>1, <2>1, <2>2, <2>3 DEF ListInv
<1>5. CASE Attempt \/ NoAttemptLeft \/ Copy \/ Delete
  <2>1. call.fn \in {"download", "rename", "delete"} /\ step' \notin {"page", "delete_objects"}
    BY <1>5 DEF Attempt, NoAttemptLeft, Copy, Delete, Failed, End, StepInv
  <2>2. QED
    BY <1>0, <2>1 DEF ListInv
<1>6. CASE ListFails \/ S3Kill
  <2>1. /\ step' = "done" /\ ending' \notin {"none", "returned"}
    BY <1>6 DEF ListFails, S3Kill, End
  <2>2. QED
    BY <1>0, <2>1 DEF ListInv
<1>7. CASE UNCHANGED s3vars
  <2>1. Untouched' = Untouched
    BY <1>7 DEF s3vars, Untouched, Present
  <2>2. QED
    BY <1>7, <2>1 DEF s3vars, progress, ListInv
<1>8. QED
  BY <1>2, <1>3, <1>4, <1>5, <1>6, <1>7 DEF S3Next, S3Step

\* aws.py:88-174 and 249-279: for every page size a listing of several pages takes
\* in each key that is left alone meanwhile, one of a single page if it has room;
\* and of what is left alone a delete has removed exactly the keys it counts.
THEOREM ListingsMissNothing == S3Spec => []NothingMissed
<1>1. S3Init => ListInv
  <2> SUFFICES ASSUME NEW c \in Calls, S3Start(c)
               PROVE  ListInv
    BY DEF S3Init
  <2>1. /\ call = c /\ bucket = before /\ ending = "none" /\ marker = -1
        /\ step = FirstStep[c.fn]
        /\ c.fn = "file_list" => object_list = {}
    BY DEF S3Start
  <2>2. c.fn \in {"list", "delete_prefix"} => step = "page"
    BY <2>1 DEF FirstStep
  <2>3. \A k \in Untouched : k > marker
    BY <2>1, KeysAssumption DEF Untouched, Present
  <2>4. QED
    BY <2>1, <2>2, <2>3 DEF ListInv
<1>2. ListInv => NothingMissed
  BY DEF ListInv, NothingMissed
<1>3. QED
  BY <1>1, <1>2, ListStep, S3InitType, S3StepType, PTL DEF S3Spec

-----------------------------------------------------------------------------
(* Fiscal years and periods.                                               *)

\* fy and fy_period_calendar_dates (generic.py:29, 57) agree: both dates of a period
\* lie in the fiscal year they were asked for.
THEOREM PeriodsAreInTheirYear ==
    ASSUME NEW year \in Int, NEW period \in 2..12
    PROVE  Fy(PeriodStart(year, period)) = year /\ Fy(PeriodEnd(year, period)) = year
<1>1. /\ PeriodStart(year, period).year = YearOf(year, period)
      /\ PeriodStart(year, period).month = MonthOf(period)
      /\ PeriodEnd(year, period).year = YearOf(year, period)
      /\ PeriodEnd(year, period).month = MonthOf(period)
  BY DEF PeriodStart, PeriodEnd
<1>2. IF MonthOf(period) > 9 THEN YearOf(year, period) + 1 = year
      ELSE YearOf(year, period) = year
  BY DEF MonthOf, YearOf
<1>3. QED
  BY <1>1, <1>2 DEF Fy

\* The day after the last one of a month.
LEMMA NextDayOfLast ==
    ASSUME NEW y \in Int, NEW m \in 1..12, NEW d \in Int, d = MonthDays(y, m)
    PROVE  NextDay([year |-> y, month |-> m, day |-> d])
              = IF m < 12 THEN [year |-> y, month |-> m + 1, day |-> 1]
                ELSE [year |-> y + 1, month |-> 1, day |-> 1]
<1> DEFINE date == [year |-> y, month |-> m, day |-> d]
<1>1. date.year = y /\ date.month = m /\ date.day = d
  OBVIOUS
<1>2. ~(date.day < MonthDays(date.year, date.month))
      /\ date.day = MonthDays(date.year, date.month)
  BY <1>1
<1> HIDE DEF date
<1>3. NextDay(date) = IF date.month < 12
                      THEN [year |-> date.year, month |-> date.month + 1, day |-> 1]
                      ELSE [year |-> date.year + 1, month |-> 1, day |-> 1]
  BY <1>1, <1>2 DEF NextDay
<1>4. QED
  BY <1>1, <1>3 DEF date

\* The periods of a year are adjacent: the day after one is the first of the next,
\* also over the turn of the calendar year and in February.
THEOREM PeriodsAreAdjacent ==
    ASSUME NEW year \in Int, NEW period \in 2..11
    PROVE  NextDay(PeriodEnd(year, period)) = PeriodStart(year, period + 1)
<1> DEFINE y == YearOf(year, period)
           m == MonthOf(period)
           end == [year |-> y, month |-> m, day |-> MonthDays(y, m)]
<1>1. PeriodEnd(year, period) = end
  BY DEF PeriodEnd, PeriodStart
<1>2. y \in Int /\ m \in 1..12 /\ year \in Int
  BY DEF YearOf, MonthOf
<1>3. MonthDays(y, m) \in 28..31
  BY DEF MonthDays
<1>4. NextDay(end) = IF m < 12 THEN [year |-> y, month |-> m + 1, day |-> 1]
                     ELSE [year |-> y + 1, month |-> 1, day |-> 1]
  <2> HIDE DEF y, m
  <2>1. MonthDays(y, m) \in Int
    BY <1>3
  <2>2. QED
    BY <1>2, <2>1, NextDayOfLast
<1>5. PeriodStart(year, period + 1)
         = IF m < 12 THEN [year |-> y, month |-> m + 1, day |-> 1]
           ELSE [year |-> y + 1, month |-> 1, day |-> 1]
  <2>1. CASE m = 12
    BY <2>1 DEF PeriodStart, YearOf, MonthOf
  <2>2. CASE m # 12
    BY <1>2, <2>2 DEF PeriodStart, YearOf, MonthOf
  <2>3. QED
    BY <2>1, <2>2
<1>6. QED
  BY <1>1, <1>4, <1>5

-----------------------------------------------------------------------------
(* step.                                                                   *)

\* How many elements there are from the first one on, in a direction.
Room(length, first, direction) ==
    LET room == IF direction < 0 THEN first + 1 ELSE length - first
    IN  IF room < 0 THEN 0 ELSE room

\* As many steps as the direction says, if there is room.
StepCount(length, first, direction) ==
    LET room == Room(length, first, direction)
        wanted == Sign(direction) * direction
    IN  IF wanted < room THEN wanted ELSE room

\* step (generic.py:145) never leaves the list, never comes by an element twice and
\* stops early only at an end, for every list, start, direction and choice of the
\* start; the index it yields is the one of the value.
THEOREM StepsAreExact ==
    ASSUME NEW length \in Nat, NEW start \in 0..(length - 1), NEW direction \in Int,
           NEW include_start \in BOOLEAN
    PROVE  LET steps == Steps(length, start, direction, include_start)
               sign == Sign(direction)
               first == IF include_start THEN start ELSE start + sign
               count == StepCount(length, first, direction)
           IN  /\ DOMAIN steps = 1..count
               /\ \A k \in 1..count : LET i == first + sign * (k - 1)
                                      IN  steps[k] = <<i, i>> /\ i \in 0..(length - 1)
<1> DEFINE steps == Steps(length, start, direction, include_start)
           sign == Sign(direction)
           first == IF include_start THEN start ELSE start + sign
           count == StepCount(length, first, direction)
           true_start == TrueStart(start, direction, include_start)
           end == StepEnd(true_start, direction)
           slice == Slice(length, true_start, end, sign)
<1>1. (direction < 0 /\ sign = -1) \/ (direction >= 0 /\ sign = 1)
  BY DEF Sign
<1>2. first \in Int /\ -1 <= first /\ first <= length
  BY <1>1
<1>3. true_start = first
  BY <1>1, <1>2 DEF TrueStart, None
<1>4. count \in Nat
  BY <1>1, <1>2 DEF StepCount, Room
<1>5. CASE sign = 1
  <2>1. first >= 0 /\ direction >= 0
    BY <1>1, <1>5
  <2>2. end = first + direction /\ end >= 0 /\ OrZero(true_start) = first
    BY <1>2, <1>3, <2>1 DEF StepEnd, OrZero, None
  <2>3. slice = [k \in 1..count |-> first + sign * (k - 1)]
    <3> HIDE DEF first, true_start, end, sign
    <3>1. Slice(length, first, end, 1) = [k \in 1..count |-> first + 1 * (k - 1)]
      BY <1>2, <1>5, <2>1, <2>2 DEF Slice, None, StepCount, Room, Sign
    <3>2. QED
      BY <1>3, <1>5, <3>1
  <2>4. steps = [k \in 1..count |-> <<first + sign * (k - 1), first + sign * (k - 1)>>]
    <3>1. ~(true_start = None)
      BY <1>3, <2>1 DEF None
    <3>2. QED
      BY <2>2, <2>3, <3>1 DEF Steps
  <2>5. ASSUME NEW k \in 1..count
        PROVE  first + sign * (k - 1) \in 0..(length - 1)
    <3>1. count <= length - first
      BY <1>2, <1>5, <2>1 DEF StepCount, Room, Sign
    <3> HIDE DEF first, count, sign
    <3>2. QED
      BY <1>2, <1>4, <1>5, <2>1, <3>1
  <2> HIDE DEF steps, first, count, sign
  <2>6. /\ DOMAIN steps = 1..count
        /\ \A k \in 1..count : /\ steps[k] = <<first + sign * (k - 1), first + sign * (k - 1)>>
                               /\ first + sign * (k - 1) \in 0..(length - 1)
    BY <2>4, <2>5
  <2>7. QED
    BY <2>6 DEF steps, first, count, sign
<1>6. CASE sign = -1
  <2>0. direction < 0
    BY <1>1, <1>6
  <2>1. CASE first = -1
    <3>1. start = 0 /\ true_start = None
      BY <1>3, <1>6, <2>1 DEF None
    <3>2. end = None
      BY <2>0, <3>1 DEF StepEnd, OrZero, None
    <3>3. steps = <<>>
      BY <3>1, <3>2 DEF Steps
    <3>4. count = 0
      BY <2>0, <2>1 DEF StepCount, Room, Sign
    <3>5. QED
      BY <3>3, <3>4
  <2>2. CASE first # -1
    <3>1. first \in 0..(length - 1) /\ OrZero(true_start) = first /\ true_start # None
      BY <1>2, <1>3, <1>6, <2>2 DEF OrZero, None
    <3>2. end = IF first + direction >= 0 THEN first + direction ELSE -1
      BY <3>1 DEF StepEnd, None
    <3>3. count = IF -direction < first + 1 THEN -direction ELSE first + 1
      BY <1>6, <2>0, <3>1 DEF StepCount, Room
    <3>4. slice = [k \in 1..count |-> first + sign * (k - 1)]
      <4> HIDE DEF first, true_start, end, sign, count
      <4>1. Slice(length, first, end, -1) = [k \in 1..count |-> first + (-1) * (k - 1)]
        BY <2>0, <3>1, <3>2, <3>3 DEF Slice, None
      <4>2. QED
        BY <1>3, <1>6, <4>1
    <3>5. steps = [k \in 1..count |-> <<first + sign * (k - 1), first + sign * (k - 1)>>]
      BY <3>1, <3>4 DEF Steps
    <3> HIDE DEF steps, first, count, sign
    <3>6. ASSUME NEW k \in 1..count
          PROVE  first + sign * (k - 1) \in 0..(length - 1)
      BY <1>4, <1>6, <2>0, <3>1, <3>3
    <3>7. /\ DOMAIN steps = 1..count
          /\ \A k \in 1..count : /\ steps[k] = <<first + sign * (k - 1), first + sign * (k - 1)>>
                                 /\ first + sign * (k - 1) \in 0..(length - 1)
      BY <3>5, <3>6
    <3>8. QED
      BY <3>7 DEF steps, first, count, sign
  <2>3. QED
    BY <2>1, <2>2
<1>7. QED
  BY <1>1, <1>5, <1>6

-----------------------------------------------------------------------------
(* A call of a pure function.                                              *)

\* The arguments are those of a call, and nothing but a pure function ends.
PureInv == /\ user = "pure" => Arguments
           /\ ended # "none" => user = "pure"

LEMMA PureInit == HInit => PureInv
BY DEF HInit, PureInv

LEMMA PureStep == PureInv /\ [HNext]_hvars => PureInv'
<1> SUFFICES ASSUME PureInv, [HNext]_hvars
             PROVE  PureInv'
  OBVIOUS
<1>1. user' = user /\ args' = args
  BY DEF HNext, Get, S3Request, S3Others, Pure, purevars, hvars
<1>2. Arguments' <=> Arguments
  BY <1>1 DEF Arguments
<1>3. ended' # ended => user = "pure"
  BY DEF HNext, Get, S3Request, S3Others, Pure, purevars, hvars
<1>4. QED
  BY <1>1, <1>2, <1>3 DEF PureInv

\* A step that is not the call of a pure function leaves its result alone.
LEMMA PureAlone ==
    ASSUME PureInv, [HNext]_hvars
    PROVE  \/ UNCHANGED purevars
           \/ Arguments /\ Pure /\ ended = "none"
BY DEF PureInv, HNext, Get, S3Request, S3Others, Pure, purevars, hvars

\* The arguments of each function.
LEMMA ArgTypes ==
    ASSUME Arguments
    PROVE  /\ args.fn = "period" => args.year \in Int /\ args.period \in Int
           /\ args.fn = "step" => /\ args.length \in Nat /\ args.start \in Int
                                  /\ args.direction \in Int
                                  /\ args.include_start \in BOOLEAN
           /\ args.fn = "batch" => args.list \in Lists /\ args.n \in Int
           /\ args.fn = "clean" => /\ args.data \in Unclean /\ args.columns \in BOOLEAN
                                   /\ args.required \in BOOLEAN
                                   /\ args.options \in {"none", "pad", "pad_keep_null"}
                                   /\ args.return_dropped \in BOOLEAN
           /\ args.fn = "diff" => args.new \in Tables /\ args.current \in Tables
           /\ args.fn = "defc" => args.raw \in RawTables /\ args.groups \in Groups
<1>0. MaxLength \in Nat /\ MaxStep \in Nat
  BY SizesAssumption
<1>1. CASE args \in [fn : {"period"}, year : Years, period : 0..13]
  BY <1>1 DEF Years
<1>2. CASE args \in [fn : {"step"}, length : 0..MaxLength, start : -1..MaxLength,
                     direction : -MaxStep..MaxStep, include_start : BOOLEAN]
  BY <1>0, <1>2
<1>3. CASE args \in [fn : {"batch"}, list : Lists, n : -1..MaxStep]
  BY <1>0, <1>3
<1>4. CASE args \in [fn : {"clean"}, data : Unclean, columns : BOOLEAN, required : BOOLEAN,
                     options : {"none", "pad", "pad_keep_null"}, return_dropped : BOOLEAN]
  BY <1>4
<1>5. CASE args \in [fn : {"diff"}, new : Tables, current : Tables]
  BY <1>5
<1>6. CASE args \in [fn : {"defc"}, raw : RawTables, groups : Groups]
  BY <1>6
<1>7. QED
  BY <1>1, <1>2, <1>3, <1>4, <1>5, <1>6 DEF Arguments

\* What a function returned or raised.
Answered == /\ args.fn = "period" => CallPeriod
            /\ args.fn = "step" => CallStep
            /\ args.fn = "batch" => CallBatch
            /\ args.fn = "clean" => CallClean
            /\ args.fn = "diff" => CallDiff
            /\ args.fn = "defc" => CallDefc

LEMMA PureAnswers == Pure => Answered /\ args' = args
BY DEF Pure, Answered, CallPeriod, CallStep, CallBatch, CallClean, CallDiff, CallDefc

-----------------------------------------------------------------------------
(* Calls of the functions of generic.py.                                   *)

LEMMA PeriodCall ==
    ASSUME Arguments, Answered, args' = args
    PROVE  PeriodsJoin'
<1> SUFFICES ASSUME args.fn = "period", ended' = "returned"
             PROVE  PeriodsJoin'
  BY DEF PeriodsJoin
<1> DEFINE year == args.year
           period == args.period
<1>1. ValidPeriod(year, period) /\ result' = <<PeriodStart(year, period), PeriodEnd(year, period)>>
  BY DEF Answered, CallPeriod, Return, Raise
<1>2. year \in Int /\ period \in 2..12
  BY <1>1, ArgTypes DEF ValidPeriod
<1>3. result'[1] = PeriodStart(year, period) /\ result'[2] = PeriodEnd(year, period)
  BY <1>1
<1>4. Fy(result'[1]) = year /\ Fy(result'[2]) = year
  BY <1>2, <1>3, PeriodsAreInTheirYear
<1>5. period < 12 => NextDay(result'[2]) = PeriodStart(year, period + 1)
  <2> HAVE period < 12
  <2>1. period \in 2..11
    BY <1>2
  <2>2. QED
    BY <1>2, <1>3, <2>1, PeriodsAreAdjacent
<1>6. QED
  BY <1>4, <1>5 DEF PeriodsJoin

\* These are the steps from start, in that direction, as a sequence of pairs.
AreSteps(steps, length, start, direction, include_start) ==
    LET first == IF include_start THEN start ELSE start + Sign(direction)
        count == StepCount(length, first, direction)
    IN  /\ DOMAIN steps = 1..count
        /\ \A k \in 1..count : LET i == first + Sign(direction) * (k - 1)
                               IN  steps[k] = <<i, i>> /\ i \in 0..(length - 1)
        /\ Len(steps) = count
        /\ count \in Nat

LEMMA StepsAsSequence ==
    ASSUME NEW length \in Nat, NEW start \in 0..(length - 1), NEW direction \in Int,
           NEW include_start \in BOOLEAN
    PROVE  AreSteps(Steps(length, start, direction, include_start),
                    length, start, direction, include_start)
<1> DEFINE first == IF include_start THEN start ELSE start + Sign(direction)
           count == StepCount(length, first, direction)
           steps == Steps(length, start, direction, include_start)
<1>1. first \in Int /\ Sign(direction) * direction \in Nat
  BY DEF Sign
<1>2. count \in Nat
  BY <1>1 DEF StepCount, Room
<1>3. DOMAIN steps = 1..count
  BY StepsAreExact
<1>4. \A k \in 1..count : LET i == first + Sign(direction) * (k - 1)
                          IN  steps[k] = <<i, i>> /\ i \in 0..(length - 1)
  BY StepsAreExact
<1>5. steps = [k \in DOMAIN steps |-> steps[k]]
  <2> DEFINE true_start == TrueStart(start, direction, include_start)
             end == StepEnd(true_start, direction)
             slice == Slice(length, true_start, end, Sign(direction))
             pairs == [k \in DOMAIN slice |->
                          <<OrZero(true_start) + Sign(direction) * (k - 1), slice[k]>>]
  <2>1. steps = <<>> \/ steps = pairs
    BY DEF Steps
  <2>2. pairs = [k \in DOMAIN pairs |-> pairs[k]]
    OBVIOUS
  <2>3. <<>> = [k \in DOMAIN <<>> |-> <<>>[k]]
    OBVIOUS
  <2> HIDE DEF pairs, steps
  <2>4. QED
    BY <2>1, <2>2, <2>3
<1>6. \A k \in 1..count : steps[k] \in Int \X Int
  <2> HIDE DEF steps, count, first
  <2>1. ASSUME NEW k \in 1..count
        PROVE  \E i \in Int : steps[k] = <<i, i>>
    <3>1. first + Sign(direction) * (k - 1) \in Int
      BY <1>4
    <3>2. QED
      BY <1>4, <3>1
  <2>2. QED
    BY <2>1
<1>7. steps \in Seq(Int \X Int)
  <2> HIDE DEF steps, count, first
  <2>1. QED
    BY <1>2, <1>3, <1>5, <1>6
<1>8. Len(steps) = count
  <2> HIDE DEF steps, count, first
  <2>1. QED
    BY <1>2, <1>3, <1>7
<1>9. QED
  <2> HIDE DEF steps
  <2>1. AreSteps(steps, length, start, direction, include_start)
    BY <1>2, <1>3, <1>4, <1>8 DEF AreSteps
  <2>2. QED
    BY <2>1 DEF steps

LEMMA StepCall ==
    ASSUME Arguments, Answered, args' = args
    PROVE  StepsClip'
<1> SUFFICES ASSUME args.fn = "step", ended' = "returned"
             PROVE  StepsClip'
  BY DEF StepsClip
<1> DEFINE length == args.length
           start == args.start
           direction == args.direction
           include_start == args.include_start
           sign == Sign(direction)
           first == IF include_start THEN start ELSE start + sign
           wanted == [k \in 1..(sign * direction) |-> first + sign * (k - 1)]
           inside == {k \in DOMAIN wanted : wanted[k] \in 0..(length - 1)}
           count == StepCount(length, first, direction)
<1>1. /\ start \in 0..(length - 1)
      /\ result' = Steps(length, start, direction, include_start)
  BY DEF Answered, CallStep, Return, Raise
<1>2. length \in Nat /\ direction \in Int /\ include_start \in BOOLEAN
  BY ArgTypes
<1>3. /\ DOMAIN result' = 1..count
      /\ \A k \in 1..count : LET i == first + sign * (k - 1)
                             IN  result'[k] = <<i, i>> /\ i \in 0..(length - 1)
      /\ Len(result') = count
      /\ count \in Nat
  <2>1. AreSteps(result', length, start, direction, include_start)
    <3> HIDE DEF length, start, direction, include_start
    <3>1. QED
      BY <1>1, <1>2, StepsAsSequence
  <2>2. QED
    BY <2>1 DEF AreSteps
<1>4. /\ first \in -1..length
      /\ \/ sign = 1 /\ direction >= 0 /\ first >= 0
         \/ sign = -1 /\ direction < 0 /\ first < length
  BY <1>1, <1>2 DEF Sign
<1>5. count = IF sign * direction < Room(length, first, direction)
              THEN sign * direction ELSE Room(length, first, direction)
  BY DEF StepCount
<1>6. Room(length, first, direction) = IF sign = 1 THEN length - first ELSE first + 1
  BY <1>2, <1>4 DEF Room
<1>7. inside = 1..count
  <2> HIDE DEF first, sign, count, length, direction
  <2>1. CASE sign = 1
    BY <1>2, <1>3, <1>4, <1>5, <1>6, <2>1
  <2>2. CASE sign = -1
    BY <1>2, <1>3, <1>4, <1>5, <1>6, <2>2
  <2>3. QED
    BY <1>4, <2>1, <2>2
<1>8. Len(result') = Cardinality(inside)
  <2> HIDE DEF inside, count
  <2>1. Cardinality(1..count) = count
    BY <1>3, FS_Interval
  <2>2. QED
    BY <1>3, <1>7, <2>1
<1>9. \A k \in DOMAIN result' : result'[k] = <<wanted[k], wanted[k]>>
  BY <1>3, <1>7
<1>10. QED
  BY <1>8, <1>9 DEF StepsClip

-----------------------------------------------------------------------------
(* batch.                                                                  *)

\* Induction over the numbers, for a property that is a set.
LEMMA Induction ==
    ASSUME NEW S, 0 \in S, \A n \in Nat : n \in S => n + 1 \in S
    PROVE  Nat \subseteq S
<1> DEFINE T == Nat \ S
           R == {p \in Nat \X Nat : p[1] < p[2]}
<1>1. IsWellFoundedOn(R, Nat)
  BY NatLessThanWellFounded DEF OpToRel
<1>2. SUFFICES ASSUME T # {}
               PROVE  FALSE
  OBVIOUS
<1>3. T \subseteq Nat
  OBVIOUS
<1> HIDE DEF R
<1>4. PICK x \in T : \A y \in T : ~(<<y, x>> \in R)
  BY <1>1, <1>2, <1>3, WFMin
<1>5. x - 1 \in Nat /\ x # 0
  BY <1>4
<1>6. <<x - 1, x>> \in R
  BY <1>4, <1>5 DEF R
<1>7. x - 1 \in S
  BY <1>4, <1>5, <1>6
<1>8. QED
  BY <1>4, <1>5, <1>7

\* Where the i-th batch of n elements ends in a list of some length.
BatchEnd(length, n, i) == IF i * n < length THEN i * n ELSE length

\* How many batches there are.
LEMMA BatchBounds ==
    ASSUME NEW length \in Nat, NEW n \in Nat \ {0}
    PROVE  LET count == (length + n - 1) \div n
           IN  /\ count \in Nat
               /\ count = 0 <=> length = 0
               /\ BatchEnd(length, n, 0) = 0
               /\ BatchEnd(length, n, count) = length
               /\ \A i \in 1..count : /\ BatchEnd(length, n, i - 1) = (i - 1) * n
                                      /\ (i - 1) * n < length
                                      /\ i < count => BatchEnd(length, n, i) = i * n
<1> DEFINE count == (length + n - 1) \div n
<1>1. /\ count \in Nat
      /\ count * n >= length
      /\ length > 0 => count >= 1 /\ (count - 1) * n < length
  OBVIOUS
<1>2. length = 0 => count = 0
  <2>1. length = 0 => (length + n - 1) = n - 1 /\ n - 1 \in 0..(n - 1)
    OBVIOUS
  <2>2. ASSUME NEW r \in 0..(n - 1) PROVE r \div n = 0
    OBVIOUS
  <2>3. QED
    BY <2>1, <2>2
<1> HIDE DEF count
<1>3. ASSUME NEW i \in 1..count
      PROVE  (i - 1) * n < length /\ (i < count => i * n < length)
  <2>1. length > 0
    BY <1>1, <1>2, <1>3
  <2>2. (i - 1) * n <= (count - 1) * n
    BY <1>1, <1>3
  <2>3. i < count => i * n <= (count - 1) * n
    BY <1>1, <1>3
  <2>4. (i - 1) * n \in Int /\ i * n \in Int /\ (count - 1) * n \in Int
    BY <1>1, <1>3
  <2>5. QED
    BY <1>1, <2>1, <2>2, <2>3, <2>4
<1>4. BatchEnd(length, n, 0) = 0
  BY DEF BatchEnd
<1>5. BatchEnd(length, n, count) = length
  BY <1>1 DEF BatchEnd
<1>6. QED
  BY <1>1, <1>2, <1>3, <1>4, <1>5 DEF BatchEnd, count

\* Two neighbouring parts of a list make one.
LEMMA SubSeqJoin ==
    ASSUME NEW S, NEW list \in Seq(S), NEW a \in Nat, NEW b \in a..Len(list)
    PROVE  SubSeq(list, 1, a) \o SubSeq(list, a + 1, b) = SubSeq(list, 1, b)
<1> DEFINE left == SubSeq(list, 1, a)
           right == SubSeq(list, a + 1, b)
           all == SubSeq(list, 1, b)
<1>0. b \in Nat /\ a <= b /\ b <= Len(list)
  BY LenProperties
<1>1. \A i \in 1..Len(list) : list[i] \in S
  BY ElementOfSeq
<1>2. /\ left \in Seq(S) /\ Len(left) = a
      /\ \A i \in 1..a : left[i] = list[i]
  BY <1>1, SubSeqProperties
<1>3. /\ right \in Seq(S) /\ Len(right) = b - a
      /\ \A i \in 1..(b - a) : right[i] = list[a + i]
  BY <1>1, SubSeqProperties
<1>4. /\ all \in Seq(S) /\ Len(all) = b
      /\ \A i \in 1..b : all[i] = list[i]
  BY <1>1, SubSeqProperties
<1> HIDE DEF left, right, all
<1>5. /\ left \o right \in Seq(S) /\ Len(left \o right) = b
      /\ \A i \in 1..b : (left \o right)[i] = IF i <= a THEN left[i] ELSE right[i - a]
  BY <1>2, <1>3, ConcatProperties
<1>6. \A i \in 1..b : (left \o right)[i] = all[i]
  <2> TAKE i \in 1..b
  <2>1. CASE i <= a
    BY <1>2, <1>4, <1>5, <2>1
  <2>2. CASE i > a
    <3>1. i - a \in 1..(b - a) /\ a + (i - a) = i
      BY <1>0, <2>2
    <3>2. right[i - a] = list[i]
      BY <1>3, <3>1
    <3>3. (left \o right)[i] = right[i - a]
      BY <1>0, <1>5, <2>2
    <3>4. QED
      BY <1>4, <3>2, <3>3
  <2>3. i <= a \/ i > a
    BY <1>0
  <2>4. QED
    BY <2>1, <2>2, <2>3
<1>7. left \o right = all
  BY <1>4, <1>5, <1>6, SeqEqual
<1>8. QED
  BY <1>7 DEF left, right, all

\* FlattenSeq of a sequence whose parts up to each place make up some known sequence.
LEMMA FlattenBy ==
    ASSUME NEW parts, NEW upto, Len(parts) \in Nat \ {0},
           upto[1] = parts[1],
           \A i \in 2..Len(parts) : upto[i] = upto[i - 1] \o parts[i]
    PROVE  FlattenSeq(parts) = upto[Len(parts)]
<1> DEFINE count == Len(parts)
           Join(g) == [i \in 1..count |-> IF i = 1 THEN parts[i] ELSE g[i - 1] \o parts[i]]
           flatten == CHOOSE g : g = Join(g)
           known == [i \in 1..count |-> upto[i]]
           Agree == {k \in Nat : k \in 1..count => flatten[k] = upto[k]}
<1>1. FlattenSeq(parts) = flatten[count]
  BY DEF FlattenSeq
<1>2. ASSUME NEW g
      PROVE  /\ Join(g)[1] = parts[1]
             /\ \A i \in 2..count : Join(g)[i] = g[i - 1] \o parts[i]
  <2>1. 1 \in 1..count /\ \A i \in 2..count : i \in 1..count /\ i # 1
    OBVIOUS
  <2>2. Join(g)[1] = parts[1]
    BY <2>1
  <2>3. ASSUME NEW i \in 2..count
        PROVE  Join(g)[i] = g[i - 1] \o parts[i]
    BY <2>1
  <2>4. QED
    BY <2>2, <2>3
<1>3. known = Join(known)
  <2>1. \A i \in 1..count : Join(known)[i] = upto[i]
    <3> TAKE i \in 1..count
    <3>1. CASE i = 1
      BY <3>1
    <3>2. CASE i # 1
      <4>1. i \in 2..count /\ i - 1 \in 1..count
        BY <3>2
      <4>2. known[i - 1] = upto[i - 1]
        BY <4>1
      <4> HIDE DEF known, Join
      <4>3. QED
        <5>1. Join(known)[i] = known[i - 1] \o parts[i]
          BY <1>2, <4>1
        <5>2. upto[i] = upto[i - 1] \o parts[i]
          BY <4>1
        <5>3. QED
          BY <4>2, <5>1, <5>2
    <3>3. QED
      BY <3>1, <3>2
  <2>2. Join(known) = [i \in 1..count |-> Join(known)[i]]
    OBVIOUS
  <2> HIDE DEF Join
  <2>3. QED
    BY <2>1, <2>2
<1> HIDE DEF known, Join
<1>4. flatten = Join(flatten)
  BY <1>3
<1> HIDE DEF flatten
<1>5. /\ flatten[1] = parts[1]
      /\ \A k \in 2..count : flatten[k] = flatten[k - 1] \o parts[k]
  BY <1>2, <1>4
<1>6. 0 \in Agree
  OBVIOUS
<1>7. ASSUME NEW k \in Nat, k \in Agree
      PROVE  k + 1 \in Agree
  <2>1. CASE k = 0
    BY <1>5, <2>1
  <2>2. CASE k > 0 /\ k + 1 \in 1..count
    <3>1. flatten[k] = upto[k] /\ k + 1 \in 2..count /\ (k + 1) - 1 = k
      BY <1>7, <2>2
    <3>2. flatten[k + 1] = flatten[k] \o parts[k + 1] /\ upto[k + 1] = upto[k] \o parts[k + 1]
      BY <1>5, <3>1
    <3>3. flatten[k + 1] = upto[k + 1]
      BY <3>1, <3>2, Zenon
    <3>4. QED
      BY <3>3
  <2>3. QED
    BY <2>1, <2>2
<1>8. Nat \subseteq Agree
  <2> HIDE DEF Agree
  <2>1. QED
    BY <1>6, <1>7, Induction
<1>9. QED
  BY <1>1, <1>8

\* batch (generic.py:130) splits any list into batches of any size: put together
\* they are the list, none is empty, and only the last one is shorter than n.
THEOREM BatchesSplit ==
    ASSUME NEW S, NEW list \in Seq(S), NEW n \in Nat \ {0}
    PROVE  LET batches == Batch(list, n)
           IN  /\ FlattenSeq(batches) = list
               /\ \A i \in DOMAIN batches :
                     /\ Len(batches[i]) \in 1..n
                     /\ i < Len(batches) => Len(batches[i]) = n
<1> DEFINE length == Len(list)
           count == BatchCount(list, n)
           Edge(i) == BatchEnd(length, n, i)
           batches == Batch(list, n)
           upto == [i \in 1..count |-> SubSeq(list, 1, Edge(i))]
<1>1. length \in Nat
  BY LenProperties
<1>2. /\ count \in Nat
      /\ count = 0 <=> length = 0
      /\ Edge(0) = 0 /\ Edge(count) = length
      /\ \A i \in 1..count : /\ Edge(i - 1) = (i - 1) * n
                             /\ (i - 1) * n < length
                             /\ i < count => Edge(i) = i * n
  <2> HIDE DEF length
  <2>1. QED
    BY <1>1, BatchBounds DEF BatchCount, length
<1>3. batches = [i \in 1..count |-> BatchAt(list, n, i)]
  BY DEF Batch
<1>4. ASSUME NEW i \in 1..count
      PROVE  /\ BatchAt(list, n, i) = SubSeq(list, Edge(i - 1) + 1, Edge(i))
             /\ Edge(i - 1) \in Nat /\ Edge(i) \in Nat
             /\ Edge(i - 1) < Edge(i) /\ Edge(i) <= length
             /\ Edge(i) <= Edge(i - 1) + n
             /\ i < count => Edge(i) = Edge(i - 1) + n
  <2> DEFINE ndx == (i - 1) * n
  <2>1. ndx \in Nat /\ i * n = ndx + n /\ ndx < length /\ Edge(i - 1) = ndx
    <3>1. (i - 1) * n \in Nat /\ i * n = (i - 1) * n + n
      BY <1>2
    <3>2. QED
      BY <1>2, <3>1
  <2>2. BatchAt(list, n, i)
           = SubSeq(list, ndx + 1, IF ndx + n < length THEN ndx + n ELSE length)
    BY DEF BatchAt
  <2>3. Edge(i) = IF ndx + n < length THEN ndx + n ELSE length
    BY <2>1 DEF BatchEnd
  <2>4. i < count => Edge(i) = ndx + n
    BY <1>2, <2>1
  <2> HIDE DEF ndx, length, Edge
  <2>5. /\ Edge(i) \in Nat /\ ndx < Edge(i) /\ Edge(i) <= length /\ Edge(i) <= ndx + n
    BY <1>1, <2>1, <2>3
  <2>6. BatchAt(list, n, i) = SubSeq(list, ndx + 1, Edge(i))
    BY <2>2, <2>3
  <2>7. QED
    BY <2>1, <2>4, <2>5, <2>6
<1>5. ASSUME NEW i \in 1..count
      PROVE  /\ batches[i] \in Seq(S)
             /\ Len(batches[i]) = Edge(i) - Edge(i - 1)
  <2> HIDE DEF Edge, length
  <2>1. batches[i] = SubSeq(list, Edge(i - 1) + 1, Edge(i))
    BY <1>3, <1>4
  <2>2. \A j \in (Edge(i - 1) + 1)..Edge(i) : list[j] \in S
    BY <1>1, <1>4, ElementOfSeq DEF length
  <2>3. QED
    BY <1>4, <2>1, <2>2, SubSeqProperties
<1>6. Len(batches) = count /\ DOMAIN batches = 1..count
  <2> HIDE DEF batches, count
  <2>1. batches \in Seq(Seq(S))
    BY <1>2, <1>3, <1>5
  <2>2. DOMAIN batches = 1..count
    BY <1>3
  <2>3. QED
    BY <1>2, <2>1, <2>2
<1> HIDE DEF batches, count, Edge, length
<1>7. \A i \in DOMAIN batches : /\ Len(batches[i]) \in 1..n
                                /\ i < Len(batches) => Len(batches[i]) = n
  BY <1>4, <1>5, <1>6
<1>8. FlattenSeq(batches) = list
  <2>1. CASE count = 0
    <3>1. batches = <<>> /\ list = <<>>
      BY <1>2, <1>3, <2>1, EmptySeq DEF length
    <3>2. QED
      BY <3>1 DEF FlattenSeq
  <2>2. CASE count # 0
    <3>1. \A i \in 2..count : upto[i - 1] \o batches[i] = upto[i]
      <4> TAKE i \in 2..count
      <4>1. i \in 1..count /\ i - 1 \in 1..count
        BY <1>2
      <4>2. Edge(i) \in Edge(i - 1)..length /\ Edge(i - 1) \in Nat
        BY <1>1, <1>4, <4>1
      <4>3. SubSeq(list, 1, Edge(i - 1)) \o SubSeq(list, Edge(i - 1) + 1, Edge(i))
               = SubSeq(list, 1, Edge(i))
        BY <4>2, SubSeqJoin DEF length
      <4>4. batches[i] = SubSeq(list, Edge(i - 1) + 1, Edge(i))
        BY <1>3, <1>4, <4>1
      <4>5. QED
        BY <4>1, <4>3, <4>4
    <3>2. upto[1] = batches[1]
      <4>1. 1 \in 1..count /\ 1 - 1 = 0 /\ 0 + 1 = 1
        BY <1>2, <2>2
      <4>2. BatchAt(list, n, 1) = SubSeq(list, Edge(0) + 1, Edge(1))
        BY <1>4, <4>1
      <4>3. BatchAt(list, n, 1) = SubSeq(list, 1, Edge(1))
        BY <1>2, <4>1, <4>2
      <4>4. QED
        BY <1>3, <4>1, <4>3
    <3>3. upto[count] = list
      BY <1>2, <2>2, SubSeqFull DEF length
    <3> HIDE DEF upto
    <3>4. /\ Len(batches) \in Nat \ {0}
          /\ \A i \in 2..Len(batches) : upto[i] = upto[i - 1] \o batches[i]
      BY <1>2, <1>6, <2>2, <3>1
    <3>5. FlattenSeq(batches) = upto[count]
      BY <1>6, <3>2, <3>4, FlattenBy
    <3>6. QED
      BY <3>3, <3>5
  <2>3. QED
    BY <2>1, <2>2
<1>9. QED
  BY <1>7, <1>8 DEF batches

LEMMA BatchCall ==
    ASSUME Arguments, Answered, args' = args
    PROVE  BatchesCover'
<1> SUFFICES ASSUME args.fn = "batch", args.n > 0
             PROVE  BatchesCover'
  BY DEF BatchesCover
<1>1. args.n \in Nat \ {0} /\ args.list \in Lists
  BY ArgTypes
<1>2. args.list \in Seq(Nat)
  BY <1>1, SizesAssumption DEF Lists
<1>3. result' = Batch(args.list, args.n)
  BY DEF Answered, CallBatch, Return
<1> DEFINE list == args.list
           n == args.n
<1> HIDE DEF list, n
<1>4. list \in Seq(Nat) /\ n \in Nat \ {0} /\ result' = Batch(list, n)
  BY <1>1, <1>2, <1>3 DEF list, n
<1>5. /\ FlattenSeq(result') = list
      /\ \A i \in DOMAIN result' : /\ Len(result'[i]) \in 1..n
                                   /\ i < Len(result') => Len(result'[i]) = n
  BY <1>4, BatchesSplit
<1>6. QED
  BY <1>5 DEF BatchesCover, list, n

\* generic.py:57, 130, 145 at any bounds of the lists and steps: what the three functions
\* return for a valid argument has no gap, no overlap and nothing outside the list.
THEOREM EndsOfLists == HSpec => []GenericEnds
<1>1. HInit => GenericEnds
  BY DEF HInit, GenericEnds, PeriodsJoin, StepsClip, BatchesCover
<1>2. PureInv /\ GenericEnds /\ [HNext]_hvars => GenericEnds'
  <2> SUFFICES ASSUME PureInv, GenericEnds, [HNext]_hvars
               PROVE  GenericEnds'
    OBVIOUS
  <2>1. CASE UNCHANGED purevars
    BY <2>1 DEF purevars, GenericEnds, PeriodsJoin, StepsClip, BatchesCover
  <2>2. CASE Arguments /\ Pure
    BY <2>2, PureAnswers, PeriodCall, StepCall, BatchCall DEF GenericEnds
  <2>3. QED
    BY <2>1, <2>2, PureAlone
<1>3. QED
  BY <1>1, <1>2, PureInit, PureStep, PTL DEF HSpec

-----------------------------------------------------------------------------
(* clean_data.                                                             *)

\* The index of a table to clean, and what is kept of it: the rows that have a value
\* and do not lack a required one.
LEMMA CleanKeeps ==
    ASSUME NEW data \in Unclean, NEW options, NEW required \in BOOLEAN
    PROVE  /\ IsFiniteSet(NotNull(data))
           /\ Kept(data, options, required)
                 = {i \in NotNull(data) :
                       ~(required /\ data[i].code \notin {"short", "full"})}
<1>1. data \in Seq(UncleanRow)
  BY TablesAssumption
<1>2. \E m \in Nat : DOMAIN data = 1..m /\ \A i \in DOMAIN data : data[i] \in UncleanRow
  BY <1>1
<1>3. IsFiniteSet(DOMAIN data)
  BY <1>2, FS_Interval
<1>4. IsFiniteSet(NotNull(data))
  BY <1>3, FS_Subset DEF NotNull
<1>5. \A row \in UncleanRow : Cell(row.code) # Null <=> row.code \in {"short", "full"}
  BY DEF UncleanRow, Cell, Null
<1>6. QED
  BY <1>2, <1>4, <1>5 DEF Kept, NotNull

LEMMA CleanCall ==
    ASSUME Arguments, Answered, args' = args
    PROVE  CleanExact'
<1> SUFFICES ASSUME args.fn = "clean", args.columns
             PROVE  CleanExact'
  BY DEF CleanExact
<1> DEFINE data == args.data
           required == args.required
           options == args.options
           all == NotNull(data)
           good == {i \in all : ~(required /\ data[i].code \notin {"short", "full"})}
           dropped == Dropped(data, options, required)
           rows == CleanRows(data, options, required)
           exceeded == ThresholdExceeded(data, options, required)
<1>1. /\ data \in Unclean /\ required \in BOOLEAN
      /\ options \in {"none", "pad", "pad_keep_null"}
  BY ArgTypes
<1>2. IsFiniteSet(all) /\ Kept(data, options, required) = good
  <2> HIDE DEF data, options, required
  <2>1. QED
    BY <1>1, CleanKeeps
<1>3. all = {i \in DOMAIN data : data[i] # [code |-> Null, rest |-> Null]}
  BY DEF NotNull
<1>4. \/ exceeded /\ ended' = "FailureThresholdExceededError"
      \/ /\ ~exceeded /\ ended' = "returned"
         /\ result' = IF args.return_dropped /\ dropped # {}
                      THEN <<Cardinality(dropped), rows>> ELSE <<rows>>
  BY DEF Answered, CallClean, Return, Raise
<1>5. DOMAIN rows = good
  BY <1>2 DEF CleanRows
<1>6. required => \A i \in good : rows[i].code \in {"short", "full"}
  <2> SUFFICES ASSUME required, NEW i \in good
               PROVE  rows[i].code \in {"short", "full"}
    OBVIOUS
  <2>1. data[i].code \in {"short", "full"}
    OBVIOUS
  <2>2. rows[i].code = Padded(Cell(data[i].code), options)
    BY <1>2 DEF CleanRows
  <2>3. Cell(data[i].code) \in {"short", "full"}
    BY <2>1 DEF Cell
  <2> HIDE DEF rows, data, options
  <2>4. Padded(Cell(data[i].code), options) \in {"short", "full"}
    BY <1>1, <2>3 DEF Padded, Null
  <2>5. QED
    BY <2>2, <2>4
<1>7. dropped = all \ good /\ good \subseteq all
  BY <1>2 DEF Dropped
<1>8. exceeded <=> good = {} \/ Cardinality(dropped) * 100 > Cardinality(all)
  BY <1>2 DEF ThresholdExceeded
<1>9. /\ result'[Len(result')] = rows
      /\ Len(result') = 2 => result'[1] = Cardinality(dropped)
      /\ args.return_dropped /\ Len(result') = 1 => dropped = {}
   \/ ended' # "returned"
  <2> DEFINE counted == <<Cardinality(dropped), rows>>
  <2> HIDE DEF all, good, dropped, rows, exceeded, data, options, required
  <2>1. \/ ended' # "returned"
        \/ result' = counted
        \/ result' = <<rows>> /\ (args.return_dropped => dropped = {})
    BY <1>4
  <2>2. Len(counted) = 2 /\ counted[1] = Cardinality(dropped) /\ counted[2] = rows
    OBVIOUS
  <2>3. Len(<<rows>>) = 1 /\ <<rows>>[1] = rows
    OBVIOUS
  <2> HIDE DEF counted
  <2>4. QED
    BY <2>1, <2>2, <2>3
<1> HIDE DEF all, good, dropped, rows, exceeded, data, options, required
<1>10. /\ Cardinality(dropped) = Cardinality(all) - Cardinality(good)
       /\ Cardinality(all) \in Nat /\ Cardinality(good) \in Nat
       /\ dropped = {} => all = good
  <2>1. all \cap good = good
    BY <1>7
  <2>2. IsFiniteSet(all) /\ IsFiniteSet(good)
    BY <1>2, <1>7, FS_Subset
  <2>3. Cardinality(all \ good) = Cardinality(all) - Cardinality(all \cap good)
    BY <2>2, FS_Difference
  <2>4. Cardinality(all) \in Nat /\ Cardinality(good) \in Nat
    BY <2>2, FS_CardinalityType
  <2>5. QED
    BY <1>7, <2>1, <2>3, <2>4
<1>11. exceeded <=> good = {} \/ 100 * Cardinality(good) < 99 * Cardinality(all)
  BY <1>8, <1>10
<1>12. /\ ended' = "FailureThresholdExceededError" =>
             good = {} \/ 100 * Cardinality(good) < 99 * Cardinality(all)
       /\ ended' = "returned" =>
             /\ good # {} /\ 100 * Cardinality(good) >= 99 * Cardinality(all)
             /\ DOMAIN result'[Len(result')] = good
             /\ required => \A i \in good : result'[Len(result')][i].code \in {"short", "full"}
             /\ Len(result') = 2 => result'[1] = Cardinality(all) - Cardinality(good)
             /\ args.return_dropped /\ Len(result') = 1 => all = good
  BY <1>4, <1>5, <1>6, <1>9, <1>10, <1>11
<1>13. good = {i \in all : ~(required /\ data[i].code \notin {"short", "full"})}
  BY DEF good
<1>14. QED
  BY <1>3, <1>12, <1>13 DEF CleanExact, data, required

\* clean_data (scripts.py:211) keeps exactly the rows with a value where one is
\* required, under their index, and fails exactly when these are none or less than
\* 99 of 100; the number of dropped rows it reports is right.
THEOREM CleaningIsExact == HSpec => []CleanExact
<1>1. HInit => CleanExact
  BY DEF HInit, CleanExact
<1>2. PureInv /\ CleanExact /\ [HNext]_hvars => CleanExact'
  <2> SUFFICES ASSUME PureInv, CleanExact, [HNext]_hvars
               PROVE  CleanExact'
    OBVIOUS
  <2>1. CASE UNCHANGED purevars
    BY <2>1 DEF purevars, CleanExact
  <2>2. CASE Arguments /\ Pure
    BY <2>2, PureAnswers, CleanCall
  <2>3. QED
    BY <2>1, <2>2, PureAlone
<1>3. QED
  BY <1>1, <1>2, PureInit, PureStep, PTL DEF HSpec

-----------------------------------------------------------------------------
(* The DEFC table.                                                         *)

\* Where the derived rows are: one for every two raw rows of a title, and the added ones.
DefcPlaces(rows, raw) ==
    /\ \A i, j \in DOMAIN raw : raw[i].title = raw[j].title =>
          /\ <<i, j>> \in DOMAIN rows
          /\ rows[<<i, j>>].code = raw[i].code
          /\ rows[<<i, j>>].date = Earliest(raw[j])
    /\ <<0, 1>> \in DOMAIN rows /\ rows[<<0, 1>>].code = "9"
    /\ <<0, 2>> \in DOMAIN rows /\ rows[<<0, 2>>].code = "QQQ"
    /\ \A at \in DOMAIN rows :
          \/ at = <<0, 1>>
          \/ at = <<0, 2>>
          \/ \E i, j \in DOMAIN raw : at = <<i, j>> /\ raw[i].title = raw[j].title

LEMMA DefcTable ==
    ASSUME NEW n \in Nat, NEW raw, DOMAIN raw = 1..n, NEW groups
    PROVE  DefcPlaces(DefcRows(raw, groups), raw)
<1> DEFINE rows == DefcRows(raw, groups)
<1>1. DOMAIN rows = Merged(raw) \cup Added
  BY DEF DefcRows
<1>2. <<0, 1>> \in Added /\ <<0, 2>> \in Added /\ \A at \in Added : at = <<0, 1>> \/ at = <<0, 2>>
  BY DEF Added, Outliers
<1>3. ASSUME NEW i \in DOMAIN raw, NEW j \in DOMAIN raw, raw[i].title = raw[j].title
      PROVE  /\ <<i, j>> \in DOMAIN rows
             /\ rows[<<i, j>>].code = raw[i].code
             /\ rows[<<i, j>>].date = Earliest(raw[j])
  <2> DEFINE at == <<i, j>>
  <2>1. at \in Merged(raw) /\ at \notin Added /\ at[1] = i /\ at[2] = j
    BY <1>2, <1>3 DEF Merged
  <2> HIDE DEF at
  <2>2. rows[at] = [code |-> raw[at[1]].code, date |-> Earliest(raw[at[2]]),
                    group |-> GroupOf(groups, raw[at[1]].code)]
    BY <2>1 DEF DefcRows
  <2>3. at \in DOMAIN rows /\ rows[at].code = raw[i].code /\ rows[at].date = Earliest(raw[j])
    BY <1>1, <2>1, <2>2
  <2>4. QED
    BY <2>3 DEF at
<1>4. rows[<<0, 1>>].code = "9" /\ rows[<<0, 2>>].code = "QQQ"
  <2>1. \A at \in Added : rows[at].code = Outliers[at[2]]
    BY DEF DefcRows
  <2> HIDE DEF rows
  <2>2. QED
    BY <1>2, <2>1 DEF Outliers
<1>5. \A at \in Merged(raw) :
         \E i, j \in DOMAIN raw : at = <<i, j>> /\ raw[i].title = raw[j].title
  BY DEF Merged
<1> HIDE DEF rows
<1>6. DefcPlaces(rows, raw)
  BY <1>1, <1>2, <1>3, <1>4, <1>5 DEF DefcPlaces
<1>7. QED
  BY <1>6 DEF rows

\* What makes a code unique.
LEMMA DefcCodes ==
    ASSUME NEW n \in Nat, NEW raw, DOMAIN raw = 1..n, NEW rows, DefcPlaces(rows, raw)
    PROVE  (\A at, bt \in DOMAIN rows : rows[at].code = rows[bt].code => at = bt)
               <=> /\ \A i, j \in DOMAIN raw : raw[i].title = raw[j].title => i = j
                   /\ \A i, j \in DOMAIN raw : raw[i].code = raw[j].code => i = j
                   /\ \A i \in DOMAIN raw : raw[i].code # "9" /\ raw[i].code # "QQQ"
<1>1. ASSUME \A at, bt \in DOMAIN rows : rows[at].code = rows[bt].code => at = bt,
             NEW i \in DOMAIN raw
      PROVE  /\ \A j \in DOMAIN raw : raw[i].title = raw[j].title => i = j
             /\ \A j \in DOMAIN raw : raw[i].code = raw[j].code => i = j
             /\ raw[i].code # "9" /\ raw[i].code # "QQQ"
  <2>1. <<i, i>> \in DOMAIN rows /\ rows[<<i, i>>].code = raw[i].code
    BY DEF DefcPlaces
  <2>2. ASSUME NEW j \in DOMAIN raw, raw[i].title = raw[j].title
        PROVE  i = j
    <3>1. <<i, j>> \in DOMAIN rows /\ rows[<<i, j>>].code = raw[i].code
      BY <2>2 DEF DefcPlaces
    <3>2. <<i, i>> = <<i, j>>
      BY <1>1, <2>1, <3>1
    <3>3. QED
      BY <3>2
  <2>3. ASSUME NEW j \in DOMAIN raw, raw[i].code = raw[j].code
        PROVE  i = j
    <3>1. <<j, j>> \in DOMAIN rows /\ rows[<<j, j>>].code = raw[j].code
      BY DEF DefcPlaces
    <3>2. <<i, i>> = <<j, j>>
      BY <1>1, <2>1, <2>3, <3>1
    <3>3. QED
      BY <3>2
  <2>4. <<i, i>> # <<0, 1>> /\ <<i, i>> # <<0, 2>>
    BY <1>1
  <2>5. raw[i].code # "9" /\ raw[i].code # "QQQ"
    BY <1>1, <2>1, <2>4 DEF DefcPlaces
  <2>6. QED
    BY <2>2, <2>3, <2>5
<1>2. ASSUME \A i, j \in DOMAIN raw : raw[i].title = raw[j].title => i = j,
             \A i, j \in DOMAIN raw : raw[i].code = raw[j].code => i = j,
             \A i \in DOMAIN raw : raw[i].code # "9" /\ raw[i].code # "QQQ",
             NEW at \in DOMAIN rows, NEW bt \in DOMAIN rows, rows[at].code = rows[bt].code
      PROVE  at = bt
  <2> DEFINE Same(ct) == \E i \in DOMAIN raw : ct = <<i, i>> /\ rows[ct].code = raw[i].code
             Nine(ct) == ct = <<0, 1>> /\ rows[ct].code = "9"
             Excluded(ct) == ct = <<0, 2>> /\ rows[ct].code = "QQQ"
  <2>1. ASSUME NEW ct \in DOMAIN rows
        PROVE  Same(ct) \/ Nine(ct) \/ Excluded(ct)
    <3>1. CASE ct = <<0, 1>> \/ ct = <<0, 2>>
      BY <3>1 DEF DefcPlaces
    <3>2. ASSUME NEW i \in DOMAIN raw, NEW j \in DOMAIN raw, ct = <<i, j>>,
                 raw[i].title = raw[j].title
          PROVE  Same(ct)
      <4>1. i = j
        BY <1>2, <3>2
      <4>2. rows[<<i, i>>].code = raw[i].code
        BY DEF DefcPlaces
      <4>3. QED
        BY <3>2, <4>1, <4>2
    <3>3. QED
      BY <3>1, <3>2 DEF DefcPlaces
  <2>2. Same(at) /\ Same(bt) => at = bt
    BY <1>2
  <2>3. Nine(at) => ~Excluded(bt) /\ ~Same(bt)
    BY <1>2
  <2>4. Excluded(at) => ~Nine(bt) /\ ~Same(bt)
    BY <1>2
  <2>5. Same(at) => ~Nine(bt) /\ ~Excluded(bt)
    BY <1>2
  <2>6. /\ Nine(at) /\ Nine(bt) => at = bt
        /\ Excluded(at) /\ Excluded(bt) => at = bt
    OBVIOUS
  <2> HIDE DEF Same, Nine, Excluded
  <2>7. QED
    BY <2>1, <2>2, <2>3, <2>4, <2>5, <2>6
<1>3. QED
  BY <1>1, <1>2

LEMMA DefcCall ==
    ASSUME Arguments, Answered, args' = args
    PROVE  DefcCodesUnique'
<1> DEFINE raw == args.raw
           rows == DefcRows(raw, args.groups)
           codes == [i \in DOMAIN raw |-> raw[i].code]
           titles == [i \in DOMAIN raw |-> raw[i].title]
           derived == [at \in DOMAIN rows |-> rows[at].code]
<1> SUFFICES ASSUME args.fn = "defc", ended' = "returned"
             PROVE  DefcCodesUnique'
  BY DEF DefcCodesUnique
<1>1. PICK n \in Nat : DOMAIN raw = 1..n
  <2>1. raw \in Seq(RawRow)
    BY ArgTypes, TablesAssumption
  <2> HIDE DEF raw
  <2>2. QED
    BY <2>1
<1>2. result' = <<rows>>
  BY DEF Answered, CallDefc, Return, Raise
<1>3. result'[1] = rows
  BY <1>2
<1>4. DefcPlaces(rows, raw)
  <2> HIDE DEF raw
  <2>1. QED
    BY <1>1, DefcTable
<1>5. /\ Range(Outliers) = {"9", "QQQ"}
      /\ Range(codes) = {raw[i].code : i \in DOMAIN raw}
  <2> HIDE DEF raw, rows
  <2>1. DOMAIN Outliers = {1, 2} /\ Outliers[1] = "9" /\ Outliers[2] = "QQQ"
    BY DEF Outliers
  <2>2. Range(Outliers) = {"9", "QQQ"}
    BY <2>1 DEF Range
  <2>3. Range(codes) = {raw[i].code : i \in DOMAIN raw}
    BY DEF Range
  <2>4. QED
    BY <2>2, <2>3
<1> HIDE DEF rows, raw
<1>6. IsInjective(derived) <=> /\ IsInjective(titles) /\ IsInjective(codes)
                               /\ Range(codes) \cap Range(Outliers) = {}
  <2>1. IsInjective(derived)
           <=> \A at, bt \in DOMAIN rows : rows[at].code = rows[bt].code => at = bt
    BY DEF IsInjective
  <2>2. IsInjective(titles) <=> \A i, j \in DOMAIN raw : raw[i].title = raw[j].title => i = j
    BY DEF IsInjective
  <2>3. IsInjective(codes) <=> \A i, j \in DOMAIN raw : raw[i].code = raw[j].code => i = j
    BY DEF IsInjective
  <2>4. Range(codes) \cap Range(Outliers) = {}
           <=> \A i \in DOMAIN raw : raw[i].code # "9" /\ raw[i].code # "QQQ"
    BY <1>5
  <2> HIDE DEF derived, titles, codes
  <2>5. QED
    BY <1>1, <1>4, <2>1, <2>2, <2>3, <2>4, DefcCodes
<1>7. {rows[at].code : at \in DOMAIN rows} = Range(codes) \cup Range(Outliers)
  <2>1. \A at \in DOMAIN rows : rows[at].code \in Range(codes) \cup Range(Outliers)
    BY <1>4, <1>5 DEF DefcPlaces
  <2>2. \A i \in DOMAIN raw : \E at \in DOMAIN rows : rows[at].code = raw[i].code
    BY <1>4 DEF DefcPlaces
  <2>3. \A code \in Range(Outliers) : \E at \in DOMAIN rows : rows[at].code = code
    BY <1>4, <1>5 DEF DefcPlaces
  <2> HIDE DEF codes
  <2>4. QED
    BY <1>5, <2>1, <2>2, <2>3
<1>8. \A i \in DOMAIN raw : \E at \in DOMAIN rows : /\ rows[at].code = raw[i].code
                                                    /\ rows[at].date = Earliest(raw[i])
  BY <1>4 DEF DefcPlaces
<1>9. QED
  BY <1>3, <1>6, <1>7, <1>8 DEF DefcCodesUnique, raw

\* The merge of the DEFC table on titles (defc_gold.py:38), for a raw table of any
\* length, with any codes and titles: it loses and invents no code and leaves each its
\* earliest date, and it repeats one exactly if the raw table repeats a code or a title,
\* or has a code that is added to it.
THEOREM DefcIsUnique == HSpec => []DefcCodesUnique
<1>1. HInit => DefcCodesUnique
  BY DEF HInit, DefcCodesUnique
<1>2. PureInv /\ DefcCodesUnique /\ [HNext]_hvars => DefcCodesUnique'
  <2> SUFFICES ASSUME PureInv, DefcCodesUnique, [HNext]_hvars
               PROVE  DefcCodesUnique'
    OBVIOUS
  <2>1. CASE UNCHANGED purevars
    BY <2>1 DEF purevars, DefcCodesUnique
  <2>2. CASE Arguments /\ Pure
    BY <2>2, PureAnswers, DefcCall
  <2>3. QED
    BY <2>1, <2>2, PureAlone
<1>3. QED
  BY <1>1, <1>2, PureInit, PureStep, PTL DEF HSpec

-----------------------------------------------------------------------------
(* check_dataframe_diff.                                                   *)

\* Where a row is in a table.
Places(F, row) == {i \in DOMAIN F : F[i] = row}

\* Putting the rows in another order leaves as many of each.
LEMMA CountArranged ==
    ASSUME NEW F, IsFiniteSet(DOMAIN F), NEW p \in Bijection(DOMAIN F, DOMAIN F)
    PROVE  /\ Range(Arranged(F, p)) = Range(F)
           /\ \A row : Cardinality(Places(Arranged(F, p), row)) = Cardinality(Places(F, row))
<1>1. /\ p \in [DOMAIN F -> DOMAIN F]
      /\ \A i, j \in DOMAIN F : p[i] = p[j] => i = j
      /\ \A j \in DOMAIN F : \E i \in DOMAIN F : p[i] = j
  BY DEF Bijection, Injection, Surjection, IsInjective
<1>2. /\ DOMAIN Arranged(F, p) = DOMAIN F
      /\ \A i \in DOMAIN F : Arranged(F, p)[i] = F[p[i]]
  BY DEF Arranged
<1>3. Range(Arranged(F, p)) = Range(F)
  <2>1. ASSUME NEW r \in Range(Arranged(F, p))
        PROVE  r \in Range(F)
    BY <1>1, <1>2, <2>1 DEF Range
  <2>2. ASSUME NEW r \in Range(F)
        PROVE  r \in Range(Arranged(F, p))
    <3>1. PICK j \in DOMAIN F : r = F[j]
      BY <2>2 DEF Range
    <3>2. PICK i \in DOMAIN F : p[i] = j
      BY <1>1
    <3>3. r = Arranged(F, p)[i]
      BY <1>2, <3>1, <3>2
    <3>4. QED
      BY <1>2, <3>3 DEF Range
  <2>3. QED
    BY <2>1, <2>2
<1>4. ASSUME NEW row
      PROVE  Cardinality(Places(Arranged(F, p), row)) = Cardinality(Places(F, row))
  <2> DEFINE moved == Places(Arranged(F, p), row)
             there == Places(F, row)
             f == [i \in moved |-> p[i]]
  <2>1. \A i \in DOMAIN F : i \in moved <=> p[i] \in there
    BY <1>1, <1>2 DEF Places
  <2>2. moved \subseteq DOMAIN F /\ there \subseteq DOMAIN F
    BY <1>2 DEF Places
  <2> HIDE DEF moved, there
  <2>3. f \in Bijection(moved, there)
    <3>1. f \in [moved -> there]
      BY <2>1, <2>2
    <3>2. \A i, j \in moved : f[i] = f[j] => i = j
      BY <1>1, <2>2
    <3>3. \A j \in there : \E i \in moved : f[i] = j
      BY <1>1, <2>1, <2>2
    <3>4. QED
      BY <3>1, <3>2, <3>3 DEF Bijection, Injection, Surjection, IsInjective
  <2>4. IsFiniteSet(moved) /\ ExistsBijection(moved, there)
    BY <2>2, <2>3, FS_Subset DEF ExistsBijection
  <2>5. QED
    BY <2>4, FS_Bijection DEF moved, there
<1>5. QED
  BY <1>3, <1>4

\* The keys of a sequence of rows go up.
GoesUp(F, m) == \A i, j \in 1..m : i < j => F[i].key < F[j].key

\* The first rows are the same.
AlikeTo(F, G, m) == \A i \in 1..m : F[i] = G[i]

\* There is one way to put rows with different keys in order.
LEMMA OrderIsUnique ==
    ASSUME NEW m \in Nat, NEW n \in Nat, NEW F, NEW G, GoesUp(F, m), GoesUp(G, n),
           \A i \in 1..m : F[i].key \in Int, \A i \in 1..n : G[i].key \in Int,
           \A i \in 1..m : \E k \in 1..n : F[i] = G[k],
           \A k \in 1..n : \E i \in 1..m : F[i] = G[k]
    PROVE  m <= n /\ AlikeTo(F, G, m)
<1> DEFINE Same(j) == j \in 1..n /\ F[j] = G[j]
           Alike == {k \in Nat : \A j \in 1..m : j <= k => Same(j)}
<1>1. 0 \in Alike
  OBVIOUS
<1>2. ASSUME NEW k \in Nat, k \in Alike
      PROVE  k + 1 \in Alike
  <2> SUFFICES ASSUME k + 1 \in 1..m
               PROVE  Same(k + 1)
    <3>1. \A j \in 1..m : j <= k + 1 => j <= k \/ j = k + 1
      OBVIOUS
    <3>2. \A j \in 1..m : j <= k => Same(j)
      BY <1>2
    <3>3. ASSUME NEW j \in 1..m, j <= k + 1
          PROVE  Same(j)
      <4> HIDE DEF Same
      <4>1. j = k + 1 => k + 1 \in 1..m
        BY <3>3
      <4>2. QED
        BY <3>1, <3>2, <3>3, <4>1
    <3> HIDE DEF Same
    <3>4. QED
      BY <3>3
  <2> DEFINE j == k + 1
  <2>1. j \in 1..m /\ \A i \in 1..m : i < j => i \in 1..n /\ F[i] = G[i]
    BY <1>2
  <2> HIDE DEF j
  <2>2. PICK l \in 1..n : F[j] = G[l]
    BY <2>1
  <2>3. l >= j
    <3> SUFFICES ASSUME l < j
                 PROVE  FALSE
      BY <2>1
    <3>1. l \in 1..m /\ F[l] = G[l]
      BY <2>1, <2>2
    <3>2. F[l].key < F[j].key /\ F[l].key \in Int
      BY <2>1, <3>1 DEF GoesUp
    <3>3. QED
      BY <2>2, <3>1, <3>2
  <2>4. j \in 1..n
    BY <2>1, <2>3
  <2>5. PICK i \in 1..m : F[i] = G[j]
    BY <2>4
  <2>6. i >= j
    <3> SUFFICES ASSUME i < j
                 PROVE  FALSE
      BY <2>1
    <3>1. i \in 1..n /\ F[i] = G[i]
      BY <2>1
    <3>2. G[i].key < G[j].key /\ G[i].key \in Int
      BY <2>4, <3>1 DEF GoesUp
    <3>3. QED
      BY <2>5, <3>1, <3>2
  <2>7. l = j
    <3>0. l \in Int /\ j \in Int
      BY <2>1
    <3> SUFFICES ASSUME l > j
                 PROVE  FALSE
      BY <2>3, <3>0
    <3>1. G[j].key < G[l].key
      BY <2>4 DEF GoesUp
    <3>2. F[j].key <= F[i].key
      BY <2>1, <2>6 DEF GoesUp
    <3>3. F[i].key < F[j].key /\ F[i].key \in Int /\ F[j].key \in Int
      BY <2>1, <2>2, <2>5, <3>1
    <3>4. QED
      BY <3>2, <3>3
  <2>8. QED
    BY <2>2, <2>4, <2>7 DEF j
<1>3. m \in Alike
  <2> HIDE DEF Alike
  <2>1. QED
    BY <1>1, <1>2, Induction
<1>4. \A j \in 1..m : j \in 1..n /\ F[j] = G[j]
  BY <1>3
<1>5. m <= n
  <2>1. CASE m = 0
    BY <2>1
  <2>2. CASE m # 0
    <3>1. m \in 1..m
      BY <2>2
    <3>2. QED
      BY <1>4, <3>1
  <2>3. QED
    BY <2>1, <2>2
<1>6. QED
  BY <1>4, <1>5 DEF AlikeTo

\* The index of a table and its normalized rows.
LEMMA TableTypes ==
    ASSUME NEW table \in Tables
    PROVE  \E m \in Nat : /\ DOMAIN table = 1..m
                          /\ DOMAIN Normalized(table, Normal) = 1..m
                          /\ \A i \in 1..m : /\ table[i].key \in Int
                                             /\ Normalized(table, Normal)[i].key = table[i].key
<1>1. table \in Seq(TableRow)
  BY TablesAssumption
<1>2. PICK m \in Nat : DOMAIN table = 1..m /\ \A i \in 1..m : table[i].key \in Int
  <2>1. Len(table) \in Nat /\ DOMAIN table = 1..Len(table)
    BY <1>1
  <2>2. \A i \in 1..Len(table) : table[i] \in TableRow
    BY <1>1
  <2>3. \A row \in TableRow : row.key \in Int
    BY DEF TableRow
  <2>4. QED
    BY <2>1, <2>2, <2>3
<1>3. /\ DOMAIN Normalized(table, Normal) = 1..m
      /\ \A i \in 1..m : Normalized(table, Normal)[i].key = table[i].key
  BY <1>2 DEF Normalized
<1>4. QED
  BY <1>2, <1>3

\* Tables that are put in order have keys that go up, if these differ.
LEMMA OrdersGoUp ==
    ASSUME NEW m \in Nat, NEW table, NEW rows, NEW p \in Orders(table),
           DOMAIN table = 1..m, DOMAIN rows = 1..m,
           \A i \in 1..m : table[i].key \in Int /\ rows[i].key = table[i].key,
           UniqueKeys(table)
    PROVE  /\ DOMAIN Arranged(rows, p) = 1..m
           /\ GoesUp(Arranged(rows, p), m)
           /\ \A i \in 1..m : Arranged(rows, p)[i].key \in Int
<1>1. /\ p \in [1..m -> 1..m]
      /\ \A i, j \in 1..m : p[i] = p[j] => i = j
      /\ \A i, j \in 1..m : i < j => table[p[i]].key <= table[p[j]].key
  BY DEF Orders, Bijection, Injection, IsInjective
<1>2. \A i, j \in 1..m : table[i].key = table[j].key => i = j
  BY DEF UniqueKeys, KeyColumn, IsInjective
<1>3. /\ DOMAIN Arranged(rows, p) = 1..m
      /\ \A i \in 1..m : Arranged(rows, p)[i] = rows[p[i]]
  BY DEF Arranged
<1>4. \A i \in 1..m : Arranged(rows, p)[i].key = table[p[i]].key /\ table[p[i]].key \in Int
  BY <1>1, <1>3
<1>5. \A i, j \in 1..m : i < j => table[p[i]].key < table[p[j]].key
  <2> TAKE i, j \in 1..m
  <2> HAVE i < j
  <2>1. p[i] \in 1..m /\ p[j] \in 1..m /\ p[i] # p[j]
    BY <1>1
  <2>2. table[p[i]].key # table[p[j]].key /\ table[p[i]].key <= table[p[j]].key
    BY <1>1, <1>2, <2>1
  <2>3. QED
    BY <1>4, <2>2
<1>6. GoesUp(Arranged(rows, p), m)
  BY <1>4, <1>5 DEF GoesUp
<1>7. QED
  BY <1>3, <1>4, <1>6

\* Tables with different keys and the same rows look the same in order.
LEMMA OrderedAlike ==
    ASSUME NEW m \in Nat, NEW n \in Nat, NEW F, NEW G,
           DOMAIN F = 1..m, DOMAIN G = 1..n, GoesUp(F, m), GoesUp(G, n),
           \A i \in 1..m : F[i].key \in Int, \A i \in 1..n : G[i].key \in Int,
           Range(F) = Range(G)
    PROVE  m = n /\ \A i \in 1..m : F[i] = G[i]
<1>1. /\ \A i \in 1..m : \E k \in 1..n : F[i] = G[k]
      /\ \A k \in 1..n : \E i \in 1..m : F[i] = G[k]
  <2>1. \A i \in 1..m : F[i] \in Range(G)
    BY DEF Range
  <2>2. \A k \in 1..n : G[k] \in Range(F)
    BY DEF Range
  <2>3. QED
    BY <2>1, <2>2 DEF Range
<1>2. m <= n /\ \A i \in 1..m : F[i] = G[i]
  <2>1. m <= n
    BY <1>1, OrderIsUnique
  <2>2. AlikeTo(F, G, m)
    BY <1>1, OrderIsUnique
  <2>3. QED
    BY <2>1, <2>2 DEF AlikeTo
<1>3. n <= m
  <2>1. /\ \A i \in 1..n : \E k \in 1..m : G[i] = F[k]
        /\ \A k \in 1..m : \E i \in 1..n : G[i] = F[k]
    BY <1>1
  <2>2. QED
    BY <2>1, OrderIsUnique
<1>4. m = n
  BY <1>2, <1>3
<1>5. QED
  BY <1>2, <1>4

\* The counts of the rows say which rows there are.
LEMMA CountsSayRows ==
    ASSUME NEW new, NEW current, RowCounts(new) = RowCounts(current)
    PROVE  Range(Normalized(new, Normal)) = Range(Normalized(current, Normal))
<1> DEFINE F == Normalized(new, Normal)
           G == Normalized(current, Normal)
           c(row) == Cardinality({i \in DOMAIN F : F[i] = row})
           d(row) == Cardinality({i \in DOMAIN G : G[i] = row})
<1>1. RowCounts(new) = {<<row, c(row)>> : row \in Range(F)}
  BY DEF RowCounts
<1>2. RowCounts(current) = {<<row, d(row)>> : row \in Range(G)}
  BY DEF RowCounts
<1> HIDE DEF F, G, c, d
<1>3. {<<row, c(row)>> : row \in Range(F)} = {<<row, d(row)>> : row \in Range(G)}
  BY <1>1, <1>2
<1>4. ASSUME NEW r \in Range(F)
      PROVE  r \in Range(G)
  <2>1. <<r, c(r)>> \in {<<row, d(row)>> : row \in Range(G)}
    BY <1>3
  <2>2. QED
    BY <2>1
<1>5. ASSUME NEW r \in Range(G)
      PROVE  r \in Range(F)
  <2>1. <<r, d(r)>> \in {<<row, c(row)>> : row \in Range(F)}
    BY <1>3
  <2>2. QED
    BY <2>1
<1>6. QED
  BY <1>4, <1>5 DEF F, G

\* What check_dataframe_diff finds, whatever order it sorts ties in.
LEMMA DiffFinds ==
    ASSUME NEW new \in Tables, NEW current \in Tables, NEW orders \in OrderPairs(new, current)
    PROVE  /\ new = current => ~Differ(new, current, orders, Normal)
           /\ ~Differ(new, current, orders, Normal) => RowCounts(new) = RowCounts(current)
           /\ /\ UniqueKeys(new) /\ UniqueKeys(current)
              /\ RowCounts(new) = RowCounts(current)
              => ~Differ(new, current, orders, Normal)
<1> DEFINE F == Normalized(new, Normal)
           G == Normalized(current, Normal)
           p == orders[1]
           q == orders[2]
<1>1. PICK m \in Nat : /\ DOMAIN new = 1..m /\ DOMAIN F = 1..m
                       /\ \A i \in 1..m : new[i].key \in Int /\ F[i].key = new[i].key
  BY TableTypes
<1>2. PICK n \in Nat : /\ DOMAIN current = 1..n /\ DOMAIN G = 1..n
                       /\ \A i \in 1..n : current[i].key \in Int /\ G[i].key = current[i].key
  BY TableTypes
<1>3. /\ p \in Orders(new) /\ q \in Orders(current)
      /\ KeyColumn(new) = KeyColumn(current) => p = q
  BY DEF OrderPairs
<1>4. Differ(new, current, orders, Normal) <=> Arranged(F, p) # Arranged(G, q)
  BY DEF Differ
<1>5. p \in Bijection(DOMAIN F, DOMAIN F) /\ q \in Bijection(DOMAIN G, DOMAIN G)
  BY <1>1, <1>2, <1>3 DEF Orders
<1>6. /\ RowCounts(new) = {<<row, Cardinality(Places(F, row))>> : row \in Range(F)}
      /\ RowCounts(current) = {<<row, Cardinality(Places(G, row))>> : row \in Range(G)}
  BY DEF RowCounts, Places
<1>7. IsFiniteSet(DOMAIN F) /\ IsFiniteSet(DOMAIN G)
  BY <1>1, <1>2, FS_Interval
<1>8. ASSUME new = current
      PROVE  Arranged(F, p) = Arranged(G, q)
  <2>1. p = q
    BY <1>3, <1>8
  <2>2. F = G
    BY <1>8
  <2> HIDE DEF F, G, p, q
  <2>3. QED
    BY <2>1, <2>2
<1> HIDE DEF F, G, p, q
<1>9. /\ Range(Arranged(F, p)) = Range(F)
      /\ Range(Arranged(G, q)) = Range(G)
      /\ \A row : Cardinality(Places(Arranged(F, p), row)) = Cardinality(Places(F, row))
      /\ \A row : Cardinality(Places(Arranged(G, q), row)) = Cardinality(Places(G, row))
  BY <1>5, <1>7, CountArranged
<1>10. ASSUME Arranged(F, p) = Arranged(G, q)
       PROVE  RowCounts(new) = RowCounts(current)
  <2>1. Range(F) = Range(G) /\ \A row : Cardinality(Places(F, row)) = Cardinality(Places(G, row))
    BY <1>9, <1>10
  <2>2. QED
    BY <1>6, <2>1
<1>11. ASSUME UniqueKeys(new), UniqueKeys(current), RowCounts(new) = RowCounts(current)
       PROVE  Arranged(F, p) = Arranged(G, q)
  <2> DEFINE A == Arranged(F, p)
             B == Arranged(G, q)
  <2>1. DOMAIN A = 1..m /\ GoesUp(A, m) /\ \A i \in 1..m : A[i].key \in Int
    BY <1>1, <1>3, <1>11, OrdersGoUp
  <2>2. DOMAIN B = 1..n /\ GoesUp(B, n) /\ \A i \in 1..n : B[i].key \in Int
    BY <1>2, <1>3, <1>11, OrdersGoUp
  <2>3. Range(A) = Range(B)
    BY <1>9, <1>11, CountsSayRows DEF F, G
  <2>4. A = [i \in DOMAIN A |-> A[i]] /\ B = [i \in DOMAIN B |-> B[i]]
    BY DEF Arranged
  <2> HIDE DEF A, B
  <2>5. A = B
    <3>1. m = n /\ \A i \in 1..m : A[i] = B[i]
      BY <2>1, <2>2, <2>3, OrderedAlike
    <3>2. QED
      BY <2>1, <2>2, <2>4, <3>1
  <2>6. QED
    BY <2>5 DEF A, B
<1>12. QED
  BY <1>4, <1>8, <1>10, <1>11

LEMMA DiffCall ==
    ASSUME Arguments, Answered, args' = args
    PROVE  DiffExact'
<1> SUFFICES ASSUME args.fn = "diff"
             PROVE  DiffExact'
  BY DEF DiffExact
<1>1. args.new \in Tables /\ args.current \in Tables
  BY ArgTypes
<1>2. PICK orders \in OrderPairs(args.new, args.current) :
         result' = <<Differ(args.new, args.current, orders, Normal)>>
  BY DEF Answered, CallDiff, Return
<1>3. Differ(args.new, args.current, orders, Normal) \in BOOLEAN
  BY DEF Differ
<1> DEFINE d == Differ(args.new, args.current, orders, Normal)
<1>4. result' = <<FALSE>> <=> ~d
  <2> HIDE DEF d
  <2>1. ASSUME NEW b \in BOOLEAN
        PROVE  <<b>> = <<FALSE>> <=> ~b
    OBVIOUS
  <2>2. QED
    BY <1>2, <1>3, <2>1 DEF d
<1>5. /\ args.new = args.current => ~d
      /\ ~d => RowCounts(args.new) = RowCounts(args.current)
      /\ /\ UniqueKeys(args.new) /\ UniqueKeys(args.current)
         /\ RowCounts(args.new) = RowCounts(args.current)
         => ~d
  BY <1>1, DiffFinds
<1> HIDE DEF d
<1>6. QED
  BY <1>4, <1>5 DEF DiffExact

\* check_dataframe_diff (pandas.py:16) finds no difference in unchanged tables of any
\* length, however ties are sorted, and misses none but in the order of the rows and
\* the texts it takes for the same.
THEOREM DiffIsExact == HSpec => []DiffExact
<1>1. HInit => DiffExact
  BY DEF HInit, DiffExact
<1>2. PureInv /\ DiffExact /\ [HNext]_hvars => DiffExact'
  <2> SUFFICES ASSUME PureInv, DiffExact, [HNext]_hvars
               PROVE  DiffExact'
    OBVIOUS
  <2>1. CASE UNCHANGED purevars
    BY <2>1 DEF purevars, DiffExact
  <2>2. CASE Arguments /\ Pure
    BY <2>2, PureAnswers, DiffCall
  <2>3. QED
    BY <2>1, <2>2, PureAlone
<1>3. QED
  BY <1>1, <1>2, PureInit, PureStep, PTL DEF HSpec

-----------------------------------------------------------------------------
(* The helpers together.                                                   *)

\* Each helper behaves in HSpec as in its own module: a call of one leaves the
\* others where they are.
THEOREM HelpersApart ==
    ASSUME Budgets # {}
    PROVE  HSpec => SafeSpec /\ S3Spec
<1>1. HInit => Init
  <2>1. NoGet => Init
    BY DEF NoGet, Init
  <2>2. QED
    BY <2>1 DEF HInit
<1>2. HInit => S3Init
  <2>1. NoS3 => S3Init
    <3>1. [fn |-> "list"] \in Calls
      BY DEF Calls
    <3>2. QED
      BY <3>1 DEF NoS3, S3Init
  <2>2. QED
    BY <2>1 DEF HInit
<1>3. [HNext]_hvars => [Next]_vars
  BY DEF HNext, Get, S3Request, S3Others, Pure, hvars
<1>4. [HNext]_hvars => [S3Next]_s3vars
  BY DEF HNext, Get, S3Request, S3Others, Pure, hvars, S3Next
<1>5. QED
  BY <1>1, <1>2, <1>3, <1>4, PTL DEF HSpec, SafeSpec, S3Spec

\* Called among the others, the retried GET and the S3 helpers keep what is proved
\* of them alone.
THEOREM HelpersKeepTheirWord ==
    ASSUME Budgets # {}
    PROVE  HSpec => [](/\ TypeOK /\ ReturnsOnlySuccess /\ Verdict
                       /\ S3TypeOK /\ RenameKeeps /\ DownloadVerdict /\ NothingMissed)
BY HelpersApart, RetryTypes, RetrySuccess, RetryEnds, S3TypeCorrect, RenameNeverLoses,
   DownloadEndsRight, ListingsMissNothing, PTL

-----------------------------------------------------------------------------
(* What is left to do.                                                     *)

\* How many steps the retry loop takes at most from here.
RetryLeft == CASE pc = "start" -> 2 * Pauses + 3
               [] pc = "call" -> 2 * (Pauses - current_retries) + 2
               [] pc = "sleep" -> 2 * (Pauses - current_retries) + 1
               [] pc = "done" -> 0

RetryNearer == RetryLeft \in Nat /\ RetryLeft' \in Nat /\ RetryLeft' < RetryLeft

LEMMA RetryStepNearer ==
    ASSUME TypeInv, Next
    PROVE  RetryNearer
<1> USE DEF RetryNearer, TypeInv, TypeOK, Pauses
<1>1. CASE CheckArguments
  <2>1. pc = "start" /\ pc' \in {"call", "done"} /\ current_retries' = current_retries
    BY <1>1 DEF CheckArguments, Finish
  <2>2. QED
    BY <2>1 DEF RetryLeft
<1>2. CASE Call
  <2>1. pc = "call" /\ pc' \in {"sleep", "done"} /\ current_retries' = current_retries
    BY <1>2 DEF Call, Finish
  <2>2. QED
    BY <2>1 DEF RetryLeft
<1>3. CASE Sleep
  <2>1. pc = "sleep" /\ pc' = "call" /\ current_retries' = current_retries + 1
    BY <1>3 DEF Sleep
  <2>2. QED
    BY <2>1 DEF RetryLeft
<1>4. CASE FallOut
  <2>1. pc = "call" /\ pc' = "done"
    BY <1>4 DEF FallOut, Finish
  <2>2. QED
    BY <2>1 DEF RetryLeft
<1>5. QED
  BY <1>1, <1>2, <1>3, <1>4 DEF Next

\* Whatever answers get_with_exception_hand (scripts.py:68) meets, each of its steps
\* brings it nearer to its end, which is at most 2 * Pauses + 3 steps away.
THEOREM RetriesRunOut == Spec => [][RetryNearer]_vars
<1>1. Init => TypeInv
  BY BudgetsAssumption DEF Init, TypeInv, TypeOK, Pauses, Answers
<1>2. TypeInv /\ [Next]_vars => [RetryNearer]_vars
  BY RetryStepNearer
<1>3. QED
  BY <1>1, <1>2, TypeInvStep, PTL DEF Spec

\* The keys a listing may still come by.
KeysLeft == {k \in Keys : k > marker}

\* How many requests a call of an S3 helper makes at most from here.
RequestsLeft ==
    CASE step = "get" -> IF attempt <= call.retry_count
                         THEN call.retry_count - attempt + 2 ELSE 1
      [] step = "copy" -> 2
      [] step = "delete" -> 1
      [] step = "page" -> Cardinality(KeysLeft) + 2
      [] step = "delete_objects" -> 1
      [] step = "done" -> 0

LEMMA KeysLeftCount == Cardinality(KeysLeft) \in Nat /\ IsFiniteSet(KeysLeft)
<1>1. KeysLeft \subseteq Keys
  BY DEF KeysLeft
<1>2. IsFiniteSet(KeysLeft)
  BY <1>1, KeysAssumption, FS_Subset
<1>3. QED
  BY <1>2, FS_CardinalityType

\* A listing that goes on has left keys behind it.
LEMMA ListingNearer ==
    ASSUME S3Inv, ListPage, ~LastPage
    PROVE  Cardinality(KeysLeft') \in Nat /\ Cardinality(KeysLeft') < Cardinality(KeysLeft)
<1>1. PICK k \in Page : marker' = k
  BY DEF ListPage
<1>2. k \in Keys /\ k > marker
  BY DEF Page, ToCome, Present
<1>3. marker \in Int /\ k \in Int /\ \A j \in Keys : j \in Int
  BY <1>2, KeysAssumption DEF S3Inv, S3TypeOK
<1>4. KeysLeft' \subseteq KeysLeft /\ k \in KeysLeft /\ k \notin KeysLeft'
  <2>1. KeysLeft' = {j \in Keys : j > k}
    BY <1>1 DEF KeysLeft
  <2>2. k \in KeysLeft /\ k \notin KeysLeft'
    BY <1>2, <1>3, <2>1 DEF KeysLeft
  <2>3. KeysLeft' \subseteq KeysLeft
    <3>1. ASSUME NEW j \in Keys, j > k
          PROVE  j > marker
      BY <1>2, <1>3, <3>1
    <3>2. QED
      BY <2>1, <3>1 DEF KeysLeft
  <2>4. QED
    BY <2>2, <2>3
<1>5. IsFiniteSet(KeysLeft')
  BY <1>4, KeysLeftCount, FS_Subset
<1>6. Cardinality(KeysLeft') <= Cardinality(KeysLeft)
  BY <1>4, KeysLeftCount, FS_Subset
<1>7. Cardinality(KeysLeft) # Cardinality(KeysLeft')
  BY <1>4, KeysLeftCount, FS_Subset
<1>8. Cardinality(KeysLeft') \in Nat
  BY <1>5, FS_CardinalityType
<1>9. QED
  BY <1>6, <1>7, <1>8, KeysLeftCount

RequestNearer ==
    RequestsLeft \in Nat /\ RequestsLeft' \in Nat /\ RequestsLeft' < RequestsLeft

LEMMA S3StepNearer ==
    ASSUME S3Inv, S3Step
    PROVE  RequestNearer
<1> USE DEF RequestNearer
<1>1. CASE Attempt
  <2>1. /\ step = "get" /\ attempt \in Nat /\ call.retry_count \in Int
        /\ attempt <= call.retry_count
        /\ attempt' = attempt + 1 /\ call' = call
        /\ step' = "get" \/ step' = "done"
    BY <1>1, CallTypes DEF Attempt, Failed, End, S3Inv, S3TypeOK, StepInv
  <2>2. RequestsLeft = call.retry_count - attempt + 2
    BY <2>1 DEF RequestsLeft
  <2>3. RequestsLeft' = IF step' = "get"
                        THEN (IF attempt + 1 <= call.retry_count
                              THEN call.retry_count - (attempt + 1) + 2 ELSE 1)
                        ELSE 0
    BY <2>1 DEF RequestsLeft
  <2>4. QED
    BY <2>1, <2>2, <2>3
<1>2. CASE NoAttemptLeft
  <2>1. step = "get" /\ ~(attempt <= call.retry_count) /\ step' = "done"
    <3>1. attempt \in Nat /\ call.retry_count \in Int
      BY <1>2, CallTypes DEF NoAttemptLeft, S3Inv, S3TypeOK, StepInv
    <3>2. QED
      BY <1>2, <3>1 DEF NoAttemptLeft, End
  <2>2. QED
    BY <2>1 DEF RequestsLeft
<1>3. CASE Copy
  <2>1. step = "copy" /\ step' \in {"delete", "done"}
    BY <1>3 DEF Copy, End
  <2>2. QED
    BY <2>1 DEF RequestsLeft
<1>4. CASE Delete
  <2>1. step = "delete" /\ step' = "done"
    BY <1>4 DEF Delete, End
  <2>2. QED
    BY <2>1 DEF RequestsLeft
<1>5. CASE ListPage
  <2>1. step = "page" /\ RequestsLeft = Cardinality(KeysLeft) + 2
    BY <1>5 DEF ListPage, RequestsLeft
  <2>2. CASE LastPage
    <3>1. step' \in {"delete_objects", "done"}
      BY <1>5, <2>2 DEF ListPage, End
    <3>2. RequestsLeft' \in {0, 1}
      BY <3>1 DEF RequestsLeft
    <3>3. QED
      BY <2>1, <3>2, KeysLeftCount
  <2>3. CASE ~LastPage
    <3>1. step' = "page"
      BY <1>5, <2>1, <2>3 DEF ListPage
    <3>2. RequestsLeft' = Cardinality(KeysLeft') + 2
      BY <3>1 DEF RequestsLeft
    <3>3. QED
      BY <1>5, <2>1, <2>3, <3>2, KeysLeftCount, ListingNearer
  <2>4. QED
    BY <2>2, <2>3
<1>6. CASE ListFails
  <2>1. step = "page" /\ step' = "done"
    BY <1>6 DEF ListFails, End
  <2>2. RequestsLeft = Cardinality(KeysLeft) + 2 /\ RequestsLeft' = 0
    BY <2>1 DEF RequestsLeft
  <2>3. QED
    BY <2>2, KeysLeftCount
<1>7. CASE DeleteObjects
  <2>1. step = "delete_objects" /\ step' = "done"
    BY <1>7 DEF DeleteObjects, End
  <2>2. QED
    BY <2>1 DEF RequestsLeft
<1>8. QED
  BY <1>1, <1>2, <1>3, <1>4, <1>5, <1>6, <1>7 DEF S3Step

\* aws.py:88-297: each request a helper makes brings its call nearer to its end, and
\* what another process writes to the bucket never sets it back: a listing asks for
\* at most one page more than there are keys.
THEOREM RequestsRunOut ==
    S3Spec => [][(S3Step => RequestNearer) /\ (Put => RequestsLeft' = RequestsLeft)]_s3vars
<1> DEFINE Nearer == (S3Step => RequestNearer) /\ (Put => RequestsLeft' = RequestsLeft)
<1>1. S3Inv /\ [S3Next]_s3vars => [Nearer]_s3vars
  <2> SUFFICES ASSUME S3Inv
               PROVE  Nearer
    OBVIOUS
  <2>1. ASSUME Put
        PROVE  RequestsLeft' = RequestsLeft
    BY <2>1 DEF Put, progress, RequestsLeft, KeysLeft
  <2>2. QED
    BY <2>1, S3StepNearer
<1>2. QED
  BY <1>1, S3InitType, S3StepType, PTL DEF S3Spec
=============================================================================
