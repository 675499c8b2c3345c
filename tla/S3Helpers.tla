------------------------------ MODULE S3Helpers -------------------------------
(***************************************************************************)
(* One call of a helper of helpers/aws.py on one bucket: a download with   *)
(* its retries, a rename, a delete by key or by prefix, the two listings.  *)
(* Every request to S3 is a step; another process writes to the bucket in  *)
(* between, a request may fail with or without effect, and the caller may  *)
(* be killed.                                                              *)
(***************************************************************************)
EXTENDS Integers, FiniteSets

CONSTANTS Keys,        \* the keys of the bucket, numbered in their order
          Prefixed,    \* those that begin with key_prefix
          Contents,    \* what an object can hold
          RetryCounts, \* the values callers pass for retry_count
          PageSize,    \* keys one answer to a listing holds at most
          MaxDelete,   \* keys one delete_objects request takes at most
          MaxPuts      \* bound: changes by another process

ASSUME KeysAssumption == /\ Keys \subseteq Nat /\ IsFiniteSet(Keys)
                         /\ Prefixed \subseteq Keys
ASSUME CountsAssumption == /\ RetryCounts \subseteq Int /\ PageSize \in Nat \ {0}
                           /\ MaxDelete \in Nat /\ MaxPuts \in Nat

VARIABLES bucket,
          file,        \* the local file a download writes
          call,        \* the function called and its arguments
          step,        \* the request that comes next, "done" at the end
          attempt,     \* downloads tried
          object_list, \* keys listed, or to be deleted
          marker,      \* where the next page of a listing begins
          ending,      \* "none", then "returned", "killed" or what was raised
          deleted,     \* keys S3 reported as deleted
          before,      \* history: the bucket at the time of the call
          touched,     \* history: keys another process has written since
          puts

Missing == "missing"

ASSUME ContentsAssumption == Missing \notin Contents

Objects == Contents \cup {Missing}

progress == <<step, attempt, object_list, marker, ending, deleted>>
s3vars == <<bucket, file, call, progress, before, touched, puts>>

Present(b) == {k \in Keys : b[k] # Missing}

\* download_s3_object, delete_s3_object, rename_s3_object, delete_s3_objects (a
\* caller does not name a key twice), retrieve_s3_bucket_object_list and
\* get_prefixed_file_list.
Calls ==
    [fn : {"download"}, key : Keys, retry_count : RetryCounts]
      \cup [fn : {"delete"}, key : Keys]
      \cup [fn : {"rename"}, key : Keys, new_key : Keys]
      \cup [fn : {"delete_list"}, key_list : SUBSET Keys]
      \cup [fn : {"delete_prefix"}, key_list : SUBSET (Keys \ Prefixed)]
      \cup [fn : {"list", "file_list"}]

FirstStep == [download |-> "get", delete |-> "delete", rename |-> "copy",
              delete_list |-> "delete_objects", delete_prefix |-> "page",
              list |-> "page", file_list |-> "page"]

S3Start(c) ==
    /\ bucket \in [Keys -> Objects]
    /\ call = c
    /\ step = FirstStep[c.fn]
    /\ object_list = IF c.fn \in {"delete_list", "delete_prefix"} THEN c.key_list ELSE {}
    /\ file = Missing /\ attempt = 0 /\ marker = -1
    /\ ending = "none" /\ deleted = {}
    /\ before = bucket /\ touched = {} /\ puts = 0

S3Init == \E c \in Calls : S3Start(c)

End(how) == step' = "done" /\ ending' = how

\* A request that changes the bucket succeeds, or raises although it may have had
\* its effect.
Request(effect) == effect \/ bucket' = bucket

-----------------------------------------------------------------------------
(* download_s3_object.                                                     *)

\* Mutant of Failed: the last attempt is taken for one of the others.
FailedOnceMore ==
    /\ UNCHANGED file
    /\ IF attempt <= call.retry_count
       THEN UNCHANGED <<step, ending>>
       ELSE End("client_error")

\* A ClientError, which a missing key is too, is tried again after the cooldown.
Failed ==
    /\ UNCHANGED file
    /\ IF attempt < call.retry_count
       THEN UNCHANGED <<step, ending>>
       ELSE End("client_error")

\* Mutant of Attempt: the attempts are not counted.
AttemptForever ==
    /\ step = "get"
    /\ attempt' = attempt + 1
    /\ \/ bucket[call.key] # Missing /\ file' = bucket[call.key] /\ End("returned")
       \/ UNCHANGED <<file, step, ending>>
       \/ UNCHANGED file /\ End("other_error")
    /\ UNCHANGED <<bucket, call, object_list, marker, deleted, before, touched, puts>>

\* One turn of the loop; an exception of another kind is not caught.
Attempt ==
    /\ step = "get" /\ attempt <= call.retry_count
    /\ attempt' = attempt + 1
    /\ \/ bucket[call.key] # Missing /\ file' = bucket[call.key] /\ End("returned")
       \/ Failed
       \/ UNCHANGED file /\ End("other_error")
    /\ UNCHANGED <<bucket, call, object_list, marker, deleted, before, touched, puts>>

\* The loop over range(retry_count + 1) has no turn left: the function returns.
NoAttemptLeft ==
    /\ step = "get" /\ attempt > call.retry_count
    /\ End("returned")
    /\ UNCHANGED <<bucket, file, call, attempt, object_list, marker, deleted,
                   before, touched, puts>>

-----------------------------------------------------------------------------
(* rename_s3_object and delete_s3_object.                                  *)

unwritten == <<file, call, attempt, object_list, marker, deleted, before, touched, puts>>

Copied == bucket' = [bucket EXCEPT ![call.new_key] = bucket[call.key]]

\* Mutant of Copy: the status of the answer is not looked at.
CopyUnchecked ==
    /\ step = "copy"
    /\ \/ /\ bucket[call.key] # Missing /\ call.key # call.new_key
          /\ Request(Copied) /\ step' = "delete" /\ UNCHANGED ending
       \/ UNCHANGED bucket /\ End("client_error")
    /\ UNCHANGED unwritten

\* S3 refuses to copy an object that is not there, or onto itself; it answers a
\* copy that succeeds with the status 200.
Copy ==
    /\ step = "copy"
    /\ \/ /\ bucket[call.key] # Missing /\ call.key # call.new_key
          /\ \/ Copied /\ step' = "delete" /\ UNCHANGED ending
             \/ Request(Copied) /\ End("client_error")
       \/ UNCHANGED bucket /\ End("client_error")
    /\ UNCHANGED unwritten

Deleted == bucket' = [bucket EXCEPT ![call.key] = Missing]

Delete ==
    /\ step = "delete"
    /\ \/ Deleted /\ End("returned")
       \/ Request(Deleted) /\ End("client_error")
    /\ UNCHANGED unwritten

-----------------------------------------------------------------------------
(* Listings, and delete_s3_objects.                                        *)

\* The listed keys that are still to come, and those of them one answer holds.
ToCome == {k \in Present(bucket) \cap Prefixed : k > marker}
Page == {k \in ToCome : Cardinality({j \in ToCome : j < k}) < PageSize}

\* Mutant of LastPage: every function is content with one page.
FirstPageOnly == TRUE

\* Only get_prefixed_file_list is content with one page.
LastPage == call.fn = "file_list" \/ Page = ToCome

\* One page of a listing by prefix is asked for.
ListPage ==
    /\ step = "page"
    /\ object_list' = object_list \cup Page
    /\ IF ~LastPage
       THEN \E k \in Page : (\A j \in Page : j <= k) /\ marker' = k
       ELSE UNCHANGED marker
    /\ CASE ~LastPage -> UNCHANGED <<step, ending>>
         [] LastPage /\ call.fn = "delete_prefix" ->
                step' = "delete_objects" /\ UNCHANGED ending
         [] OTHER -> End("returned")
    /\ UNCHANGED <<bucket, file, call, attempt, deleted, before, touched, puts>>

\* retrieve_s3_bucket_object_list raises a RuntimeError of its own instead.
ListFails ==
    /\ step = "page"
    /\ End(IF call.fn = "list" THEN "runtime_error" ELSE "client_error")
    /\ UNCHANGED <<bucket, unwritten>>

\* S3 refuses an empty and a too long list; of the others it deletes what it can
\* and reports the rest as errors, which the function does not look at.
DeleteObjects ==
    /\ step = "delete_objects"
    /\ \/ /\ object_list # {} /\ Cardinality(object_list) <= MaxDelete
          /\ \E gone \in SUBSET object_list :
                /\ bucket' = [k \in Keys |-> IF k \in gone THEN Missing ELSE bucket[k]]
                /\ \/ deleted' = gone /\ End("returned")
                   \/ deleted' = deleted /\ End("client_error")
       \/ UNCHANGED <<bucket, deleted>> /\ End("client_error")
    /\ UNCHANGED <<file, call, attempt, object_list, marker, before, touched, puts>>

-----------------------------------------------------------------------------
(* The environment.                                                        *)

\* Another process writes or deletes an object.
Put ==
    /\ step # "done" /\ puts < MaxPuts
    /\ puts' = puts + 1
    /\ \E k \in Keys, o \in Objects :
          bucket' = [bucket EXCEPT ![k] = o] /\ touched' = touched \cup {k}
    /\ UNCHANGED <<file, call, progress, before>>

S3Kill ==
    /\ step # "done"
    /\ End("killed")
    /\ UNCHANGED <<bucket, unwritten>>

S3Step == Attempt \/ NoAttemptLeft \/ Copy \/ Delete \/ ListPage \/ ListFails \/ DeleteObjects

S3Next == S3Step \/ Put \/ S3Kill

S3Spec == S3Init /\ [][S3Next]_s3vars

-----------------------------------------------------------------------------
(* Properties.                                                             *)

\* Every variable has its type; no download is tried more often than allowed.
S3TypeOK ==
    /\ bucket \in [Keys -> Objects] /\ before \in [Keys -> Objects]
    /\ file \in Objects
    /\ call \in Calls
    /\ step \in {"get", "copy", "delete", "page", "delete_objects", "done"}
    /\ attempt \in Nat /\ (attempt > 0 => attempt <= call.retry_count + 1)
    /\ object_list \subseteq Keys /\ deleted \subseteq Keys /\ touched \subseteq Keys
    /\ marker \in Keys \cup {-1}
    /\ ending \in {"none", "returned", "client_error", "other_error", "runtime_error",
                    "killed"}
    /\ puts \in 0..MaxPuts

\* A rename never loses the object (aws.py:282-297): while nobody else writes to
\* the two keys it is under one of them, whatever fails and whenever the process is
\* killed; a rename that returns has moved it.
RenameKeeps ==
    /\ call.fn = "rename"
    /\ before[call.key] # Missing
    /\ touched \cap {call.key, call.new_key} = {}
    => /\ before[call.key] \in {bucket[call.key], bucket[call.new_key]}
       /\ ending = "returned" =>
             bucket[call.key] = Missing /\ bucket[call.new_key] = before[call.key]

\* "max_retries: The number of times to retry the download" (aws.py:216): a
\* download returns with the file, at the latest at its last attempt, or raises,
\* a ClientError only after that many retries; it leaves no part of a file.  A
\* negative retry_count, for which there is no attempt, returns without a file.
DownloadVerdict ==
    call.fn = "download" /\ step = "done" /\ ending # "killed" =>
        /\ call.retry_count >= 0 => (ending = "returned" <=> file # Missing)
        /\ ending = "client_error" => attempt = call.retry_count + 1
        /\ ending = "returned" => attempt <= call.retry_count + 1 \/ call.retry_count < 0
        /\ file # Missing /\ call.key \notin touched => file = before[call.key]

\* What a caller could expect to be listed: there at the call, and left alone since.
Untouched == (Present(before) \cap Prefixed) \ touched

\* A listing of several pages misses no key that is left alone while it is
\* pulled (aws.py:88-174); the one of a single page misses none if it has room.
\* When delete_s3_objects (aws.py:249-279) returns, the number it returns is right:
\* of what nobody else has written, the keys S3 reported are gone, and the others,
\* whose errors it does not look at, are as they were.
NothingMissed ==
    ending = "returned" =>
        /\ call.fn \in {"list", "delete_prefix"} => Untouched \subseteq object_list
        /\ call.fn = "file_list" /\ touched = {} /\ Cardinality(Untouched) <= PageSize
               => object_list = Untouched
        /\ call.fn \in {"delete_list", "delete_prefix"}
               => /\ deleted \subseteq object_list
                  /\ \A k \in Keys \ touched :
                        bucket[k] = IF k \in deleted THEN Missing ELSE before[k]
=============================================================================
