------------------------------- MODULE RetryGet -------------------------------
(***************************************************************************)
(* get_with_exception_hand: one GET repeated after a failure, with growing *)
(* pauses and timeouts, at most max_retries times.  The service is the     *)
(* environment: every call meets any of the outcomes the code tells apart. *)
(***************************************************************************)
EXTENDS Integers

CONSTANT Budgets \* the values callers pass for max_retries

ASSUME BudgetsAssumption == Budgets \subseteq Int

VARIABLES pc,          \* "start", "call", "sleep" or "done"
          max_retries,
          current_retries,
          request_timeout,
          calls,       \* requests sent so far
          answer,      \* what the last call met, "none" before the first
          outcome      \* "none", then "returned", what was raised

vars == <<pc, max_retries, current_retries, request_timeout, calls, answer, outcome>>

\* len(retry_sleep_times)
Pauses == 12

\* Outcomes that end in an exception the except clause lists: no connection or a
\* timeout, an HTTP error, a body that does not decode, an error field in the
\* body, a body the validator refuses.
Expected == {"connection", "http", "decode", "error_field", "invalid"}

\* Any other exception, e.g. an AttributeError when the JSON body is a list.
Unexpected == "unexpected"

Answers == Expected \cup {"ok", Unexpected}

Init == /\ pc = "start"
        /\ max_retries \in Budgets
        /\ current_retries = 0
        /\ request_timeout = 60
        /\ calls = 0
        /\ answer = "none"
        /\ outcome = "none"

Finish(result) == pc' = "done" /\ outcome' = result

\* The range check of max_retries.
CheckArguments ==
    /\ pc = "start"
    /\ IF max_retries \in 0..12
       THEN pc' = "call" /\ UNCHANGED outcome
       ELSE Finish("bad_argument")
    /\ UNCHANGED <<max_retries, current_retries, request_timeout, calls, answer>>

\* Mutant of MayRetry: one retry more than the caller allows.
MayRetryOnceMore == current_retries < Pauses /\ current_retries <= max_retries

MayRetry == current_retries < Pauses /\ current_retries < max_retries

\* Mutant of Call: the error field of the body is not looked at.
CallIgnoringErrorField ==
    /\ pc = "call"
    /\ current_retries < Pauses
    /\ \E a \in Answers :
          /\ answer' = a
          /\ \/ a \in {"ok", "error_field"} /\ Finish("returned")
             \/ a = Unexpected /\ Finish(a)
             \/ a \in Expected \ {"error_field"} /\ MayRetry /\ pc' = "sleep"
                /\ UNCHANGED outcome
             \/ a \in Expected \ {"error_field"} /\ ~MayRetry /\ Finish(a)
    /\ calls' = calls + 1
    /\ UNCHANGED <<max_retries, current_retries, request_timeout>>

\* One turn of the loop: a call, and what its answer leads to.
Call ==
    /\ pc = "call"
    /\ current_retries < Pauses
    /\ \E a \in Answers :
          /\ answer' = a
          /\ \/ a = "ok" /\ Finish("returned")
             \/ a = Unexpected /\ Finish(a)
             \/ a \in Expected /\ MayRetry /\ pc' = "sleep" /\ UNCHANGED outcome
             \/ a \in Expected /\ ~MayRetry /\ Finish(a)
    /\ calls' = calls + 1
    /\ UNCHANGED <<max_retries, current_retries, request_timeout>>

\* Mutant of Sleep: the function calls itself again, with fresh counters.
SleepRecursive ==
    /\ pc = "sleep"
    /\ pc' = "start"
    /\ current_retries' = 0
    /\ request_timeout' = 60
    /\ calls' = 0
    /\ answer' = "none"
    /\ UNCHANGED <<max_retries, outcome>>

\* Mutant of Sleep: the timeout is doubled.
SleepDoubling ==
    /\ pc = "sleep"
    /\ pc' = "call"
    /\ current_retries' = current_retries + 1
    /\ request_timeout' = 2 * request_timeout
    /\ UNCHANGED <<max_retries, calls, answer, outcome>>

\* The pause before the next turn.
Sleep ==
    /\ pc = "sleep"
    /\ pc' = "call"
    /\ current_retries' = current_retries + 1
    /\ request_timeout' = request_timeout + 60
    /\ UNCHANGED <<max_retries, calls, answer, outcome>>

\* The loop condition fails, and "return return_val" reads an unbound local.
FallOut ==
    /\ pc = "call"
    /\ current_retries >= Pauses
    /\ Finish("unbound_local")
    /\ UNCHANGED <<max_retries, current_retries, request_timeout, calls, answer>>

Next == CheckArguments \/ Call \/ Sleep \/ FallOut

\* requests.get is given a timeout and time.sleep ends, so a turn of the loop
\* that is possible is taken.
Spec == Init /\ [][Next]_vars /\ WF_vars(Next)

-----------------------------------------------------------------------------
(* Properties.                                                             *)

\* Every variable has its type; the timeout is at most 60 s for the first call
\* and 60 s more for each retry.
TypeOK ==
    /\ pc \in {"start", "call", "sleep", "done"}
    /\ max_retries \in Budgets
    /\ current_retries \in 0..Pauses
    /\ request_timeout = 60 * (current_retries + 1)
    /\ calls \in Nat
    /\ answer \in Answers \cup {"none"}
    /\ outcome \in Answers \cup {"none", "returned", "bad_argument", "unbound_local"}

\* What the caller learns, for any budget but the default (which equals the number
\* of pauses, so that the loop may run out): a result exactly when the last call
\* succeeded; an expected exception only as the answer to the last of
\* max_retries + 1 calls; any other exception at the call that met it; nothing
\* sent on a bad argument.
Verdict ==
    pc = "done" /\ max_retries # Pauses =>
        /\ outcome \in {"returned", Unexpected} \cup Expected => calls <= max_retries + 1
        /\ outcome = "returned" => answer = "ok"
        /\ outcome = Unexpected => answer = Unexpected
        /\ outcome \in Expected => answer = outcome /\ calls = max_retries + 1
        /\ outcome \notin {"returned", Unexpected} \cup Expected
               => max_retries \notin 0..12 /\ calls = 0

\* No failure is passed off as a result: the function returns exactly when its
\* last request succeeded, whatever the budget.
ReturnsOnlySuccess == pc = "done" => (outcome = "returned" <=> answer = "ok")

\* "Raises: ... If there is a problem calling the url provided": a call that ends
\* after a failed last request raises what that request met.
RaisesTheProblem == pc = "done" /\ answer \in Expected => outcome = answer

-----------------------------------------------------------------------------
(* The inductive invariant: in the loop, one request per turn; a pause is   *)
(* taken only while the budget allows another request.                     *)
Loop ==
    /\ pc = "start" => current_retries = 0 /\ calls = 0
    /\ pc \in {"call", "sleep"} =>
          /\ max_retries \in 0..12
          /\ calls = IF pc = "call" THEN current_retries ELSE current_retries + 1
          /\ IF pc = "call" THEN current_retries <= max_retries
                           ELSE current_retries < max_retries
    /\ Verdict
=============================================================================
