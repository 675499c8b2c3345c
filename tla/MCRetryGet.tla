------------------------------ MODULE MCRetryGet ------------------------------
EXTENDS RetryGet

\* The default value of max_retries.
Default == {12}
=============================================================================
