--------------------------- MODULE MCRetryMessage ---------------------------
(* Instances of RetryMessage *)
EXTENDS RetryMessage

Lists == { << >>, << <<"u", 1>>, <<"v", 2>>, <<"u", 3>> >> }

Config(retries, free, backoff) ==
  [maxRetries |-> retries, freeOnDLQ |-> free, backoff |-> backoff]

\* The second delay of the last one wraps around.
SomeConfigs == { Config(0, TRUE, Constant(1)),
                 Config(2, FALSE, Exponential(1, 3, 2, 4)),
                 Config(3, TRUE, Linear(1, 2, 4)),
                 Config(2, TRUE, Linear(1, 7, 7)) }
=============================================================================
