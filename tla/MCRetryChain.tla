---------------------------- MODULE MCRetryChain ----------------------------
(* Instances of RetryChain: short main partitions, most messages of one key *)
EXTENDS RetryChain

CONSTANTS k1, k2

Mixed == <<k1, k2, k1>>
Same  == <<k1, k1>>
=============================================================================
