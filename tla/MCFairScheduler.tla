--------------------------- MODULE MCFairScheduler ---------------------------
(* FairScheduler on a small instance: a busy pipeline with more requests than *)
(* the worker has permits, next to one that makes one request at a time.      *)
EXTENDS FairScheduler

CONSTANTS a, b

MCRequest == ({a} \X (1 .. 3)) \union {<<b, 1>>}
=============================================================================
