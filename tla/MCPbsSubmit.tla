---------------------------- MODULE MCPbsSubmit ----------------------------
(* Model-checking instance of PbsSubmit: the threads are model values.    *)
EXTENDS PbsSubmit, TLC

CONSTANTS t1, t2    \* two client threads (model values)

MCThreads == {t1, t2}

(* t1 makes two calls, so a plain call can follow a call with a           *)
(* credential in the same thread; t2 makes one, concurrently.              *)
MCBudget == (t1 :> 2) @@ (t2 :> 1)
=============================================================================
