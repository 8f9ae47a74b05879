----------------------------- MODULE MCReadPool -----------------------------
(***************************************************************************)
(* Small instances of ReadPool: a read of everything, and a capped one     *)
(* backwards.  The first event alone fills a batch, the second does not.   *)
(***************************************************************************)
EXTENDS ReadPool

MCJobs == {[cursor |-> 0, reverse |-> FALSE, limit |-> NoLimit],
           [cursor |-> 3, reverse |-> TRUE, limit |-> 1]}

MCSize == [p \in 1..MaxPublished |-> MaxPublished + 1 - p]
=============================================================================
