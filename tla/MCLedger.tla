------------------------------ MODULE MCLedger ------------------------------
(* Two tasks, two different entries, four ids and three calls: enough for  *)
(* a failed INSERT that burns an id, a crash inside one append, a retry of *)
(* it, and another caller's append next to both.                           *)
EXTENDS Ledger
=============================================================================
