------------------------------ MODULE HashChain ------------------------------
(***************************************************************************)
(* The digests of the pre-trade ledger, and what a whole chain is.         *)
(*                                                                         *)
(* compute_entry_hash digests prev_hash (or "" when there is none), the    *)
(* payload JSON, the policy sha, the event type and the user id, joined by *)
(* NUL bytes none of the parts can contain.  With a collision-free digest  *)
(* that is an injective function of its parts, so the model's hash is the  *)
(* tuple of them.  "body" stands for the four parts other than prev_hash.  *)
(*                                                                         *)
(* A missing digest (SQL NULL, Python None) is the empty tuple.  The code  *)
(* maps None and "" to the same bytes; EmptyHash stands for the string "". *)
(***************************************************************************)
EXTENDS Naturals

NoHash == <<>>
EmptyHash == <<"">>
OrEmpty(prev) == IF prev = NoHash THEN EmptyHash ELSE prev

EntryHash(prev, body) == <<OrEmpty(prev), body>>

(* compute_segment_hash: the previous segment's hash, the ids of the rows  *)
(* created in the month (and nothing else of them), the policy sha.        *)
SegmentHash_NoIds(prev, ids, sha) == <<OrEmpty(prev), sha>>
SegmentHash(prev, ids, sha) == <<OrEmpty(prev), ids, sha>>

(* In ORDER BY id, p comes right before i.                                 *)
IsPredecessorIn(table, p, i) ==
    /\ p \in DOMAIN table /\ p < i
    /\ \A j \in DOMAIN table : j < i => j <= p

IsFirstIn(table, i) == \A j \in DOMAIN table : i <= j

(* A whole chain, declaratively: every stored hash is its row's, the first *)
(* row has no prev_hash, every other one carries its predecessor's hash.   *)
WholeChain(table) ==
    \A i \in DOMAIN table :
      /\ table[i].hash = EntryHash(table[i].prev, table[i].body)
      /\ IF IsFirstIn(table, i) THEN table[i].prev = NoHash
         ELSE \E p \in DOMAIN table : /\ IsPredecessorIn(table, p, i)
                                      /\ table[i].prev = table[p].hash
=============================================================================
