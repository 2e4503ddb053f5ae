--------------------------- MODULE AbstractShards ---------------------------
(***************************************************************************)
(* What the Logger PC promises of the shard tree to whoever copies or      *)
(* reads it: a shard appears whole, once, and stays as it is.  How a shard *)
(* comes to be, in how many runs, and what failed before, is not its       *)
(* business.  ShardExport implements it; LoggerSync builds on it.          *)
(***************************************************************************)
CONSTANTS Shards,   \* names of final files
          Contents, \* what a whole shard can hold
          Absent    \* content of a name without a file

VARIABLE file

Init == file = [x \in Shards |-> Absent]

Write(x, c) == file[x] = Absent /\ file' = [file EXCEPT ![x] = c]

Next == \E x \in Shards, c \in Contents : Write(x, c)

Spec == Init /\ [][Next]_file
=============================================================================
