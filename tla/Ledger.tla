------------------------------- MODULE Ledger -------------------------------
(***************************************************************************)
(* LedgerClient over one DuckDB connection: genesis seeding and append,    *)
(* statement by statement, with failing statements and process crashes.    *)
(*                                                                         *)
(* A caller is a task of the process: it constructs a LedgerClient and     *)
(* calls append on it.  Both are synchronous, and the process has a single *)
(* asyncio loop, so a task that has entered one of them keeps the loop     *)
(* ("running") until it returns or raises.                                 *)
(*                                                                         *)
(* DuckDB is external: each statement is a transaction of its own that     *)
(* commits or fails as a whole; nextval is not rolled back with the        *)
(* statement that called it; after a restart the sequence stands somewhere *)
(* between the last committed id and the last id handed out.               *)
(***************************************************************************)
EXTENDS HashChain

CONSTANTS Callers,      \* tasks of the process
          Entries,      \* (event type, payload) arguments of append
          GenesisEntry, \* what the genesis row records
          NoCaller,     \* nobody is inside a LedgerClient method
          MaxSeq,       \* bound: ids the sequence hands out
          MaxCalls      \* bound: append calls

ASSUME BoundsAssumption == MaxSeq \in Nat /\ MaxCalls \in Nat
ASSUME CallersAssumption == NoCaller \notin Callers

VARIABLES rows,     \* pre_trade_ledger_raw: id -> [body, prev, hash, by]
          seq,      \* last value of seq_pre_trade_ledger_id handed out
          up,       \* the process is running
          opened,   \* callers that hold a constructed LedgerClient
          running,  \* the caller inside __init__ or append, or NoCaller
          pc,       \* the statement each caller executes next
          arg,      \* the entry each caller's append call was given
          prevHash, \* the prev_hash local of each caller's append call
          callNo,   \* observer: the number of each caller's append call
          calls,    \* observer: append calls started so far
          acked     \* observer: {[call, id]}, calls that returned an id

locals == <<arg, prevHash, callNo>>
vars == <<rows, seq, up, opened, running, pc, locals, calls, acked>>

GenesisCall == 0

Ids == DOMAIN rows

(* ORDER BY id DESC LIMIT 1; without the ORDER BY, any row would do.       *)
IsTip_NoOrderBy(t) == t \in Ids
IsTip(t) == t \in Ids /\ \A i \in Ids : i <= t

(* PRIMARY KEY, and the CHECK: id 1, and no other, has a NULL prev_hash.   *)
RowAllowed_NoCheck(id, prev) == id \notin Ids
RowAllowed(id, prev) == id \notin Ids /\ ((id = 1) <=> (prev = NoHash))

(* Adding a row, as the INSERT statements do when they commit.  The column *)
(* by is not in the table: it records which call inserted the row.         *)
InsertRow(id, body, prev, call) ==
    rows' = [i \in Ids \cup {id} |->
               IF i = id THEN [body |-> body, prev |-> prev,
                               hash |-> EntryHash(prev, body), by |-> call]
                         ELSE rows[i]]

Init ==
    /\ rows = <<>> /\ seq = 0
    /\ up = TRUE /\ opened = {} /\ running = NoCaller
    /\ pc = [c \in Callers |-> "idle"]
    /\ arg = [c \in Callers |-> GenesisEntry]
    /\ prevHash = [c \in Callers |-> NoHash]
    /\ callNo = [c \in Callers |-> GenesisCall]
    /\ calls = 0 /\ acked = {}

(* A task gets the loop only when no other task is inside the client; with *)
(* an append that awaits, or threads, it would get it at any time.         *)
LoopIsFree_Awaiting == TRUE
LoopIsFree == running = NoCaller

Enter(c, label) ==
    /\ up /\ LoopIsFree /\ pc[c] = "idle"
    /\ running' = c
    /\ pc' = [pc EXCEPT ![c] = label]

Goto(c, label) == pc' = [pc EXCEPT ![c] = label] /\ UNCHANGED running

Leave(c) == pc' = [pc EXCEPT ![c] = "idle"] /\ running' = NoCaller

(* An exception leaves the method like a return, and never constructs.     *)
Raise(c) == Leave(c) /\ UNCHANGED opened

(***************************************************************************)
(* Construction.  create_pre_trade_ledger is idempotent: a missing table   *)
(* and an empty one are the same state, so it changes nothing here.        *)
(***************************************************************************)
OpenClient_Recreates(c) ==
    /\ Enter(c, "lookup")
    /\ rows' = <<>>
    /\ UNCHANGED <<seq, up, opened, locals, calls, acked>>
OpenClient(c) ==
    /\ Enter(c, "lookup")
    /\ UNCHANGED <<rows, seq, up, opened, locals, calls, acked>>

GenesisExists(c) ==
    /\ pc[c] = "lookup" /\ 1 \in Ids
    /\ opened' = opened \cup {c}
    /\ Leave(c)
    /\ UNCHANGED <<rows, seq, up, locals, calls, acked>>

GenesisMissing(c) ==
    /\ pc[c] = "lookup" /\ 1 \notin Ids
    /\ Goto(c, "genesis")
    /\ UNCHANGED <<rows, seq, up, opened, locals, calls, acked>>

InsertGenesis(c) ==
    /\ pc[c] = "genesis" /\ seq < MaxSeq
    /\ RowAllowed(seq + 1, NoHash)
    /\ seq' = seq + 1
    /\ InsertRow(seq + 1, GenesisEntry, NoHash, GenesisCall)
    /\ opened' = opened \cup {c}
    /\ Leave(c)
    /\ UNCHANGED <<up, locals, calls, acked>>

(* A statement of __init__ raises: no client.  The genesis INSERT fails    *)
(* for certain when its id breaks the CHECK, and may have used an id up.   *)
OpenFails(c) ==
    /\ pc[c] \in {"lookup", "genesis"}
    /\ \/ UNCHANGED seq
       \/ pc[c] = "genesis" /\ seq < MaxSeq /\ seq' = seq + 1
    /\ Raise(c)
    /\ UNCHANGED <<rows, up, locals, calls, acked>>

(***************************************************************************)
(* append(event_type, payload)                                             *)
(***************************************************************************)
BeginAppend(c, e) ==
    /\ c \in opened /\ calls < MaxCalls
    /\ Enter(c, "select")
    /\ calls' = calls + 1
    /\ arg' = [arg EXCEPT ![c] = e]
    /\ callNo' = [callNo EXCEPT ![c] = calls + 1]
    /\ UNCHANGED <<rows, seq, up, opened, prevHash, acked>>

(* An empty table raises "no genesis".                                     *)
SelectTip(c) ==
    /\ pc[c] = "select"
    /\ IF Ids = {}
       THEN Raise(c) /\ UNCHANGED prevHash
       ELSE /\ \E t \in Ids :
                 /\ IsTip(t)
                 /\ prevHash' = [prevHash EXCEPT ![c] = rows[t].hash]
            /\ Goto(c, "insert") /\ UNCHANGED opened
    /\ UNCHANGED <<rows, seq, up, arg, callNo, calls, acked>>

InsertEntry(c) ==
    /\ pc[c] = "insert" /\ seq < MaxSeq
    /\ RowAllowed(seq + 1, prevHash[c])
    /\ seq' = seq + 1
    /\ InsertRow(seq + 1, arg[c], prevHash[c], callNo[c])
    /\ Goto(c, "currval")
    /\ UNCHANGED <<up, opened, locals, calls, acked>>

AppendRaises_Retry(c) ==
    /\ pc[c] \in {"select", "insert", "currval"}
    /\ Goto(c, "select")
    /\ UNCHANGED <<rows, seq, up, opened, locals, calls, acked>>
(* The SELECT, canonical_json, the INSERT or the currval raises.  A failed *)
(* INSERT may have used an id up; a failed currval leaves the row.         *)
AppendRaises(c) ==
    /\ pc[c] \in {"select", "insert", "currval"}
    /\ \/ UNCHANGED seq
       \/ pc[c] = "insert" /\ seq < MaxSeq /\ seq' = seq + 1
    /\ Raise(c)
    /\ UNCHANGED <<rows, up, locals, calls, acked>>

(* SELECT currval('seq_pre_trade_ledger_id').                              *)
Currval_Nextval == seq + 1
Currval == seq

ReturnId(c) ==
    /\ pc[c] = "currval"
    /\ acked' = acked \cup {[call |-> callNo[c], id |-> Currval]}
    /\ Leave(c)
    /\ UNCHANGED <<rows, seq, up, opened, locals, calls>>

(***************************************************************************)
(* The process dies at any point and is started again on the same file.    *)
(***************************************************************************)
Crash ==
    /\ up /\ up' = FALSE
    /\ opened' = {} /\ running' = NoCaller
    /\ pc' = [c \in Callers |-> "idle"]
    /\ UNCHANGED <<rows, seq, locals, calls, acked>>

SeqOnDisk == {s \in 0..seq : \A i \in Ids : i <= s}

Restart ==
    /\ ~up /\ up' = TRUE
    /\ seq' \in SeqOnDisk
    /\ UNCHANGED <<rows, opened, running, pc, locals, calls, acked>>

Step(c) ==
    \/ GenesisExists(c) \/ GenesisMissing(c) \/ InsertGenesis(c)
    \/ OpenFails(c)
    \/ SelectTip(c) \/ InsertEntry(c) \/ AppendRaises(c) \/ ReturnId(c)

Next ==
    \/ \E c \in Callers : OpenClient(c) \/ Step(c)
    \/ \E c \in Callers, e \in Entries : BeginAppend(c, e)
    \/ Crash \/ Restart

Spec == Init /\ [][Next]_vars

(* Python runs a statement it has reached: a task inside the client goes   *)
(* on.  Nothing obliges a task to call, a statement to succeed, or the     *)
(* process to crash or to be started again.                                *)
Fairness == \A c \in Callers : WF_vars(Step(c))

FairSpec == Spec /\ Fairness

(***************************************************************************)
(* Properties                                                              *)
(***************************************************************************)
(* One type invariant.  Hashes are compared, never inspected: no type.     *)
TypeOK ==
    /\ Ids \subseteq 1..MaxSeq
    /\ rows = [i \in Ids |-> [body |-> rows[i].body, prev |-> rows[i].prev,
                              hash |-> rows[i].hash, by |-> rows[i].by]]
    /\ \A i \in Ids : /\ rows[i].body \in Entries \cup {GenesisEntry}
                      /\ rows[i].by \in 0..MaxCalls
    /\ seq \in 0..MaxSeq
    /\ up \in BOOLEAN
    /\ opened \subseteq Callers
    /\ running \in Callers \cup {NoCaller}
    /\ pc \in [Callers -> {"idle", "lookup", "genesis",
                           "select", "insert", "currval"}]
    /\ arg \in [Callers -> Entries \cup {GenesisEntry}]
    /\ prevHash = [c \in Callers |-> prevHash[c]]
    /\ callNo \in [Callers -> 0..MaxCalls]
    /\ calls \in 0..MaxCalls
    /\ acked \subseteq [call : 0..MaxCalls, id : 1..MaxSeq]

(* The chain is whole whatever fails or crashes in between: the first row  *)
(* is id 1 with a NULL prev_hash, every other row carries the hash of the  *)
(* row before it in id order (across the gaps failed INSERTs leave), and   *)
(* every stored hash is the hash of its row.  It is what verify_chain      *)
(* recomputes; append establishes it with two separate statements.         *)
ChainWhole ==
    \A i \in Ids :
      /\ rows[i].hash = EntryHash(rows[i].prev, rows[i].body)
      /\ IF i = 1 THEN rows[i].prev = NoHash
                  ELSE \E p \in Ids : /\ IsPredecessorIn(rows, p, i)
                                      /\ rows[i].prev = rows[p].hash

(* A returned id names the row that very call inserted, still there after  *)
(* any later failure or restart; append reads the id back with currval, a  *)
(* statement later than the INSERT.                                        *)
AckedIsMine ==
    \A a \in acked : a.id \in Ids /\ rows[a.id].by = a.call

(* A call, raising or returning, inserted at most one row, and rows of     *)
(* later calls have higher ids.                                            *)
RowsInCallOrder ==
    \A i, j \in Ids : i < j => rows[i].by < rows[j].by

(* The RuntimeError "has no genesis" is dead code: a client exists only    *)
(* once genesis does.                                                      *)
AppendFindsGenesis ==
    \A c \in Callers : pc[c] = "select" => 1 \in Ids

(* Rows are added at the end, one at a time, never changed or removed, by  *)
(* no step of any kind, crashes and restarts included.                     *)
AppendOnly ==
    [][rows' # rows =>
         \E id \in (DOMAIN rows') \ Ids :
            /\ DOMAIN rows' = Ids \cup {id}
            /\ \A i \in Ids : i < id /\ rows'[i] = rows[i]]_vars

(* Once an id was used up with no genesis in the table, no constructor     *)
(* succeeds any more until a restart moves the sequence back: the CHECK    *)
(* keeps a late genesis out of id 2.                                       *)
BurnedGenesisStaysOut ==
    [][(Ids = {} /\ seq > 0 /\ up') => DOMAIN rows' = {} /\ opened' = {}]_vars

(* Every construction and every append ends: it returns, raises or dies    *)
(* with the process; none of them holds the loop forever.                  *)
LoopIsReleased == running # NoCaller ~> running = NoCaller

(* The ledger implements the log it promises.                              *)
Abs == INSTANCE AbstractLedger WITH
         log <- [i \in Ids |-> [entry |-> rows[i].body, by |-> rows[i].by]]

ImplementsLog == Abs!Spec
=============================================================================
