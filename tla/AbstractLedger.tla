--------------------------- MODULE AbstractLedger ---------------------------
(***************************************************************************)
(* What pre_trade_ledger promises to a caller of LedgerClient.append: a    *)
(* log that only grows, at its end; a call adds at most one record; a call *)
(* that returns an id added the record under that id; calls return in the  *)
(* order of their records.  Ids may have gaps.  No hash, no statement, no  *)
(* crash is visible here.                                                  *)
(***************************************************************************)
EXTENDS Naturals

CONSTANTS Entries,      \* what an append call may be asked to record
          GenesisEntry, \* what the first record holds
          GenesisCall   \* the call number genesis is filed under

VARIABLES log,    \* id -> [entry, by]
          acked   \* {[call, id]}: the calls that returned, and what

absVars == <<log, acked>>

Init == log = <<>> /\ acked = {}

(* One record is added under an id above all others; none is touched.      *)
Extend(id) ==
    /\ DOMAIN log' = DOMAIN log \cup {id}
    /\ \A i \in DOMAIN log : i < id /\ log'[i] = log[i]
    /\ UNCHANGED acked

Seed ==
    /\ DOMAIN log = {} /\ DOMAIN log' = {1}
    /\ Extend(1)
    /\ log'[1] = [entry |-> GenesisEntry, by |-> GenesisCall]

Add ==
    /\ DOMAIN log # {}
    /\ \E id \in (DOMAIN log') \ DOMAIN log :
         /\ Extend(id)
         /\ log'[id].entry \in Entries
         /\ \A i \in DOMAIN log : log[i].by < log'[id].by

Ack == /\ \E id \in DOMAIN log :
            /\ log[id].by # GenesisCall
            /\ \A a \in acked : a.id < id /\ a.call < log[id].by
            /\ acked' = acked \cup {[call |-> log[id].by, id |-> id]}
       /\ UNCHANGED log

Next == Seed \/ Add \/ Ack

Spec == Init /\ [][Next]_absVars
=============================================================================
