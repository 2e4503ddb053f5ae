---------------------------- MODULE LedgerProofs ----------------------------
(***************************************************************************)
(* The ledger's safety properties for every number of callers, entries,    *)
(* ids and calls.  The inductive invariant IInv adds to the properties     *)
(* what links a call in progress to the table: it is alone inside the      *)
(* client, its prev_hash is still the tip's hash when it inserts, and its  *)
(* call number is above those of all rows and acknowledgements.            *)
(***************************************************************************)
EXTENDS Ledger, TLAPS

OneInside == \A c \in Callers : pc[c] # "idle" => running = c /\ up

IdsHandedOut == \A i \in Ids : i <= seq

GenesisFirst == /\ Ids # {} => 1 \in Ids
                /\ opened # {} => 1 \in Ids
                /\ \A c \in Callers : pc[c] = "genesis" => 1 \notin Ids

InAppend(c) == pc[c] \in {"select", "insert", "currval"}

CallsAreRecent ==
    /\ \A i \in Ids : rows[i].by <= calls
    /\ \A a \in acked : a.call <= calls
    /\ \A c \in Callers :
         /\ InAppend(c) => /\ 1 \in Ids /\ callNo[c] \in 1..calls
                           /\ \A a \in acked : a.call < callNo[c]
         /\ pc[c] \in {"select", "insert"} =>
              arg[c] \in Entries /\ \A i \in Ids : rows[i].by < callNo[c]

PrevIsTip == \A c \in Callers : pc[c] = "insert" =>
                \E t \in Ids : IsTip(t) /\ prevHash[c] = rows[t].hash

CurrvalIsMine == \A c \in Callers : pc[c] = "currval" =>
                    seq \in Ids /\ rows[seq].by = callNo[c]

IInv == /\ TypeOK /\ OneInside /\ IdsHandedOut /\ GenesisFirst
        /\ ChainWhole /\ RowsInCallOrder /\ AckedIsMine
        /\ CallsAreRecent /\ PrevIsTip /\ CurrvalIsMine

----------------------------------------------------------------------------
(* An INSERT above all ids keeps the chain whole if it carries the hash of *)
(* the row that is the tip at that moment.                                 *)
LEMMA InsertKeepsChain ==
    ASSUME TypeOK, ChainWhole,
           NEW id \in Nat, NEW body, NEW prev, NEW call,
           InsertRow(id, body, prev, call),
           \A i \in Ids : i < id,
           IF id = 1 THEN prev = NoHash
                     ELSE \E t \in Ids : IsTip(t) /\ prev = rows[t].hash
    PROVE  ChainWhole'
<1>0. Ids \subseteq Nat /\ \A i \in Ids : i # id
  BY BoundsAssumption DEF TypeOK
<1>1. /\ DOMAIN rows' = Ids \cup {id}
      /\ rows'[id].hash = EntryHash(rows'[id].prev, rows'[id].body)
      /\ rows'[id].prev = prev
      /\ \A i \in Ids : rows'[i] = rows[i]
  <2>1. /\ DOMAIN rows' = Ids \cup {id}
        /\ rows'[id] = [body |-> body, prev |-> prev,
                        hash |-> EntryHash(prev, body), by |-> call]
        /\ \A i \in Ids : i # id => rows'[i] = rows[i]
    BY DEF InsertRow, Ids
  <2> QED BY <1>0, <2>1
<1>2. Ids \subseteq Nat
  BY <1>0
<1> SUFFICES ASSUME NEW i \in Ids'
             PROVE  (/\ rows[i].hash = EntryHash(rows[i].prev, rows[i].body)
                     /\ IF i = 1 THEN rows[i].prev = NoHash
                        ELSE \E p \in Ids : /\ IsPredecessorIn(rows, p, i)
                                            /\ rows[i].prev = rows[p].hash)'
  BY DEF ChainWhole
<1>3. CASE i = id
  <2>1. CASE id = 1
    BY <1>1, <1>3, <2>1 DEF EntryHash
  <2>2. CASE id # 1
    <3>1. PICK t \in Ids : IsTip(t) /\ prev = rows[t].hash
      BY <2>2
    <3>2. t \in Ids' /\ t < id /\ (\A j \in Ids' : j < id => j <= t)
      BY <3>1, <1>1, <1>2 DEF IsTip, Ids
    <3>3. IsPredecessorIn(rows, t, i)' /\ rows'[i].prev = rows'[t].hash
      BY <3>1, <3>2, <1>1, <1>3 DEF IsPredecessorIn, Ids
    <3> QED BY <3>2, <3>3, <1>1, <1>3, <2>2 DEF EntryHash
  <2> QED BY <2>1, <2>2
<1>4. CASE i \in Ids
  <2>1. CASE i = 1
    BY <1>1, <1>4, <2>1 DEF ChainWhole, EntryHash
  <2>2. CASE i # 1
    <3>1. PICK p \in Ids : IsPredecessorIn(rows, p, i) /\ rows[i].prev = rows[p].hash
      BY <1>4, <2>2 DEF ChainWhole
    <3>2. \A j \in Ids' : j < i => j <= p
      BY <3>1, <1>1, <1>2, <1>4 DEF IsPredecessorIn, Ids
    <3>3. p \in Ids' /\ IsPredecessorIn(rows, p, i)'
      BY <3>1, <3>2, <1>1 DEF IsPredecessorIn, Ids
    <3>4. rows'[i].prev = rows'[p].hash
      BY <3>1, <1>1, <1>4
    <3> QED BY <3>3, <3>4, <1>1, <1>4, <2>2 DEF ChainWhole, EntryHash
  <2> QED BY <2>1, <2>2
<1> QED BY <1>1, <1>3, <1>4 DEF Ids
----------------------------------------------------------------------------
(* The part of IInv that speaks of the table and the acknowledgements only *)
(* survives every step that touches neither.                               *)
LEMMA TableUnchanged ==
    ASSUME IInv, UNCHANGED <<rows, acked>>
    PROVE  (ChainWhole /\ RowsInCallOrder /\ AckedIsMine)'
  BY DEF IInv, ChainWhole, RowsInCallOrder, AckedIsMine, Ids, IsPredecessorIn,
         EntryHash

LEMMA InitIInv == Init => IInv
  BY BoundsAssumption, CallersAssumption
  DEF Init, IInv, TypeOK, OneInside, IdsHandedOut, GenesisFirst, ChainWhole,
      RowsInCallOrder, AckedIsMine, CallsAreRecent, InAppend, PrevIsTip,
      CurrvalIsMine, Ids, GenesisCall

LEMMA OpenClientStep ==
    ASSUME IInv, NEW c \in Callers, OpenClient(c)
    PROVE  IInv'
<1>1. TypeOK'
  BY BoundsAssumption DEF IInv, TypeOK, Ids, OpenClient, Enter, LoopIsFree, locals
<1>2. (OneInside /\ IdsHandedOut /\ GenesisFirst)'
  BY CallersAssumption, BoundsAssumption DEF IInv, TypeOK, OneInside, IdsHandedOut, GenesisFirst, Ids,
     OpenClient, Enter, LoopIsFree, locals
<1>3. (CallsAreRecent /\ PrevIsTip /\ CurrvalIsMine)'
  BY CallersAssumption DEF IInv, TypeOK, OneInside, GenesisFirst, CallsAreRecent, PrevIsTip,
     CurrvalIsMine, InAppend, IsTip, Ids, OpenClient, Enter, LoopIsFree, locals
<1>4. UNCHANGED <<rows, acked>>
  BY DEF OpenClient, locals
<1> QED BY <1>1, <1>2, <1>3, <1>4, TableUnchanged DEF IInv

LEMMA GenesisExistsStep ==
    ASSUME IInv, NEW c \in Callers, GenesisExists(c)
    PROVE  IInv'
<1>1. TypeOK'
  BY BoundsAssumption DEF IInv, TypeOK, Ids, GenesisExists, Leave, locals
<1>2. (OneInside /\ IdsHandedOut /\ GenesisFirst)'
  BY CallersAssumption, BoundsAssumption DEF IInv, TypeOK, OneInside, IdsHandedOut, GenesisFirst, Ids,
     GenesisExists, Leave, locals
<1>3. (CallsAreRecent /\ PrevIsTip /\ CurrvalIsMine)'
  BY CallersAssumption DEF IInv, TypeOK, OneInside, GenesisFirst, CallsAreRecent, PrevIsTip,
     CurrvalIsMine, InAppend, IsTip, Ids, GenesisExists, Leave, locals
<1>4. UNCHANGED <<rows, acked>>
  BY DEF GenesisExists, locals
<1> QED BY <1>1, <1>2, <1>3, <1>4, TableUnchanged DEF IInv

LEMMA GenesisMissingStep ==
    ASSUME IInv, NEW c \in Callers, GenesisMissing(c)
    PROVE  IInv'
<1>1. TypeOK'
  BY BoundsAssumption DEF IInv, TypeOK, Ids, GenesisMissing, Goto, locals
<1>2. (OneInside /\ IdsHandedOut /\ GenesisFirst)'
  BY CallersAssumption, BoundsAssumption DEF IInv, TypeOK, OneInside, IdsHandedOut, GenesisFirst, Ids,
     GenesisMissing, Goto, locals
<1>3. (CallsAreRecent /\ PrevIsTip /\ CurrvalIsMine)'
  BY CallersAssumption DEF IInv, TypeOK, OneInside, GenesisFirst, CallsAreRecent, PrevIsTip,
     CurrvalIsMine, InAppend, IsTip, Ids, GenesisMissing, Goto, locals
<1>4. UNCHANGED <<rows, acked>>
  BY DEF GenesisMissing, locals
<1> QED BY <1>1, <1>2, <1>3, <1>4, TableUnchanged DEF IInv

LEMMA OpenFailsStep ==
    ASSUME IInv, NEW c \in Callers, OpenFails(c)
    PROVE  IInv'
<1>1. TypeOK'
  BY BoundsAssumption DEF IInv, TypeOK, Ids, OpenFails, Raise, Leave, locals
<1>2. (OneInside /\ IdsHandedOut /\ GenesisFirst)'
  BY CallersAssumption, BoundsAssumption DEF IInv, TypeOK, OneInside, IdsHandedOut, GenesisFirst, Ids,
     OpenFails, Raise, Leave, locals
<1>3. (CallsAreRecent /\ PrevIsTip /\ CurrvalIsMine)'
  BY CallersAssumption DEF IInv, TypeOK, OneInside, GenesisFirst, CallsAreRecent, PrevIsTip,
     CurrvalIsMine, InAppend, IsTip, Ids, OpenFails, Raise, Leave, locals
<1>4. UNCHANGED <<rows, acked>>
  BY DEF OpenFails, locals
<1> QED BY <1>1, <1>2, <1>3, <1>4, TableUnchanged DEF IInv

LEMMA SelectTipStep ==
    ASSUME IInv, NEW c \in Callers, SelectTip(c)
    PROVE  IInv'
<1>1. TypeOK'
  <2>1. UNCHANGED <<rows, seq, up, opened, arg, callNo, calls, acked>>
    BY DEF SelectTip, Raise, Goto, locals
  <2>2. /\ running' \in Callers \cup {NoCaller}
        /\ pc' \in [Callers -> {"idle", "lookup", "genesis",
                                "select", "insert", "currval"}]
    BY DEF IInv, TypeOK, SelectTip, Raise, Leave, Goto
  <2>3. prevHash' = [x \in Callers |-> prevHash'[x]]
    BY DEF IInv, TypeOK, SelectTip
  <2> QED BY <2>1, <2>2, <2>3 DEF IInv, TypeOK, Ids
<1>2. (OneInside /\ IdsHandedOut /\ GenesisFirst)'
  BY CallersAssumption, BoundsAssumption DEF IInv, TypeOK, OneInside, IdsHandedOut, GenesisFirst, Ids,
     SelectTip, Raise, Leave, Goto, locals
<1>3. (CallsAreRecent /\ PrevIsTip /\ CurrvalIsMine)'
  <2>1. UNCHANGED <<rows, seq, arg, callNo, calls, acked>>
    BY DEF SelectTip, locals
  <2>2. /\ pc' \in [Callers -> {"idle", "insert"}]
        /\ \A x \in Callers : pc'[x] = "insert" => x = c
    BY DEF IInv, TypeOK, OneInside, SelectTip, Raise, Leave, Goto
  <2>3. (CallsAreRecent /\ CurrvalIsMine)'
    BY <2>1, <2>2 DEF IInv, CallsAreRecent, CurrvalIsMine, InAppend, Ids,
       SelectTip
  <2>4. ASSUME pc'[c] = "insert"
        PROVE  \E t \in Ids : IsTip(t) /\ prevHash'[c] = rows[t].hash
    BY <2>4 DEF IInv, TypeOK, SelectTip, Raise, Leave
  <2>5. PrevIsTip'
    BY <2>1, <2>2, <2>4 DEF PrevIsTip, IsTip, Ids
  <2> QED BY <2>3, <2>5
<1>4. UNCHANGED <<rows, acked>>
  BY DEF SelectTip, locals
<1> QED BY <1>1, <1>2, <1>3, <1>4, TableUnchanged DEF IInv

LEMMA AppendRaisesStep ==
    ASSUME IInv, NEW c \in Callers, AppendRaises(c)
    PROVE  IInv'
<1>1. TypeOK'
  BY BoundsAssumption DEF IInv, TypeOK, Ids, AppendRaises, Raise, Leave, locals
<1>2. (OneInside /\ IdsHandedOut /\ GenesisFirst)'
  BY CallersAssumption, BoundsAssumption DEF IInv, TypeOK, OneInside, IdsHandedOut, GenesisFirst, Ids,
     AppendRaises, Raise, Leave, locals
<1>3. (CallsAreRecent /\ PrevIsTip /\ CurrvalIsMine)'
  BY CallersAssumption DEF IInv, TypeOK, OneInside, GenesisFirst, CallsAreRecent, PrevIsTip,
     CurrvalIsMine, InAppend, IsTip, Ids, AppendRaises, Raise, Leave, locals
<1>4. UNCHANGED <<rows, acked>>
  BY DEF AppendRaises, locals
<1> QED BY <1>1, <1>2, <1>3, <1>4, TableUnchanged DEF IInv

LEMMA BeginAppendStep ==
    ASSUME IInv, NEW c \in Callers, NEW e \in Entries, BeginAppend(c, e)
    PROVE  IInv'
<1>1. TypeOK'
  BY BoundsAssumption DEF IInv, TypeOK, Ids, BeginAppend, Enter
<1>2. (OneInside /\ IdsHandedOut /\ GenesisFirst)'
  BY CallersAssumption DEF IInv, TypeOK, OneInside, IdsHandedOut, GenesisFirst,
     Ids, BeginAppend, Enter, LoopIsFree
<1>3. /\ UNCHANGED <<rows, seq, acked>> /\ calls' = calls + 1
      /\ callNo'[c] = calls + 1 /\ arg'[c] = e /\ 1 \in Ids
      /\ \A x \in Callers : pc'[x] = IF x = c THEN "select" ELSE "idle"
  BY CallersAssumption DEF IInv, TypeOK, OneInside, GenesisFirst, BeginAppend,
     Enter, LoopIsFree
<1>4. CallsAreRecent'
  <2>1. /\ \A i \in Ids : rows[i].by \in 0..calls
        /\ \A a \in acked : a.call \in 0..calls
    BY BoundsAssumption DEF IInv, TypeOK, CallsAreRecent
  <2>2. calls \in Nat
    BY BoundsAssumption DEF IInv, TypeOK
  <2> QED BY <1>3, <2>1, <2>2 DEF CallsAreRecent, InAppend, Ids
<1>5. (PrevIsTip /\ CurrvalIsMine)'
  BY <1>3 DEF PrevIsTip, CurrvalIsMine
<1> QED BY <1>1, <1>2, <1>3, <1>4, <1>5, TableUnchanged DEF IInv

LEMMA InsertGenesisStep ==
    ASSUME IInv, NEW c \in Callers, InsertGenesis(c)
    PROVE  IInv'
<1>1. /\ Ids = {} /\ seq = 0 /\ seq' = 1
      /\ pc[c] = "genesis" /\ UNCHANGED <<up, arg, prevHash, callNo, calls, acked>>
  <2>1. 1 \notin Ids /\ Ids = {}
    BY DEF IInv, GenesisFirst, InsertGenesis
  <2>2. seq + 1 = 1
    BY DEF InsertGenesis, RowAllowed
  <2> QED BY <2>1, <2>2, BoundsAssumption DEF InsertGenesis, locals, IInv, TypeOK
<1>2. rows' = [i \in {1} |-> [body |-> GenesisEntry, prev |-> NoHash,
                             hash |-> EntryHash(NoHash, GenesisEntry),
                             by |-> GenesisCall]]
  BY <1>1 DEF InsertGenesis, InsertRow
<1>3. acked = {}
  BY <1>1 DEF IInv, AckedIsMine, TypeOK
<1>4. TypeOK'
  BY <1>1, <1>2, BoundsAssumption
  DEF IInv, TypeOK, Ids, InsertGenesis, Leave, GenesisCall
<1>5. (OneInside /\ IdsHandedOut /\ GenesisFirst)'
  BY <1>1, <1>2, CallersAssumption
  DEF IInv, TypeOK, OneInside, IdsHandedOut, GenesisFirst, Ids, InsertGenesis, Leave
<1>6. ChainWhole'
  BY <1>2 DEF ChainWhole, Ids, EntryHash
<1>7. (RowsInCallOrder /\ AckedIsMine)'
  BY <1>1, <1>2, <1>3 DEF RowsInCallOrder, AckedIsMine, Ids
<1>8. \A x \in Callers : pc'[x] = "idle"
  BY <1>1, CallersAssumption DEF IInv, TypeOK, OneInside, InsertGenesis, Leave
<1>9. (CallsAreRecent /\ PrevIsTip /\ CurrvalIsMine)'
  BY <1>1, <1>2, <1>3, <1>8, BoundsAssumption
  DEF IInv, TypeOK, CallsAreRecent, PrevIsTip, CurrvalIsMine, InAppend, Ids, GenesisCall
<1> QED BY <1>4, <1>5, <1>6, <1>7, <1>9 DEF IInv

LEMMA InsertEntryStep ==
    ASSUME IInv, NEW c \in Callers, InsertEntry(c)
    PROVE  IInv'
<1>1. /\ seq \in Nat /\ seq < MaxSeq /\ seq' = seq + 1
      /\ pc[c] = "insert" /\ running = c
      /\ 1 \in Ids /\ Ids \subseteq Nat /\ \A i \in Ids : i < seq + 1
      /\ \A i \in Ids : rows[i].by < callNo[c]
      /\ UNCHANGED <<up, opened, running, arg, prevHash, callNo, calls, acked>>
  BY BoundsAssumption DEF IInv, TypeOK, OneInside, CallsAreRecent, InAppend,
     IdsHandedOut, InsertEntry, Goto, locals
<1>2. /\ DOMAIN rows' = Ids \cup {seq + 1}
      /\ rows'[seq + 1] = [body |-> arg[c], prev |-> prevHash[c],
                           hash |-> EntryHash(prevHash[c], arg[c]),
                           by |-> callNo[c]]
      /\ \A i \in Ids : rows'[i] = rows[i]
      /\ rows' = [i \in Ids \cup {seq + 1} |-> rows'[i]]
  BY <1>1 DEF InsertEntry, InsertRow, Ids
<1>3. callNo[c] \in 1..calls /\ arg[c] \in Entries
      /\ \A a \in acked : a.call < callNo[c]
  BY <1>1 DEF IInv, CallsAreRecent, InAppend
<1>4. \A x \in Callers : pc'[x] = IF x = c THEN "currval" ELSE "idle"
  BY <1>1 DEF IInv, TypeOK, OneInside, InsertEntry, Goto
<1>5. TypeOK'
  <2>1. Ids' \subseteq 1..MaxSeq
    BY <1>1, <1>2, BoundsAssumption DEF IInv, TypeOK, Ids
  <2>2. rows' = [i \in Ids' |-> [body |-> rows'[i].body, prev |-> rows'[i].prev,
                                 hash |-> rows'[i].hash, by |-> rows'[i].by]]
    <3>1. \A i \in Ids : rows[i] = [body |-> rows[i].body, prev |-> rows[i].prev,
                                    hash |-> rows[i].hash, by |-> rows[i].by]
      BY DEF IInv, TypeOK
    <3>2. \A i \in Ids' : rows'[i] =
            [body |-> rows'[i].body, prev |-> rows'[i].prev,
             hash |-> rows'[i].hash, by |-> rows'[i].by]
      BY <1>2, <3>1 DEF Ids
    <3> QED BY <1>2, <3>2 DEF Ids
  <2>3. \A i \in Ids' : /\ rows'[i].body \in Entries \cup {GenesisEntry}
                        /\ rows'[i].by \in 0..MaxCalls
    BY <1>2, <1>3, BoundsAssumption DEF IInv, TypeOK, Ids
  <2>4. /\ pc' \in [Callers -> {"idle", "lookup", "genesis",
                                "select", "insert", "currval"}]
        /\ seq' \in 0..MaxSeq
    BY <1>1, BoundsAssumption DEF IInv, TypeOK, InsertEntry, Goto
  <2> QED BY <1>1, <2>1, <2>2, <2>3, <2>4 DEF IInv, TypeOK
<1>6. (OneInside /\ IdsHandedOut /\ GenesisFirst)'
  BY <1>1, <1>2, <1>4 DEF IInv, OneInside, IdsHandedOut, GenesisFirst, Ids
<1>7. ChainWhole'
  <2>1. PICK t \in Ids : IsTip(t) /\ prevHash[c] = rows[t].hash
    BY <1>1 DEF IInv, PrevIsTip
  <2>2. seq + 1 # 1 /\ seq + 1 \in Nat
    BY <1>1
  <2> QED BY <1>1, <2>1, <2>2, InsertKeepsChain DEF IInv, InsertEntry
<1>8. RowsInCallOrder'
  BY <1>1, <1>2 DEF IInv, RowsInCallOrder, Ids
<1>9. AckedIsMine'
  BY <1>1, <1>2 DEF IInv, AckedIsMine, Ids
<1>10. CallsAreRecent'
  BY <1>1, <1>2, <1>3, <1>4, BoundsAssumption
  DEF IInv, TypeOK, CallsAreRecent, InAppend, Ids
<1>11. (PrevIsTip /\ CurrvalIsMine)'
  BY <1>1, <1>2, <1>4 DEF PrevIsTip, CurrvalIsMine, Ids
<1> QED BY <1>5, <1>6, <1>7, <1>8, <1>9, <1>10, <1>11 DEF IInv

LEMMA ReturnIdStep ==
    ASSUME IInv, NEW c \in Callers, ReturnId(c)
    PROVE  IInv'
<1>1. /\ seq \in Ids /\ rows[seq].by = callNo[c]
      /\ callNo[c] \in 1..calls
      /\ UNCHANGED <<rows, seq, up, opened, arg, prevHash, callNo, calls>>
      /\ acked' = acked \cup {[call |-> callNo[c], id |-> seq]}
  BY DEF IInv, CurrvalIsMine, CallsAreRecent, InAppend, ReturnId, Currval, locals
<1>2. \A x \in Callers : pc'[x] = "idle"
  BY CallersAssumption DEF IInv, TypeOK, OneInside, ReturnId, Leave
<1>3. TypeOK'
  BY <1>1, BoundsAssumption DEF IInv, TypeOK, Ids, ReturnId, Leave
<1>4. (OneInside /\ IdsHandedOut /\ GenesisFirst)'
  BY <1>1, <1>2 DEF IInv, OneInside, IdsHandedOut, GenesisFirst, Ids
<1>5. (ChainWhole /\ RowsInCallOrder /\ AckedIsMine)'
  BY <1>1 DEF IInv, ChainWhole, RowsInCallOrder, AckedIsMine, Ids,
     IsPredecessorIn, EntryHash
<1>6. (CallsAreRecent /\ PrevIsTip /\ CurrvalIsMine)'
  BY <1>1, <1>2 DEF IInv, CallsAreRecent, InAppend, PrevIsTip, CurrvalIsMine, Ids
<1> QED BY <1>3, <1>4, <1>5, <1>6 DEF IInv

LEMMA CrashStep ==
    ASSUME IInv, Crash
    PROVE  IInv'
<1>1. UNCHANGED <<rows, arg, prevHash, callNo, calls, acked>>
  BY DEF Crash, locals
<1>2. \A c \in Callers : pc'[c] = "idle"
  BY DEF IInv, TypeOK, OneInside, Crash
<1>3. TypeOK'
  BY <1>1, BoundsAssumption DEF IInv, TypeOK, Ids, Crash
<1>4. (OneInside /\ IdsHandedOut /\ GenesisFirst)'
  BY <1>1, <1>2 DEF IInv, OneInside, IdsHandedOut, GenesisFirst, Ids, Crash
<1>5. (CallsAreRecent /\ PrevIsTip /\ CurrvalIsMine)'
  BY <1>1, <1>2 DEF IInv, CallsAreRecent, InAppend, PrevIsTip, CurrvalIsMine, Ids
<1> QED BY <1>1, <1>3, <1>4, <1>5, TableUnchanged DEF IInv

LEMMA RestartStep ==
    ASSUME IInv, Restart
    PROVE  IInv'
<1>1. UNCHANGED <<rows, arg, prevHash, callNo, calls, acked>>
  BY DEF Restart, locals
<1>2. \A c \in Callers : pc'[c] = "idle"
  BY DEF IInv, TypeOK, OneInside, Restart, SeqOnDisk
<1>3. TypeOK'
  BY <1>1, BoundsAssumption DEF IInv, TypeOK, Ids, Restart, SeqOnDisk
<1>4. (OneInside /\ IdsHandedOut /\ GenesisFirst)'
  BY <1>1, <1>2 DEF IInv, OneInside, IdsHandedOut, GenesisFirst, Ids, Restart, SeqOnDisk
<1>5. (CallsAreRecent /\ PrevIsTip /\ CurrvalIsMine)'
  BY <1>1, <1>2 DEF IInv, CallsAreRecent, InAppend, PrevIsTip, CurrvalIsMine, Ids
<1> QED BY <1>1, <1>3, <1>4, <1>5, TableUnchanged DEF IInv

LEMMA StutterStep ==
    ASSUME IInv, UNCHANGED vars
    PROVE  IInv'
  BY DEF IInv, TypeOK, OneInside, IdsHandedOut, GenesisFirst, ChainWhole,
     RowsInCallOrder, AckedIsMine, CallsAreRecent, InAppend, PrevIsTip,
     CurrvalIsMine, Ids, IsTip, IsPredecessorIn, EntryHash, vars, locals

LEMMA NextIInv == IInv /\ [Next]_vars => IInv'
<1> SUFFICES ASSUME IInv, [Next]_vars PROVE IInv'
  OBVIOUS
<1>1. ASSUME NEW c \in Callers, OpenClient(c) \/ Step(c) PROVE IInv'
  BY <1>1, OpenClientStep, GenesisExistsStep, GenesisMissingStep,
     InsertGenesisStep, OpenFailsStep, SelectTipStep, InsertEntryStep,
     AppendRaisesStep, ReturnIdStep DEF Step
<1>2. ASSUME NEW c \in Callers, NEW e \in Entries, BeginAppend(c, e) PROVE IInv'
  BY <1>2, BeginAppendStep
<1>3. CASE Crash
  BY <1>3, CrashStep
<1>4. CASE Restart
  BY <1>4, RestartStep
<1>5. CASE UNCHANGED vars
  BY <1>5, StutterStep
<1> QED BY <1>1, <1>2, <1>3, <1>4, <1>5 DEF Next

----------------------------------------------------------------------------
(* The inductive invariant holds in every reachable state.                 *)
THEOREM Invariance == Spec => []IInv
  BY InitIInv, NextIInv, PTL DEF Spec

(* Every variable keeps its type: ids stay within the sequence, at most    *)
(* one caller holds the loop.                                              *)
THEOREM TypeCorrect == Spec => []TypeOK
<1>1. IInv => TypeOK
  BY DEF IInv
<1> QED BY <1>1, Invariance, PTL

(* LedgerClient.append never breaks the hash chain, whatever statements    *)
(* fail and wherever the process dies.                                     *)
THEOREM ChainIsWhole == Spec => []ChainWhole
<1>1. IInv => ChainWhole
  BY DEF IInv
<1> QED BY <1>1, Invariance, PTL

(* What append writes, verify_chain accepts: WholeChain is what theorem     *)
(* VerdictExact of VerifyProofs says the verifier decides.                 *)
THEOREM LedgerVerifies == Spec => []WholeChain(rows)
<1>1. IInv => WholeChain(rows)
  <2> SUFFICES ASSUME IInv, NEW i \in Ids
               PROVE  /\ rows[i].hash = EntryHash(rows[i].prev, rows[i].body)
                      /\ IF IsFirstIn(rows, i) THEN rows[i].prev = NoHash
                         ELSE \E p \in Ids : /\ IsPredecessorIn(rows, p, i)
                                             /\ rows[i].prev = rows[p].hash
    BY DEF WholeChain, Ids
  <2>1. 1 \in Ids /\ i \in Nat /\ 1 <= i /\ \A j \in Ids : 1 <= j
    BY BoundsAssumption DEF IInv, TypeOK, GenesisFirst
  <2>2. IsFirstIn(rows, i) <=> i = 1
    BY <2>1 DEF IsFirstIn, Ids
  <2> QED BY <2>2 DEF IInv, ChainWhole
<1> QED BY <1>1, Invariance, PTL

(* The id append returns is that of the row this call inserted, and the    *)
(* row outlives every failure and restart.                                 *)
THEOREM AckedRowsAreMine == Spec => []AckedIsMine
<1>1. IInv => AckedIsMine
  BY DEF IInv
<1> QED BY <1>1, Invariance, PTL

(* A call inserts at most one row, and ids follow the order of the calls.  *)
THEOREM OneRowPerCall == Spec => []RowsInCallOrder
<1>1. IInv => RowsInCallOrder
  BY DEF IInv
<1> QED BY <1>1, Invariance, PTL

(* append's "no genesis" error cannot be raised.                           *)
THEOREM NoGenesisErrorIsDead == Spec => []AppendFindsGenesis
<1>1. IInv => AppendFindsGenesis
  BY DEF IInv, CallsAreRecent, InAppend, AppendFindsGenesis
<1> QED BY <1>1, Invariance, PTL

----------------------------------------------------------------------------
(* The table changes by the two INSERTs only, and grows at its end.        *)
LEMMA TableGrows ==
    ASSUME IInv, [Next]_vars
    PROVE  \/ UNCHANGED <<rows, acked>>
           \/ \E c \in Callers : InsertGenesis(c) \/ InsertEntry(c) \/ ReturnId(c)
  BY DEF Next, Step, vars, locals, OpenClient, GenesisExists, GenesisMissing,
     OpenFails, BeginAppend, SelectTip, AppendRaises, Crash, Restart

LEMMA InsertedAtEnd ==
    ASSUME IInv, NEW c \in Callers, InsertGenesis(c) \/ InsertEntry(c)
    PROVE  /\ DOMAIN rows' = Ids \cup {seq + 1}
           /\ seq + 1 \notin Ids
           /\ \A i \in Ids : i < seq + 1 /\ rows'[i] = rows[i]
<1>1. \A i \in Ids : i < seq + 1 /\ i # seq + 1
  BY BoundsAssumption DEF IInv, TypeOK, IdsHandedOut
<1>2. \E body, prev, call : InsertRow(seq + 1, body, prev, call)
  BY DEF InsertGenesis, InsertEntry
<1> QED BY <1>1, <1>2 DEF InsertRow, Ids

(* Rows are only ever added, one at a time and after all others.           *)
THEOREM TableIsAppendOnly == Spec => AppendOnly
<1>1. ASSUME IInv, [Next]_vars
      PROVE  [rows' # rows =>
                \E id \in (DOMAIN rows') \ Ids :
                  /\ DOMAIN rows' = Ids \cup {id}
                  /\ \A i \in Ids : i < id /\ rows'[i] = rows[i]]_vars
  <2>1. CASE UNCHANGED <<rows, acked>>
    BY <2>1
  <2>2. ASSUME NEW c \in Callers, InsertGenesis(c) \/ InsertEntry(c)
        PROVE  \E id \in (DOMAIN rows') \ Ids :
                  /\ DOMAIN rows' = Ids \cup {id}
                  /\ \A i \in Ids : i < id /\ rows'[i] = rows[i]
    BY <1>1, <2>2, InsertedAtEnd
  <2>3. ASSUME NEW c \in Callers, ReturnId(c) PROVE UNCHANGED rows
    BY <2>3 DEF ReturnId
  <2> QED BY <1>1, <2>1, <2>2, <2>3, TableGrows
<1> QED BY <1>1, Invariance, PTL DEF Spec, AppendOnly

(* A ledger whose first id was lost with a failed genesis INSERT takes no  *)
(* row, and gives no client, until the process is restarted.               *)
THEOREM BurnedGenesis == Spec => BurnedGenesisStaysOut
<1>1. ASSUME IInv, [Next]_vars
      PROVE  [(Ids = {} /\ seq > 0 /\ up') => DOMAIN rows' = {} /\ opened' = {}]_vars
  <2> SUFFICES ASSUME Ids = {}, seq > 0
               PROVE  DOMAIN rows' = {} /\ opened' = {}
    OBVIOUS
  <2>1. opened = {} /\ \A c \in Callers : ~InAppend(c)
    BY <1>1 DEF IInv, GenesisFirst, CallsAreRecent
  <2>2. seq + 1 # 1
    BY <1>1, BoundsAssumption DEF IInv, TypeOK
  <2>3. \A c \in Callers : ~InsertGenesis(c)
    BY <2>2 DEF InsertGenesis, RowAllowed
  <2> QED
    BY <1>1, <2>1, <2>3
    DEF Next, Step, vars, locals, Ids, InAppend, OpenClient, GenesisExists,
        GenesisMissing, OpenFails, Raise, BeginAppend, SelectTip, InsertEntry,
        AppendRaises, ReturnId, Crash, Restart
<1> QED BY <1>1, Invariance, PTL DEF Spec, BurnedGenesisStaysOut

----------------------------------------------------------------------------
AbsLog == [i \in Ids |-> [entry |-> rows[i].body, by |-> rows[i].by]]

(* LedgerClient, with its separate statements, failures and crashes,       *)
(* implements the atomic log: an INSERT maps to Seed or Add, the return to *)
(* Ack, everything else to stuttering.                                     *)
THEOREM LedgerImplementsLog == Spec => ImplementsLog
<1>1. Init => Abs!Init
  BY DEF Init, Abs!Init, Ids
<1>2. ASSUME IInv, IInv', [Next]_vars
      PROVE  [Abs!Next]_(Abs!absVars)
  <2>1. CASE UNCHANGED <<rows, acked>>
    BY <2>1 DEF Abs!absVars, Ids
  <2>2. ASSUME NEW c \in Callers, InsertGenesis(c)
        PROVE  Abs!Seed
    <3>1. Ids = {} /\ seq + 1 = 1 /\ UNCHANGED acked
      BY <1>2, <2>2 DEF IInv, GenesisFirst, InsertGenesis, RowAllowed
    <3>2. rows' = [i \in {1} |-> [body |-> GenesisEntry, prev |-> NoHash,
                                 hash |-> EntryHash(NoHash, GenesisEntry),
                                 by |-> GenesisCall]]
      BY <2>2, <3>1 DEF InsertGenesis, InsertRow
    <3> QED BY <3>1, <3>2 DEF Abs!Seed, Abs!Extend, Ids
  <2>3. ASSUME NEW c \in Callers, InsertEntry(c)
        PROVE  Abs!Add
    <3>1. /\ DOMAIN rows' = Ids \cup {seq + 1} /\ seq + 1 \notin Ids
          /\ \A i \in Ids : i < seq + 1 /\ rows'[i] = rows[i]
      BY <1>2, <2>3, InsertedAtEnd
    <3>2. /\ rows'[seq + 1].body = arg[c] /\ rows'[seq + 1].by = callNo[c]
          /\ UNCHANGED acked
      BY <2>3 DEF InsertEntry, InsertRow
    <3>3. /\ 1 \in Ids /\ arg[c] \in Entries
          /\ \A i \in Ids : rows[i].by < callNo[c]
      BY <1>2, <2>3 DEF IInv, CallsAreRecent, InAppend, InsertEntry
    <3>4. /\ AbsLog'[seq + 1] = [entry |-> arg[c], by |-> callNo[c]]
          /\ DOMAIN AbsLog' = Ids \cup {seq + 1} /\ DOMAIN AbsLog = Ids
          /\ \A i \in Ids : AbsLog'[i] = AbsLog[i] /\ AbsLog[i].by = rows[i].by
      BY <3>1, <3>2 DEF AbsLog, Ids
    <3> QED BY <3>1, <3>2, <3>3, <3>4 DEF Abs!Add, Abs!Extend, AbsLog
  <2>4. ASSUME NEW c \in Callers, ReturnId(c)
        PROVE  Abs!Ack
    <3>1. /\ seq \in Ids /\ rows[seq].by = callNo[c] /\ callNo[c] \in 1..calls
          /\ \A a \in acked : a.call < callNo[c]
          /\ UNCHANGED rows
          /\ acked' = acked \cup {[call |-> callNo[c], id |-> seq]}
      BY <1>2, <2>4 DEF IInv, CurrvalIsMine, CallsAreRecent, InAppend, ReturnId,
         Currval
    <3>2. ASSUME NEW a \in acked PROVE a.id < seq
      <4>1. a.id \in Ids /\ rows[a.id].by = a.call /\ a.call < callNo[c]
        BY <1>2, <3>1 DEF IInv, AckedIsMine
      <4>2. a.id <= seq /\ a.id # seq /\ a.id \in Nat /\ seq \in Nat
        BY <1>2, <3>1, <4>1, BoundsAssumption DEF IInv, TypeOK, IdsHandedOut
      <4> QED BY <4>2
    <3>3. calls \in Nat
      BY <1>2, BoundsAssumption DEF IInv, TypeOK
    <3>4. /\ DOMAIN AbsLog = Ids /\ AbsLog[seq].by = callNo[c] /\ callNo[c] # 0
          /\ UNCHANGED AbsLog
      BY <3>1, <3>3 DEF AbsLog, Ids
    <3> QED BY <3>1, <3>2, <3>4 DEF Abs!Ack, AbsLog, GenesisCall
  <2> QED BY <1>2, <2>1, <2>2, <2>3, <2>4, TableGrows DEF Abs!Next
<1> QED BY <1>1, <1>2, Invariance, PTL DEF Spec, ImplementsLog, Abs!Spec

----------------------------------------------------------------------------
(* The part of LoopIsReleased that is not about fairness.  A number that   *)
(* every step of the caller inside lowers, whether it returns or raises,   *)
(* and that is 0 exactly when the loop is free.                            *)
StatementsLeft(label) ==
    CASE label = "select" -> 3
      [] label \in {"insert", "lookup"} -> 2
      [] label \in {"currval", "genesis"} -> 1
      [] OTHER -> 0

HolderIsInside == running # NoCaller => running \in Callers /\ pc[running] # "idle"

LEMMA LabelsMove ==
    ASSUME TypeOK, NEW c \in Callers, Step(c)
    PROVE  /\ \A d \in Callers : d # c => pc'[d] = pc[d]
           /\ \/ pc[c] = "lookup" /\ pc'[c] = "genesis" /\ UNCHANGED running
              \/ pc[c] = "select" /\ pc'[c] = "insert" /\ UNCHANGED running
              \/ pc[c] = "insert" /\ pc'[c] = "currval" /\ UNCHANGED running
              \/ pc[c] # "idle" /\ pc'[c] = "idle" /\ running' = NoCaller
<1>1. pc[c] # "idle" /\ pc = [d \in Callers |-> pc[d]]
  <2>1. pc[c] # "idle"
    BY DEF Step, GenesisExists, GenesisMissing, InsertGenesis, OpenFails, SelectTip,
       InsertEntry, AppendRaises, ReturnId
  <2> QED BY <2>1 DEF TypeOK
<1>2. \/ pc[c] = "lookup" /\ Goto(c, "genesis")
      \/ pc[c] = "select" /\ Goto(c, "insert")
      \/ pc[c] = "insert" /\ Goto(c, "currval")
      \/ Leave(c)
  BY DEF Step, GenesisExists, GenesisMissing, InsertGenesis, OpenFails, SelectTip,
     InsertEntry, AppendRaises, ReturnId, Raise
<1> QED BY <1>1, <1>2 DEF Goto, Leave

LEMMA HolderInside == Spec => []HolderIsInside
<1>1. Init => HolderIsInside
  BY DEF Init, HolderIsInside
<1>2. ASSUME IInv, HolderIsInside, [Next]_vars PROVE HolderIsInside'
  <2>1. ASSUME NEW c \in Callers, Step(c) PROVE HolderIsInside'
    <3>1. pc[c] # "idle" /\ running = c /\ NoCaller # c
      BY <1>2, <2>1, LabelsMove, CallersAssumption DEF IInv, OneInside
    <3> QED BY <1>2, <2>1, <3>1, LabelsMove DEF HolderIsInside, IInv
  <2>2. ASSUME NEW c \in Callers, NEW l \in {"lookup", "select"}, Enter(c, l)
        PROVE  HolderIsInside'
    BY <1>2, <2>2 DEF HolderIsInside, Enter, IInv, TypeOK
  <2>3. CASE Crash
    BY <2>3 DEF Crash, HolderIsInside
  <2>4. CASE UNCHANGED <<running, pc>>
    BY <1>2, <2>4 DEF HolderIsInside
  <2>5. \/ \E c \in Callers : Step(c)
        \/ \E c \in Callers : \E l \in {"lookup", "select"} : Enter(c, l)
        \/ Crash
        \/ UNCHANGED <<running, pc>>
    BY <1>2 DEF Next, OpenClient, BeginAppend, Restart, vars
  <2> QED BY <2>1, <2>2, <2>3, <2>4, <2>5
<1> QED BY <1>1, <1>2, Invariance, PTL DEF Spec

GetsOut ==
    /\ running # NoCaller => running \in Callers /\ StatementsLeft(pc[running]) > 0
    /\ \A c \in Callers :
         /\ StatementsLeft(pc[c]) \in 0..3 /\ StatementsLeft(pc'[c]) \in 0..3
         /\ StatementsLeft(pc[c]) > 0 => running = c
         /\ Step(c) => StatementsLeft(pc'[c]) < StatementsLeft(pc[c])
         /\ StatementsLeft(pc'[c]) > StatementsLeft(pc[c]) => running = NoCaller /\ running' = c

(* The loop is held by exactly the caller with statements left, each step  *)
(* of it, the raising ones too, leaves fewer, and more come only with the  *)
(* next call, when the loop was free: no call holds it for more than three *)
(* steps.                                                                  *)
THEOREM EveryCallEnds == Spec => [][GetsOut]_vars
<1>1. ASSUME IInv, IInv', HolderIsInside, [Next]_vars PROVE GetsOut
  <2> DEFINE Labels == {"idle", "lookup", "genesis", "select", "insert", "currval"}
  <2>1. /\ \A l \in Labels : StatementsLeft(l) \in 0..3 /\ (StatementsLeft(l) > 0 <=> l # "idle")
        /\ StatementsLeft("idle") = 0 /\ StatementsLeft("lookup") = 2
        /\ StatementsLeft("genesis") = 1 /\ StatementsLeft("select") = 3
        /\ StatementsLeft("insert") = 2 /\ StatementsLeft("currval") = 1
    BY DEF StatementsLeft
  <2>2. \A c \in Callers : pc[c] \in Labels /\ pc'[c] \in Labels
    BY <1>1 DEF IInv, TypeOK
  <2>3. running # NoCaller => running \in Callers /\ StatementsLeft(pc[running]) > 0
    BY <1>1, <2>1, <2>2 DEF HolderIsInside
  <2> SUFFICES ASSUME NEW c \in Callers
               PROVE  /\ StatementsLeft(pc[c]) > 0 => running = c
                      /\ Step(c) => StatementsLeft(pc'[c]) < StatementsLeft(pc[c])
                      /\ StatementsLeft(pc'[c]) > StatementsLeft(pc[c])
                         => running = NoCaller /\ running' = c
    BY <2>1, <2>2, <2>3 DEF GetsOut
  <2>4. StatementsLeft(pc[c]) > 0 => running = c
    BY <1>1, <2>1, <2>2 DEF IInv, OneInside
  <2>5. ASSUME Step(c) PROVE StatementsLeft(pc'[c]) < StatementsLeft(pc[c])
    <3>1. \/ pc[c] = "lookup" /\ pc'[c] = "genesis"
          \/ pc[c] = "select" /\ pc'[c] = "insert"
          \/ pc[c] = "insert" /\ pc'[c] = "currval"
          \/ pc[c] # "idle" /\ pc'[c] = "idle"
      BY <1>1, <2>5, LabelsMove DEF IInv
    <3> QED BY <2>1, <2>2, <3>1
  <2>6. ASSUME NEW d \in Callers, d # c, Step(d) PROVE pc'[c] = pc[c]
    BY <1>1, <2>6, LabelsMove DEF IInv
  <2>7. ASSUME NEW d \in Callers, NEW l \in Labels, Enter(d, l)
        PROVE  pc'[c] = pc[c] \/ (running = NoCaller /\ running' = c)
    BY <1>1, <2>7 DEF Enter, LoopIsFree, IInv, TypeOK
  <2>8. CASE Crash
    <3>1. pc'[c] = "idle"
      BY <2>8 DEF Crash
    <3> QED BY <2>1, <2>2, <2>4, <2>5, <3>1
  <2>9. \/ \E d \in Callers : Step(d)
        \/ \E d \in Callers : \E l \in Labels : Enter(d, l)
        \/ Crash
        \/ UNCHANGED pc
    BY <1>1 DEF Next, OpenClient, BeginAppend, Restart, vars
  <2>10. pc'[c] = pc[c] => ~(StatementsLeft(pc'[c]) > StatementsLeft(pc[c]))
    BY <2>1, <2>2
  <2>11. StatementsLeft(pc'[c]) < StatementsLeft(pc[c])
         => ~(StatementsLeft(pc'[c]) > StatementsLeft(pc[c]))
    BY <2>1, <2>2
  <2> QED BY <2>4, <2>5, <2>6, <2>7, <2>8, <2>9, <2>10, <2>11
<1> QED BY <1>1, Invariance, HolderInside, PTL DEF Spec
=============================================================================
