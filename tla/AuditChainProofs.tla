-------------------------- MODULE AuditChainProofs --------------------------
(***************************************************************************)
(* Proofs about AuditChain for any number of transactions and rows.        *)
(***************************************************************************)
EXTENDS AuditChain, FiniteSetTheorems, WellFoundedInduction, TLAPS

USE DEF lockVars, Null

LEMMA HashType ==
    ASSUME NEW prevHash \in Seq(Events), NEW event \in Events
    PROVE  Hash(prevHash, event) \in Seq(Events)
  BY DEF Hash

LEMMA TypeInit == Init => TypeOK
  BY PlanAssumption DEF Init, TypeOK

LEMMA TypeStep == TypeOK /\ [Next]_vars => TypeOK'
  <1> SUFFICES ASSUME TypeOK, [Next]_vars PROVE TypeOK'
    OBVIOUS
  <1>0. \A t \in Txns : Len(Plan[t]) \in Nat
    BY PlanAssumption
  <1>1. ASSUME NEW t \in Txns, Lock(t) PROVE TypeOK'
    BY <1>0, <1>1 DEF Lock, TypeOK
  <1>2. ASSUME NEW t \in Txns, Write(t) \/ TakeChain(t) PROVE TypeOK'
    BY <1>2 DEF Write, TakeChain, Goto, TypeOK
  <1>3. ASSUME NEW t \in Txns, Read(t) PROVE TypeOK'
    <2>1. \A d \in log : d.hash \in Seq(Events)
      BY DEF TypeOK, Rows
    <2>2. <<>> \in Seq(Events)
      OBVIOUS
    <2>3. \A hash \in {d.hash : d \in log} \union {Null} : hash \in Seq(Events)
      BY <2>1, <2>2
    <2> QED
      BY <1>3, <2>3 DEF Read, Goto, TypeOK
  <1>4. ASSUME NEW t \in Txns, Insert(t) PROVE TypeOK'
    <2>1. \A event \in Events :
             [seq |-> nextSeq, by |-> t, event |-> event,
              prevHash |-> previous[t], hash |-> Hash(previous[t], event)] \in Rows
      BY HashType DEF TypeOK, Rows
    <2> QED
      BY <1>4, <2>1 DEF Insert, Goto, TypeOK
  <1>5. ASSUME NEW t \in Txns, Commit(t) PROVE TypeOK'
    BY <1>0, <1>5 DEF Commit, Release, Goto, TypeOK
  <1>6. ASSUME NEW t \in Txns, Abort(t) PROVE TypeOK'
    BY <1>0, <1>6 DEF Abort, Release, Goto, TypeOK
  <1>7. CASE UNCHANGED vars
    BY <1>7 DEF vars, TypeOK
  <1> QED
    BY <1>1, <1>2, <1>3, <1>4, <1>5, <1>6, <1>7 DEF Next, Step, AbortUnaudited

-----------------------------------------------------------------------------
(* The inductive invariant.                                                *)

LEMMA InvInit == Init => Inv
  BY TypeInit, NobodyAssumption
     DEF Init, Inv, ChainIntact, WritesAudited, HolderOnly, RowsLocked, ReadIsLatest,
         PendingExtends, Numbered, NotYet

(* The one row the chain holder commits extends the chain, and nobody else *)
(* had read the trail.                                                     *)
LEMMA InvCommit ==
    ASSUME Inv, TypeOK', NEW t \in Txns, Commit(t)
    PROVE  Inv'
  <1> USE DEF Inv
  <1>1. /\ pc[t] = "commit" /\ pc' = [pc EXCEPT ![t] = "done"]
        /\ log' = log \union pending[t] /\ pending' = [pending EXCEPT ![t] = {}]
        /\ writes' = IF mutated[t] THEN writes \union {t} ELSE writes
        /\ mutated[t] => pending[t] # {}
        /\ held' = [held EXCEPT ![t] = 0] /\ chain' = (IF chain = t THEN Nobody ELSE chain)
        /\ UNCHANGED <<previous, nextSeq>>
    BY DEF Commit, Release, Goto, RequireAuditRow
  <1>2. WritesAudited'
    BY <1>1 DEF WritesAudited, PendingExtends, TypeOK
  <1>3. HolderOnly'
    BY <1>1, NobodyAssumption DEF HolderOnly, TypeOK
  <1>4. RowsLocked'
    BY <1>1 DEF RowsLocked, TypeOK
  <1>7. NotYet'
    BY <1>1 DEF NotYet, PendingExtends, TypeOK
  <1>5. CASE pending[t] = {}
    <2>1. log' = log /\ pending' = pending
      BY <1>1, <1>5 DEF TypeOK
    <2>2. ChainIntact' /\ PendingExtends' /\ Numbered'
      BY <1>1, <2>1 DEF ChainIntact, LinkedIn, PendingExtends, IsLatest, Numbered
    <2>3. ReadIsLatest'
      BY <1>1, <2>1 DEF ReadIsLatest, IsLatest, TypeOK
    <2> QED
      BY <1>2, <1>3, <1>4, <1>7, <2>2, <2>3
  <1>6. CASE pending[t] # {}
    <2>1. PICK e \in pending[t] : log' = log \union {e}
      BY <1>1, <1>6 DEF PendingExtends
    <2>2. /\ IsLatest(e.prevHash) /\ e.hash = Hash(e.prevHash, e.event)
          /\ e.seq < nextSeq /\ \A d \in log : d.seq < e.seq
      BY <2>1 DEF PendingExtends
    <2>3. e.seq \in Nat /\ \A d \in log : d.seq \in Nat
      BY <2>1 DEF TypeOK, Rows
    <2>4. \A s \in Txns \ {t} : pending[s] = {} /\ pc[s] # "insert"
      BY <1>6 DEF HolderOnly
    <2>5. LinkedIn(e, log')
      BY <2>1, <2>2, <2>3 DEF LinkedIn, IsLatest
    <2>6. \A d \in log : LinkedIn(d, log')
      BY <2>1, <2>2, <2>3 DEF LinkedIn, ChainIntact
    <2>7. ChainIntact'
      <3>1. \A d \in log' : LinkedIn(d, log')
        BY <2>1, <2>5, <2>6
      <3>2. \A d \in log' : d.hash = Hash(d.prevHash, d.event)
        BY <2>1, <2>2 DEF ChainIntact
      <3>3. \A d, f \in log' : d.seq = f.seq => d = f
        BY <2>1, <2>2, <2>3 DEF ChainIntact
      <3> QED
        BY <3>1, <3>2, <3>3 DEF ChainIntact
    <2>8. ReadIsLatest' /\ PendingExtends'
      BY <1>1, <2>4 DEF ReadIsLatest, PendingExtends, TypeOK
    <2>9. Numbered'
      BY <1>1, <2>1, <2>2 DEF Numbered
    <2> QED
      BY <1>2, <1>3, <1>4, <1>7, <2>7, <2>8, <2>9
  <1> QED
    BY <1>5, <1>6

LEMMA InvStep == Inv /\ [Next]_vars => Inv'
  <1> SUFFICES ASSUME Inv, [Next]_vars PROVE Inv'
    OBVIOUS
  <1>0. TypeOK /\ TypeOK'
    BY TypeStep DEF Inv
  <1>1. ASSUME NEW t \in Txns, Lock(t) \/ Write(t) \/ TakeChain(t) PROVE Inv'
    <2>1. /\ UNCHANGED <<previous, pending, log, nextSeq, writes>>
          /\ pc[t] \in {"lock", "chain"} /\ pc'[t] \in {"lock", "chain", "read", "commit"}
          /\ \A s \in Txns \ {t} : pc'[s] = pc[s] /\ held'[s] = held[s]
          /\ pc'[t] # "lock" => held'[t] = Len(Plan[t])
          /\ \/ chain' = chain /\ pc'[t] # "read"
             \/ chain = Nobody /\ chain' = t /\ pc'[t] = "read"
      BY <1>0, <1>1 DEF Lock, Write, TakeChain, Goto, TypeOK, Inv, RowsLocked
    <2>2. ChainIntact' /\ WritesAudited' /\ PendingExtends' /\ Numbered'
      BY <2>1
         DEF Inv, ChainIntact, LinkedIn, WritesAudited, PendingExtends, IsLatest, Numbered
    <2>3. HolderOnly'
      BY <2>1, NobodyAssumption DEF Inv, HolderOnly
    <2>4. RowsLocked' /\ ReadIsLatest'
      BY <2>1 DEF Inv, RowsLocked, ReadIsLatest, IsLatest
    <2>5. NotYet'
      BY <2>1 DEF Inv, NotYet
    <2> QED
      BY <1>0, <2>2, <2>3, <2>4, <2>5 DEF Inv
  <1>2. ASSUME NEW t \in Txns, Read(t) PROVE Inv'
    <2>1. /\ UNCHANGED <<held, chain, pending, log, nextSeq, writes>>
          /\ pc[t] = "read" /\ pc'[t] = "insert" /\ IsLatest(previous'[t])
          /\ \A s \in Txns \ {t} : pc'[s] = pc[s] /\ previous'[s] = previous[s]
      BY <1>0, <1>2 DEF Read, Goto, TypeOK
    <2>2. ChainIntact' /\ WritesAudited' /\ PendingExtends' /\ Numbered'
      BY <2>1
         DEF Inv, ChainIntact, LinkedIn, WritesAudited, PendingExtends, IsLatest, Numbered
    <2>3. HolderOnly' /\ RowsLocked'
      BY <2>1 DEF Inv, HolderOnly, RowsLocked
    <2>4. ReadIsLatest'
      BY <2>1 DEF Inv, ReadIsLatest, IsLatest
    <2>5. NotYet'
      BY <2>1 DEF Inv, NotYet
    <2> QED
      BY <1>0, <2>2, <2>3, <2>4, <2>5 DEF Inv
  <1>3. ASSUME NEW t \in Txns, Insert(t) PROVE Inv'
    <2>1. PICK event \in Events :
             pending' = [pending EXCEPT ![t] =
                {[seq |-> nextSeq, by |-> t, event |-> event,
                  prevHash |-> previous[t], hash |-> Hash(previous[t], event)]}]
      BY <1>3 DEF Insert
    <2>2. /\ UNCHANGED <<held, chain, previous, log, writes>> /\ nextSeq' = nextSeq + 1
          /\ pc[t] = "insert" /\ pc'[t] = "commit"
          /\ \A s \in Txns \ {t} : pc'[s] = pc[s]
      BY <1>0, <1>3 DEF Insert, Goto, TypeOK
    <2>3. IsLatest(previous[t]) /\ chain = t
      BY <2>2 DEF Inv, ReadIsLatest, HolderOnly
    <2>4. nextSeq \in Nat /\ \A d \in log : d.seq \in Nat /\ d.seq < nextSeq
      BY <1>0 DEF TypeOK, Rows, Inv, Numbered
    <2>5. ChainIntact' /\ WritesAudited'
      BY <2>2 DEF Inv, ChainIntact, LinkedIn, WritesAudited
    <2>6. Numbered'
      BY <2>2, <2>4 DEF Numbered
    <2>7. HolderOnly' /\ RowsLocked'
      BY <1>0, <2>1, <2>2, <2>3 DEF Inv, HolderOnly, RowsLocked, TypeOK
    <2>8. ReadIsLatest'
      BY <2>2 DEF Inv, ReadIsLatest, IsLatest
    <2>9. PendingExtends'
      <3>1. \A s \in Txns \ {t} : pending'[s] = {}
        BY <1>0, <2>1, <2>3 DEF Inv, HolderOnly, TypeOK
      <3>2. pending'[t] = {[seq |-> nextSeq, by |-> t, event |-> event,
                            prevHash |-> previous[t], hash |-> Hash(previous[t], event)]}
        BY <1>0, <2>1 DEF TypeOK
      <3> QED
        BY <2>2, <2>3, <2>4, <3>1, <3>2 DEF PendingExtends, IsLatest
    <2>10. NotYet'
      BY <2>2 DEF Inv, NotYet
    <2> QED
      BY <1>0, <2>5, <2>6, <2>7, <2>8, <2>9, <2>10 DEF Inv
  <1>4. ASSUME NEW t \in Txns, Commit(t) PROVE Inv'
    BY <1>0, <1>4, InvCommit
  <1>5. ASSUME NEW t \in Txns, Abort(t) PROVE Inv'
    <2>1. /\ UNCHANGED <<previous, log, nextSeq, writes>>
          /\ pc'[t] = "done" /\ \A s \in Txns \ {t} : pc'[s] = pc[s] /\ held'[s] = held[s]
          /\ pending'[t] = {} /\ \A s \in Txns \ {t} : pending'[s] = pending[s]
          /\ chain' = IF chain = t THEN Nobody ELSE chain
      BY <1>0, <1>5 DEF Abort, Release, Goto, TypeOK
    <2>2. ChainIntact' /\ WritesAudited' /\ Numbered'
      BY <2>1 DEF Inv, ChainIntact, LinkedIn, WritesAudited, Numbered
    <2>3. HolderOnly'
      BY <2>1, NobodyAssumption DEF Inv, HolderOnly
    <2>4. RowsLocked' /\ ReadIsLatest'
      BY <2>1 DEF Inv, RowsLocked, ReadIsLatest, IsLatest
    <2>5. PendingExtends'
      BY <2>1 DEF Inv, PendingExtends, IsLatest
    <2>6. NotYet'
      BY <2>1 DEF Inv, NotYet
    <2> QED
      BY <1>0, <2>2, <2>3, <2>4, <2>5, <2>6 DEF Inv
  <1>6. CASE UNCHANGED vars
    BY <1>0, <1>6
       DEF vars, Inv, ChainIntact, LinkedIn, WritesAudited, HolderOnly, RowsLocked, ReadIsLatest,
           PendingExtends, IsLatest, Numbered, NotYet
  <1> QED
    BY <1>1, <1>2, <1>3, <1>4, <1>5, <1>6 DEF Next, Step, AbortUnaudited

(* The inductive invariant holds for any transactions, plans and events.   *)
THEOREM InvHolds == Spec => []Inv
  BY InvInit, InvStep, PTL DEF Spec

(* The committed rows form one chain, whoever appends and aborts.          *)
THEOREM ChainHolds == Spec => []ChainIntact
  <1>1. Inv => ChainIntact
    BY DEF Inv
  <1> QED
    BY <1>1, InvHolds, PTL

(* No domain write is committed without an audit row of its transaction.   *)
THEOREM AuditedHolds == Spec => []WritesAudited
  <1>1. Inv => WritesAudited
    BY DEF Inv
  <1> QED
    BY <1>1, InvHolds, PTL

(* The chain lock is the last one a transaction takes.                     *)
THEOREM LockOrderHolds == Spec => []ChainHeldLast
  <1>1. Inv => ChainHeldLast
    BY DEF Inv, HolderOnly, RowsLocked, ChainHeldLast, TypeOK
  <1> QED
    BY <1>1, InvHolds, PTL
-----------------------------------------------------------------------------
(* Waiting.                                                                *)

LEMMA NatMin ==
    ASSUME NEW S \in SUBSET Nat, S # {}
    PROVE  \E m \in S : \A n \in S : m <= n
  <1> DEFINE R == {p \in Nat \X Nat : p[1] < p[2]}
  <1>1. IsWellFoundedOn(R, Nat)
    BY NatLessThanWellFounded DEF OpToRel
  <1>2. PICK m \in S : \A n \in S : <<n, m>> \notin R
    BY <1>1, WFMin
  <1>3. ASSUME NEW n \in S PROVE m <= n
    <2>1. <<n, m>> \in Nat \X Nat /\ ~(<<n, m>>[1] < <<n, m>>[2])
      BY <1>2
    <2> QED
      BY <2>1
  <1> QED
    BY <1>3

(* A finite set has an element no other is above, by any natural measure:  *)
(* one with the fewest above it.                                           *)
LEMMA FiniteTop ==
    ASSUME NEW S, IsFiniteSet(S), S # {}, NEW f \in [S -> Nat]
    PROVE  \E t \in S : \A s \in S : f[s] <= f[t]
  <1> DEFINE Above(t) == {s \in S : f[t] < f[s]}
             count == {Cardinality(Above(t)) : t \in S}
  <1>1. \A t \in S : IsFiniteSet(Above(t)) /\ Cardinality(Above(t)) \in Nat
    BY FS_Subset, FS_CardinalityType
  <1>2. count \in SUBSET Nat /\ count # {}
    BY <1>1
  <1> HIDE DEF count
  <1>3. PICK m \in count : \A n \in count : m <= n
    BY <1>2, NatMin
  <1>4. PICK t \in S : \A s \in S : Cardinality(Above(t)) <= Cardinality(Above(s))
    BY <1>3 DEF count
  <1>5. ASSUME NEW s \in S, f[t] < f[s] PROVE FALSE
    <2>1. Above(s) \subseteq Above(t) /\ s \in Above(t) /\ s \notin Above(s)
      BY <1>5
    <2>2. /\ Cardinality(Above(s)) <= Cardinality(Above(t))
          /\ Cardinality(Above(s)) = Cardinality(Above(t)) => Above(s) = Above(t)
      BY <1>1, <2>1, FS_Subset
    <2>3. Cardinality(Above(s)) < Cardinality(Above(t))
      BY <1>1, <2>1, <2>2
    <2> QED
      BY <1>1, <1>4, <2>3
  <1> QED
    BY <1>5

LEMMA ElementOfSeq ==
    ASSUME NEW S, NEW plan \in Seq(S), NEW i \in DOMAIN plan
    PROVE  plan[i] \in S
  OBVIOUS

(* The chain's holder asks for nothing any more; and the row somebody      *)
(* waits for comes before the one its holder waits for.                    *)
LEMMA HolderAsksHigher ==
    ASSUME Inv, NEW t \in Txns, NEW s \in Txns, NEW u \in Txns, Blocks(s, t), Blocks(u, s)
    PROVE  /\ pc[t] = "lock" /\ pc[s] \in {"lock", "chain"}
           /\ pc[s] = "lock" =>
                 /\ held[t] + 1 \in DOMAIN Plan[t] /\ held[s] + 1 \in DOMAIN Plan[s]
                 /\ Rank[Plan[t][held[t] + 1]] < Rank[Plan[s][held[s] + 1]]
  <1>1. pc[s] \in {"lock", "chain"}
    BY DEF Blocks
  <1>2. pc[t] = "lock"
    BY <1>1 DEF Blocks, Inv, HolderOnly
  <1>3. ASSUME pc[s] = "lock"
        PROVE  /\ held[t] + 1 \in DOMAIN Plan[t] /\ held[s] + 1 \in DOMAIN Plan[s]
               /\ Rank[Plan[t][held[t] + 1]] < Rank[Plan[s][held[s] + 1]]
    <2>1. /\ Plan[s] \in Seq(Records) /\ Plan[t] \in Seq(Records)
          /\ held[s] \in Nat /\ held[t] \in Nat
      BY PlanAssumption DEF Inv, TypeOK
    <2>2. held[t] < Len(Plan[t]) /\ held[s] < Len(Plan[s])
      BY <1>2, <1>3 DEF Blocks
    <2>3. PICK i \in 1..held[s] : Plan[s][i] = Plan[t][held[t] + 1]
      BY <1>2 DEF Blocks, Holds
    <2>4. i \in DOMAIN Plan[s] /\ held[s] + 1 \in DOMAIN Plan[s] /\ held[t] + 1 \in DOMAIN Plan[t]
      BY <2>1, <2>2
    <2>5. Rank[Plan[s][i]] < Rank[Plan[s][held[s] + 1]]
      <3>1. \A k, l \in DOMAIN Plan[s] : k < l => Rank[Plan[s][k]] < Rank[Plan[s][l]]
        BY PlanAssumption
      <3>2. i < held[s] + 1
        BY <2>1
      <3> QED
        BY <2>4, <3>1, <3>2
    <2> QED
      BY <2>3, <2>4, <2>5
  <1> QED
    BY <1>1, <1>2, <1>3

(* No set of transactions, however many, wait for one another: the one     *)
(* that asks for the row of the highest rank would wait for one that asks  *)
(* for a higher one.                                                       *)
LEMMA Unblocked ==
    ASSUME Inv PROVE NoDeadlock
  <1> SUFFICES ASSUME NEW S \in (SUBSET Txns) \ {{}},
                      \A t \in S : \E s \in S : Blocks(s, t)
               PROVE  FALSE
    BY Zenon DEF NoDeadlock
  <1> DEFINE asked == [t \in S |-> Rank[Plan[t][held[t] + 1]]]
  <1>1. \A t \in S : pc[t] = "lock"
    BY HolderAsksHigher
  <1>2. \A t \in S : \E s \in S :
           /\ held[t] + 1 \in DOMAIN Plan[t]
           /\ Rank[Plan[t][held[t] + 1]] < Rank[Plan[s][held[s] + 1]]
    BY <1>1, HolderAsksHigher
  <1>3. asked \in [S -> Nat]
    <2>1. ASSUME NEW t \in S PROVE Rank[Plan[t][held[t] + 1]] \in Nat
      <3>1. held[t] + 1 \in DOMAIN Plan[t] /\ Plan[t] \in Seq(Records)
        BY <1>2, PlanAssumption
      <3>2. Plan[t][held[t] + 1] \in Records
        BY <3>1, ElementOfSeq
      <3> QED
        BY <3>2, PlanAssumption
    <2> QED
      BY <2>1
  <1>4. IsFiniteSet(S)
    BY TxnsAssumption, FS_Subset
  <1> HIDE DEF asked
  <1>5. PICK t \in S : \A s \in S : asked[s] <= asked[t]
    BY <1>3, <1>4, FiniteTop
  <1>6. PICK s \in S : Rank[Plan[t][held[t] + 1]] < Rank[Plan[s][held[s] + 1]]
    BY <1>2
  <1>7. asked[t] < asked[s]
    BY <1>6 DEF asked
  <1> QED
    BY <1>3, <1>5, <1>7

(* Row locks in the order of their rank and the chain last: no deadlock.   *)
THEOREM NoDeadlockHolds == Spec => []NoDeadlock
  BY Unblocked, InvHolds, PTL

-----------------------------------------------------------------------------
(* AuditChain implements Trail.                                            *)

(* The latest hash is one, since no two rows share a sequence number.      *)
LEMMA LatestIs ==
    ASSUME Inv, NEW hash, IsLatest(hash)
    PROVE  Latest = hash
  <1> DEFINE hashes == {d.hash : d \in log} \union {Null}
  <1>1. hash \in hashes
    BY DEF IsLatest
  <1>2. ASSUME NEW other \in hashes, IsLatest(other) PROVE other = hash
    <2>1. CASE log = {}
      BY <1>2, <2>1 DEF IsLatest
    <2>2. CASE log # {}
      <3>1. PICK d \in log : hash = d.hash /\ \A e \in log : e.seq <= d.seq
        BY <2>2 DEF IsLatest
      <3>2. PICK f \in log : other = f.hash /\ \A e \in log : e.seq <= f.seq
        BY <1>2, <2>2 DEF IsLatest
      <3>3. d.seq \in Nat /\ f.seq \in Nat
        BY DEF Inv, TypeOK, Rows
      <3>4. d.seq = f.seq
        BY <3>1, <3>2, <3>3
      <3> QED
        BY <3>1, <3>2, <3>4 DEF Inv, ChainIntact
    <2> QED
      BY <2>1, <2>2
  <1> QED
    BY <1>1, <1>2 DEF Latest

LEMMA TrailInit == Init => T!Init
  <1> SUFFICES ASSUME Init PROVE T!Init
    OBVIOUS
  <1>1. Latest = Null
    BY LatestIs, InvInit DEF Init, IsLatest
  <1> QED
    BY <1>1 DEF Init, T!Init, EntryOf

(* A commit with an audit row is where the event enters the history; with  *)
(* none, it commits no write, and nothing happens.                         *)
LEMMA TrailCommit ==
    ASSUME Inv, NEW t \in Txns, Commit(t)
    PROVE  T!Next \/ UNCHANGED T!tvars
  <1>0. TypeOK /\ PendingExtends /\ NotYet
    BY DEF Inv
  <1>1. /\ pc[t] = "commit" /\ log' = log \union pending[t] /\ (mutated[t] => pending[t] # {})
        /\ writes' = IF mutated[t] THEN writes \union {t} ELSE writes
    BY DEF Commit, RequireAuditRow
  <1>2. CASE pending[t] = {}
    <2>1. UNCHANGED <<log, writes>>
      BY <1>0, <1>1, <1>2 DEF TypeOK
    <2> QED
      BY <2>1 DEF T!tvars, Latest, IsLatest, EntryOf
  <1>3. CASE pending[t] # {}
    <2>1. PICK e \in pending[t] : log' = log \union {e}
      BY <1>0, <1>1, <1>3 DEF PendingExtends
    <2>2. /\ IsLatest(e.prevHash) /\ e.hash = Hash(e.prevHash, e.event) /\ e.by = t
          /\ \A d \in log : d.seq < e.seq
          /\ e.seq \in Nat /\ e.event \in Events
      BY <1>0, <2>1 DEF PendingExtends, TypeOK, Rows
    <2>3. \A d \in log : d.seq \in Nat /\ d.by # t
      BY <1>0, <1>1 DEF TypeOK, Rows, NotYet
    <2>4. \A hash : IsLatest(hash)' <=> hash = e.hash
      BY <2>1, <2>2, <2>3 DEF IsLatest
    <2>5. Latest = e.prevHash
      BY <2>2, LatestIs
    <2>6. Latest' = e.hash
      <3>1. e.hash \in {d.hash : d \in log'}
        BY <2>1
      <3> QED
        BY <2>4, <3>1 DEF Latest
    <2>7. EntryOf(t) = {} /\ EntryOf(t)' = {e.hash}
      BY <2>1, <2>2, <2>3 DEF EntryOf
    <2>8. ASSUME NEW s \in Txns \ {t} PROVE EntryOf(s)' = EntryOf(s)
      BY <2>1, <2>2 DEF EntryOf
    <2>9. T!Record(t, e.event)
      BY <1>1, <2>2, <2>5, <2>6, <2>7, <2>8 DEF T!Record, Hash
    <2> QED
      BY <2>2, <2>9 DEF T!Next
  <1> QED
    BY <1>2, <1>3

LEMMA TrailStep == Inv /\ [Next]_vars => [T!Next]_(T!tvars)
  <1> SUFFICES ASSUME Inv, [Next]_vars PROVE T!Next \/ UNCHANGED T!tvars
    OBVIOUS
  <1>1. ASSUME UNCHANGED <<log, writes>> PROVE UNCHANGED T!tvars
    BY <1>1 DEF T!tvars, Latest, IsLatest, EntryOf
  <1>2. ASSUME NEW t \in Txns, Commit(t) PROVE T!Next \/ UNCHANGED T!tvars
    BY <1>2, TrailCommit
  <1>3. ASSUME NEW t \in Txns,
               Lock(t) \/ Write(t) \/ TakeChain(t) \/ Read(t) \/ Insert(t) \/ Abort(t)
        PROVE  UNCHANGED T!tvars
    BY <1>1, <1>3 DEF Lock, Write, TakeChain, Read, Insert, Abort
  <1>4. CASE UNCHANGED vars
    BY <1>1, <1>4 DEF vars
  <1> QED
    BY <1>2, <1>3, <1>4 DEF Next, Step, AbortUnaudited

(* The rows under locks, sequence numbers and hashes implement one history *)
(* that only grows, in which every committed write has its own event.      *)
THEOREM ImplementsTrail == Spec => TrailSpec
  BY InvInit, InvStep, TrailInit, TrailStep, PTL DEF Spec, TrailSpec, T!Spec
=============================================================================
