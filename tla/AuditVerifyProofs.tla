------------------------- MODULE AuditVerifyProofs -------------------------
(***************************************************************************)
(* Proofs about AuditVerify: a verification beside any transactions, with  *)
(* batches of any size, neither lies nor misses.                           *)
(***************************************************************************)
EXTENDS AuditVerify, AuditChainProofs, FiniteSetTheorems, WellFoundedInduction

LEMMA HashInjective ==
    ASSUME NEW prevHash \in Seq(Events), NEW d \in Events, NEW e \in Events,
           Hash(prevHash, d) = Hash(prevHash, e)
    PROVE  d = e
  <1>1. /\ Hash(prevHash, d)[Len(prevHash) + 1] = d
        /\ Hash(prevHash, e)[Len(prevHash) + 1] = e
    BY DEF Hash
  <1> QED
    BY <1>1

LEMMA VerifyInvInit == VerifyInit => VerifyInv
  <1> SUFFICES ASSUME VerifyInit PROVE VerifyInv
    OBVIOUS
  <1>1. Inv
    BY InvInit DEF VerifyInit
  <1>2. Numbering
    <2>1. log = {} /\ nextSeq = 1 /\ \A t \in Txns : pending[t] = {}
      BY DEF VerifyInit, Init
    <2> QED
      BY <2>1, FS_EmptySet DEF Numbering
  <1>3. <<>> \in Seq(Events)
    OBVIOUS
  <1>4. VerifyTypeOK /\ CursorTrue
    BY <1>3 DEF VerifyInit, Init, VerifyTypeOK, CursorTrue, Null
  <1>5. HashesGrow /\ TamperShape /\ NotPassed /\ NoFalseAlarm /\ TamperingReported
    BY DEF VerifyInit, Init, HashesGrow, TamperShape, NotPassed, NoFalseAlarm,
           TamperingReported, Tampered
  <1> QED
    BY <1>1, <1>2, <1>4, <1>5 DEF VerifyInv

-----------------------------------------------------------------------------
(* The transactions: a commit adds one row at most, behind the last one.   *)

Extends(e) ==
    /\ e \in Rows /\ e.seq > 0 /\ IsLatest(e.prevHash)
    /\ e.hash = Hash(e.prevHash, e.event)
    /\ \A d \in log : d.seq < e.seq

LEMMA LogGrows ==
    ASSUME Inv, Numbering, [Next]_vars
    PROVE  log' = log \/ \E e : log' = log \union {e} /\ Extends(e)
  <1>1. ASSUME NEW t \in Txns, Commit(t)
        PROVE  log' = log \/ \E e : log' = log \union {e} /\ Extends(e)
    <2>1. log' = log \union pending[t]
      BY <1>1 DEF Commit
    <2>2. CASE pending[t] = {}
      BY <2>1, <2>2
    <2>3. CASE pending[t] # {}
      <3>1. PICK e \in pending[t] : pending[t] = {e}
        BY <2>3 DEF Inv, PendingExtends
      <3>2. e \in Rows /\ e.seq > 0
        BY <3>1 DEF Inv, TypeOK, Numbering
      <3>3. Extends(e)
        BY <3>1, <3>2 DEF Inv, PendingExtends, Extends
      <3> QED
        BY <2>1, <3>1, <3>3
    <2> QED
      BY <2>2, <2>3
  <1>2. CASE \A t \in Txns : ~Commit(t)
    BY <1>2 DEF Next, Step, Lock, Write, TakeChain, Read, Insert, AbortUnaudited, Abort, vars
  <1> QED
    BY <1>1, <1>2

LEMMA NumberingStep ==
    ASSUME Inv, Numbering, [Next]_vars
    PROVE  Numbering'
  <1>1. IsFiniteSet(log') /\ \A e \in log' : e.seq > 0
    <2>1. CASE log' = log
      BY <2>1 DEF Numbering
    <2>2. CASE \E e : log' = log \union {e} /\ Extends(e)
      <3>1. PICK e : log' = log \union {e} /\ Extends(e)
        BY <2>2
      <3> QED
        BY <3>1, FS_AddElement DEF Numbering, Extends
    <2> QED
      BY <2>1, <2>2, LogGrows
  <1>2. nextSeq' > 0 /\ \A t \in Txns : \A e \in pending'[t] : e.seq > 0
    <2>0. TypeOK
      BY DEF Inv
    <2>1. ASSUME NEW t \in Txns, Insert(t)
          PROVE  nextSeq' > 0 /\ \A s \in Txns : \A e \in pending'[s] : e.seq > 0
      BY <2>0, <2>1 DEF Insert, TypeOK, Numbering
    <2>2. ASSUME NEW t \in Txns, Commit(t) \/ Abort(t)
          PROVE  nextSeq' > 0 /\ \A s \in Txns : \A e \in pending'[s] : e.seq > 0
      BY <2>0, <2>2 DEF Commit, Abort, TypeOK, Numbering
    <2>3. CASE UNCHANGED <<nextSeq, pending>>
      BY <2>3 DEF Numbering
    <2> QED
      BY <2>1, <2>2, <2>3
         DEF Next, Step, Lock, Write, TakeChain, Read, AbortUnaudited, vars
  <1> QED
    BY <1>1, <1>2 DEF Numbering

LEMMA HashesGrowStep ==
    ASSUME Inv, Numbering, HashesGrow, [Next]_vars
    PROVE  HashesGrow'
  <1>1. CASE log' = log
    BY <1>1 DEF HashesGrow
  <1>2. ASSUME NEW e, log' = log \union {e}, Extends(e) PROVE HashesGrow'
    <2>0. \A d \in log : d \in Rows /\ d.seq \in Nat /\ Len(d.hash) \in Nat
      BY DEF Inv, TypeOK, Rows
    <2>1. e.seq \in Nat /\ Len(e.hash) = Len(e.prevHash) + 1 /\ Len(e.prevHash) \in Nat
      BY <1>2 DEF Extends, Rows, Hash
    <2>2. \A d \in log : Len(d.hash) <= Len(e.prevHash)
      <3>1. CASE log = {}
        BY <3>1
      <3>2. ASSUME NEW f \in log, e.prevHash = f.hash, \A d \in log : d.seq <= f.seq,
                   NEW d \in log
            PROVE  Len(d.hash) <= Len(e.prevHash)
        <4>1. CASE d.seq = f.seq
          BY <2>0, <3>2, <4>1 DEF Inv, ChainIntact
        <4>2. CASE d.seq < f.seq
          BY <2>0, <3>2, <4>2 DEF HashesGrow
        <4> QED
          BY <2>0, <3>2, <4>1, <4>2
      <3> QED
        BY <1>2, <3>1, <3>2 DEF Extends, IsLatest
    <2>3. \A d \in log : d.seq < e.seq
      BY <1>2 DEF Extends
    <2> SUFFICES ASSUME NEW c \in log', NEW d \in log', c.seq < d.seq
                 PROVE  Len(c.hash) < Len(d.hash)
      BY DEF HashesGrow
    <2>4. CASE c \in log /\ d \in log
      BY <2>4 DEF HashesGrow
    <2>5. CASE c \in log /\ d = e
      BY <2>0, <2>1, <2>2, <2>5
    <2>6. CASE c = e
      BY <1>2, <2>0, <2>1, <2>3, <2>6
    <2> QED
      BY <1>2, <2>4, <2>5, <2>6
  <1> QED
    BY <1>1, <1>2, LogGrows

LEMMA TxnStep ==
    ASSUME VerifyInv, Next, UNCHANGED <<verifyVars, tamperVars>>
    PROVE  VerifyInv'
  <1> USE DEF VerifyInv
  <1>1. Inv' /\ Numbering' /\ HashesGrow'
    BY InvStep, NumberingStep, HashesGrowStep
  <1>2. log \subseteq log'
    BY LogGrows
  <1>3. VerifyTypeOK' /\ NoFalseAlarm' /\ TamperingReported'
    BY <1>2 DEF VerifyTypeOK, verifyVars, tamperVars, NoFalseAlarm, TamperingReported, Tampered
  <1>4. CursorTrue'
    BY <1>2 DEF CursorTrue, Stored, verifyVars, tamperVars
  <1>5. TamperShape' /\ NotPassed'
    BY <1>2 DEF TamperShape, NotPassed, Tampered, Edited, HasSuccessor, verifyVars, tamperVars
  <1> QED
    BY <1>1, <1>3, <1>4, <1>5

-----------------------------------------------------------------------------
(* What one batch is: the rows behind the cursor, up to some row.          *)

LEMMA StoredRows ==
    ASSUME VerifyInv
    PROVE  /\ IsFiniteSet(Stored) /\ Stored \subseteq Rows
           /\ \A d, e \in Stored : d.seq = e.seq => d = e
  <1> USE DEF VerifyInv
  <1>1. IsFiniteSet(planted)
    <2>1. CASE planted = {}
      BY <2>1, FS_EmptySet
    <2>2. CASE planted # {}
      <3>1. PICK y \in planted : planted = {y}
        BY <2>2 DEF TamperShape
      <3> QED
        BY <3>1, FS_Singleton
    <2> QED
      BY <2>1, <2>2
  <1>2. IsFiniteSet(log \ taken)
    BY FS_Subset DEF Numbering
  <1>3. IsFiniteSet(Stored)
    BY <1>1, <1>2, FS_Union DEF Stored
  <1>4. Stored \subseteq Rows
    BY DEF Stored, VerifyTypeOK, Inv, TypeOK
  <1>5. ASSUME NEW d \in Stored, NEW e \in Stored, d.seq = e.seq PROVE d = e
    <2>1. \A y \in planted : \E x \in taken : y.seq = x.seq
      BY DEF TamperShape, Tampered
    <2> QED
      BY <1>5, <2>1 DEF Stored, Inv, ChainIntact, TamperShape, VerifyTypeOK
  <1> QED
    BY <1>3, <1>4, <1>5

LEMMA BatchIsPrefix ==
    ASSUME VerifyInv, NEW e \in Batch, NEW d \in Unread, d.seq < e.seq
    PROVE  d \in Batch
  <1> DEFINE Below(f) == {c \in Unread : c.seq < f.seq}
  <1>1. IsFiniteSet(Unread) /\ \A c \in Unread : c.seq \in Nat
    BY StoredRows, FS_Subset DEF Unread, Rows
  <1>2. Below(d) \subseteq Below(e) /\ IsFiniteSet(Below(e))
    BY <1>1, FS_Subset DEF Batch
  <1>3. Cardinality(Below(d)) <= Cardinality(Below(e))
    BY <1>2, FS_Subset
  <1>4. Cardinality(Below(d)) \in Nat /\ Cardinality(Below(e)) \in Nat
    BY <1>2, FS_Subset, FS_CardinalityType
  <1> QED
    BY <1>3, <1>4, BatchAssumption DEF Batch

(* Where the verifier stands there is no other row than the one it saw.    *)
LEMMA AtCursor ==
    ASSUME VerifyInv, NEW c \in Stored, c.seq = cursor
    PROVE  c.hash = expected
  <1>1. c.seq > 0
    BY DEF VerifyInv, Numbering, Stored, TamperShape, Tampered, VerifyTypeOK
  <1> QED
    BY <1>1, StoredRows DEF VerifyInv, CursorTrue

LEMMA RowHashes ==
    ASSUME Inv
    PROVE  \A e \in log :
              /\ e.seq \in Nat /\ e.hash = Hash(e.prevHash, e.event) /\ e.hash # Null
              /\ Len(e.hash) \in Nat
  <1>1. ASSUME NEW e \in log PROVE e.hash = Hash(e.prevHash, e.event) /\ e \in Rows
    BY DEF Inv, ChainIntact, TypeOK
  <1>2. ASSUME NEW e \in log PROVE e.hash # Null
    BY <1>1 DEF Rows, Hash, Null
  <1> QED
    BY <1>1, <1>2 DEF Rows

LEMMA HashesDiffer ==
    ASSUME VerifyInv, NEW d \in log, NEW e \in log, d.hash = e.hash
    PROVE  d = e
  <1>1. d.seq \in Nat /\ e.seq \in Nat /\ Len(d.hash) \in Nat
    BY RowHashes DEF VerifyInv
  <1>2. d.seq = e.seq
    BY <1>1 DEF VerifyInv, HashesGrow
  <1> QED
    BY <1>2 DEF VerifyInv, Inv, ChainIntact

(* Nobody touched the trail: every row of the batch holds.                 *)
LEMMA Untouched ==
    ASSUME VerifyInv, ~Tampered, NEW e \in Batch
    PROVE  Passes(e)
  <1> DEFINE before == {d \in Batch : d.seq < e.seq}
  <1>1. Stored = log
    BY DEF Stored, Tampered, VerifyInv, TamperShape
  <1>2. e \in log /\ e.seq > cursor
    BY <1>1 DEF Batch, Unread
  <1>3. e.hash = Hash(e.prevHash, e.event) /\ LinkedIn(e, log)
    BY <1>2 DEF VerifyInv, Inv, ChainIntact
  <1>4. cursor \in Nat /\ \A d \in log : d.seq \in Nat /\ d.seq > 0
    BY RowHashes DEF VerifyInv, VerifyTypeOK, Numbering
  <1>5. \A d \in log : d.seq > cursor /\ d.seq < e.seq => d \in Batch
    BY <1>1, BatchIsPrefix DEF Unread
  <1>6. CASE before = {}
    <2>1. e.prevHash = expected
      <3>1. CASE e.prevHash = Null /\ \A d \in log : d.seq >= e.seq
        <4>1. \A d \in Stored : d.seq # cursor
          BY <1>1, <1>2, <1>4, <3>1
        <4> QED
          BY <3>1, <4>1 DEF VerifyInv, CursorTrue
      <3>2. ASSUME NEW d \in log, d.seq < e.seq, e.prevHash = d.hash,
                   \A f \in log : f.seq <= d.seq \/ f.seq >= e.seq
            PROVE  e.prevHash = expected
        <4>1. d.seq <= cursor
          BY <1>4, <1>5, <1>6, <3>2
        <4>2. d.seq = cursor
          BY <1>1, <1>2, <1>4, <3>2, <4>1 DEF VerifyInv, CursorTrue
        <4> QED
          BY <1>1, <3>2, <4>2, AtCursor
      <3> QED
        BY <1>3, <3>1, <3>2 DEF LinkedIn
    <2> QED
      BY <1>3, <1>6, <2>1 DEF Passes, RowHolds
  <1>7. CASE before # {}
    <2>1. PICK f \in before : TRUE
      BY <1>7
    <2>2. f \in log /\ f.seq > cursor /\ f.seq < e.seq
      BY <1>1, <2>1 DEF Batch, Unread
    <2>3. PICK d \in log : /\ d.seq < e.seq /\ e.prevHash = d.hash
                           /\ \A g \in log : g.seq <= d.seq \/ g.seq >= e.seq
      BY <1>2, <1>3, <1>4, <2>2 DEF LinkedIn
    <2>4. d \in before
      BY <1>2, <1>4, <1>5, <2>2, <2>3
    <2>5. IsLast(d, before)
      BY <1>1, <1>2, <1>4, <2>3, <2>4 DEF IsLast, Batch, Unread
    <2> QED
      BY <1>3, <1>7, <2>3, <2>4, <2>5 DEF Passes, RowHolds
  <1> QED
    BY <1>6, <1>7

(* Somebody did: the batch does not go past it.                            *)
LEMMA Stuck ==
    ASSUME VerifyInv, verdict = "running", NEW x \in taken,
           \A e \in Batch : Passes(e), NEW c \in Batch
    PROVE  c.seq <= x.seq /\ (Edited => c.seq < x.seq)
  <1> USE DEF VerifyInv
  <1>1. /\ cursor \in Nat /\ x \in log /\ x.seq \in Nat /\ taken = {x}
        /\ \A d \in Stored : d.seq \in Nat
        /\ \A d \in log : d.seq \in Nat
    BY StoredRows, RowHashes DEF VerifyTypeOK, TamperShape, Rows
  <1>2. cursor <= x.seq /\ (Edited => cursor < x.seq)
    BY DEF NotPassed
  <1>3. c \in Stored /\ c.seq > cursor
    BY DEF Batch, Unread
  <1>4. CASE Edited
    <2>1. PICK y \in planted : y.hash # Hash(y.prevHash, y.event)
      BY <1>4 DEF Edited
    <2>2. y \in Stored /\ y.seq = x.seq
      BY <2>1 DEF Stored, TamperShape
    <2>3. ~Passes(y)
      BY <2>1 DEF Passes, RowHolds
    <2>4. y \notin Batch
      BY <2>3
    <2>5. y \in Unread
      BY <1>1, <1>2, <1>4, <2>2 DEF Unread
    <2>6. ~(x.seq < c.seq)
      BY <2>2, <2>4, <2>5, BatchIsPrefix
    <2>7. x.seq # c.seq
      BY <1>3, <2>2, <2>4, StoredRows
    <2> QED
      BY <1>1, <1>3, <2>6, <2>7
  <1>5. CASE ~Edited
    <2> SUFFICES ASSUME x.seq < c.seq PROVE FALSE
      BY <1>1, <1>3, <1>5
    <2>1. \A y \in planted : y.seq = x.seq /\ y.hash # x.hash
      BY <1>5 DEF TamperShape, Tampered
    <2>2. c \in log
      BY <1>1, <1>3, <2>1 DEF Stored
    <2>3. PICK s \in log : s.seq > x.seq /\ \A d \in log : d.seq > x.seq => s.seq <= d.seq
      <3> DEFINE S == {d.seq : d \in {d \in log : d.seq > x.seq}}
      <3>1. S \in SUBSET Nat /\ S # {}
        BY <1>1, <2>2
      <3>2. PICK m \in S : \A n \in S : m <= n
        BY <3>1, NatMin
      <3> QED
        BY <3>2
    <2>4. s \in Stored /\ s \in Unread /\ s.seq <= c.seq
      BY <1>1, <1>2, <2>2, <2>3 DEF Stored, Unread
    <2>5. s \in Batch
      <3>1. CASE s.seq = c.seq
        BY <1>3, <2>4, <3>1, StoredRows
      <3>2. CASE s.seq < c.seq
        BY <2>4, <3>2, BatchIsPrefix
      <3> QED
        BY <1>1, <1>3, <2>4, <3>1, <3>2
    <2>6. s.prevHash = x.hash
      <3>1. LinkedIn(s, log)
        BY DEF Inv, ChainIntact
      <3>2. PICK d \in log : /\ d.seq < s.seq /\ s.prevHash = d.hash
                             /\ \A f \in log : f.seq <= d.seq \/ f.seq >= s.seq
        BY <1>1, <2>3, <3>1 DEF LinkedIn
      <3>3. d.seq = x.seq
        BY <1>1, <2>3, <3>2
      <3> QED
        BY <1>1, <3>2, <3>3 DEF Inv, ChainIntact
    <2>7. \A d \in Stored : d.hash # x.hash
      BY <1>1, <2>1, HashesDiffer DEF Stored
    <2> DEFINE before == {d \in Batch : d.seq < s.seq}
    <2>8. CASE before = {}
      <3>1. expected = x.hash
        BY <2>5, <2>6, <2>8 DEF Passes, RowHolds
      <3> QED
        BY <1>1, <2>7, <3>1, RowHashes DEF CursorTrue
    <2>9. CASE before # {}
      <3>1. PICK d \in before : s.prevHash = d.hash
        BY <2>5, <2>9 DEF Passes, RowHolds
      <3>2. d \in Stored
        BY DEF Batch, Unread
      <3> QED
        BY <2>6, <2>7, <3>1, <3>2
    <2> QED
      BY <2>8, <2>9
  <1> QED
    BY <1>4, <1>5

-----------------------------------------------------------------------------
(* The verifier's steps, and the changes.                                  *)

LEMMA CheckStep ==
    ASSUME VerifyInv, Check
    PROVE  VerifyInv'
  <1> USE DEF VerifyInv
  <1>1. /\ UNCHANGED <<vars, verdict, taken, planted>> /\ verdict = "running"
        /\ \A e \in Batch : Passes(e)
    BY DEF Check, tamperVars
  <1>2. PICK c \in Batch : cursor' = c.seq /\ expected' = c.hash
    BY DEF Check
  <1>3. c \in Stored /\ c \in Rows
    BY StoredRows DEF Batch, Unread
  <1>4. Stored' = Stored
    BY <1>1 DEF Stored, vars
  <1>5. Inv' /\ Numbering' /\ HashesGrow'
    BY <1>1, InvStep, NumberingStep, HashesGrowStep
  <1>6. VerifyTypeOK'
    BY <1>1, <1>2, <1>3 DEF VerifyTypeOK, vars, Rows
  <1>7. CursorTrue'
    BY <1>1, <1>2, <1>3, <1>4 DEF CursorTrue
  <1>8. TamperShape' /\ NoFalseAlarm' /\ TamperingReported'
    BY <1>1 DEF TamperShape, NoFalseAlarm, TamperingReported, Tampered, Edited,
                HasSuccessor, vars
  <1>9. NotPassed'
    BY <1>1, <1>2, Stuck DEF NotPassed, Edited
  <1> QED
    BY <1>5, <1>6, <1>7, <1>8, <1>9

LEMMA VerdictStep ==
    ASSUME VerifyInv, Start \/ Break \/ Finished
    PROVE  VerifyInv'
  <1> USE DEF VerifyInv
  <1>1. /\ UNCHANGED <<vars, cursor, expected, taken, planted>>
        /\ verdict' \in {"running", "broken", "ok"}
        /\ verdict # "broken"
    BY DEF Start, Break, Finished, tamperVars
  <1>2. Inv' /\ Numbering' /\ HashesGrow'
    BY <1>1, InvStep, NumberingStep, HashesGrowStep
  <1>3. VerifyTypeOK' /\ CursorTrue' /\ TamperShape' /\ NotPassed'
    BY <1>1 DEF VerifyTypeOK, CursorTrue, Stored, TamperShape, Tampered, Edited,
                HasSuccessor, NotPassed, vars
  <1>4. NoFalseAlarm'
    BY <1>1, Untouched DEF NoFalseAlarm, Start, Break, Finished, Tampered
  <1>5. TamperingReported'
    <2>1. CASE Finished /\ Tampered
      <3>1. Unread = {} /\ verdict = "running"
        BY <2>1 DEF Finished
      <3>2. PICK x \in taken : TRUE
        BY <2>1 DEF Tampered
      <3>3. /\ cursor \in Nat /\ x.seq \in Nat
            /\ cursor <= x.seq /\ (Edited => cursor < x.seq)
        BY <3>1, RowHashes DEF NotPassed, VerifyTypeOK
      <3>4. CASE Edited
        <4>1. PICK y \in planted : y.seq = x.seq
          BY <3>4 DEF Edited, TamperShape
        <4> QED
          BY <3>1, <3>3, <3>4, <4>1 DEF Unread, Stored
      <3>5. CASE ~Edited
        <4>1. PICK d \in log : d.seq > x.seq
          BY <2>1, <3>5 DEF TamperShape, HasSuccessor
        <4>2. d.seq \in Nat /\ d \in Stored
          BY <3>3, <4>1, RowHashes DEF Stored, TamperShape
        <4> QED
          BY <3>1, <3>3, <4>1, <4>2 DEF Unread
      <3> QED
        BY <3>4, <3>5
    <2>2. CASE ~(Finished /\ Tampered)
      BY <1>1, <2>2 DEF TamperingReported, Tampered, Start, Break
    <2> QED
      BY <2>1, <2>2
  <1> QED
    BY <1>2, <1>3, <1>4, <1>5

LEMMA TamperStep ==
    ASSUME VerifyInv, NEW e \in log,
           Delete(e) \/ \E event \in Events : Edit(e, event) \/ Rewrite(e, event)
    PROVE  VerifyInv'
  <1> USE DEF VerifyInv
  <1>1. /\ verdict = "idle" /\ taken' = {e} /\ UNCHANGED <<vars, verdict, cursor, expected>>
    BY DEF Delete, Edit, Rewrite, Tamper, verifyVars
  <1>2. e \in Rows /\ e.seq > 0 /\ e.hash = Hash(e.prevHash, e.event)
    BY DEF Inv, TypeOK, ChainIntact, Numbering
  <1>3. \/ planted' = {} /\ HasSuccessor(e)
        \/ \E y \in Rows : /\ planted' = {y} /\ y.seq = e.seq
                           /\ \/ y.hash # Hash(y.prevHash, y.event)
                              \/ /\ HasSuccessor(e) /\ y.hash # e.hash
                                 /\ y.hash = Hash(y.prevHash, y.event)
    <2>1. CASE Delete(e)
      BY <2>1 DEF Delete, Tamper
    <2>2. ASSUME NEW event \in Events, Edit(e, event) \/ Rewrite(e, event)
          PROVE  \E y \in Rows : /\ planted' = {y} /\ y.seq = e.seq
                           /\ \/ y.hash # Hash(y.prevHash, y.event)
                              \/ /\ HasSuccessor(e) /\ y.hash # e.hash
                                 /\ y.hash = Hash(y.prevHash, y.event)
      <3>1. event # e.event /\ e.event \in Events /\ e.prevHash \in Seq(Events)
        BY <1>2, <2>2 DEF Edit, Rewrite, Rows
      <3>2. Hash(e.prevHash, event) # Hash(e.prevHash, e.event)
        BY <3>1, HashInjective
      <3>3. CASE Edit(e, event)
        <4> DEFINE y == [e EXCEPT !.event = event]
        <4>1. y \in Rows /\ y.seq = e.seq /\ y.hash = e.hash /\ y.prevHash = e.prevHash
              /\ y.event = event
          BY <1>2 DEF Rows
        <4>2. planted' = {y}
          BY <3>3 DEF Edit, Tamper
        <4> HIDE DEF y
        <4> QED
          BY <1>2, <3>2, <4>1, <4>2
      <3>4. CASE Rewrite(e, event)
        <4> DEFINE h == Hash(e.prevHash, event)
                   y == [e EXCEPT !.event = event, !.hash = h]
        <4>0. h \in Seq(Events)
          BY <3>1, HashType
        <4>1. y \in Rows /\ y.seq = e.seq /\ y.hash = h /\ y.prevHash = e.prevHash
              /\ y.event = event
          BY <1>2, <4>0 DEF Rows
        <4>2. planted' = {y} /\ HasSuccessor(e)
          BY <3>4 DEF Rewrite, Tamper
        <4> HIDE DEF y
        <4> QED
          BY <1>2, <3>2, <4>1, <4>2
      <3> QED
        BY <2>2, <3>3, <3>4
    <2> QED
      BY <2>1, <2>2
  <1>4. Inv' /\ Numbering' /\ HashesGrow'
    BY <1>1, InvStep, NumberingStep, HashesGrowStep
  <1>5. VerifyTypeOK' /\ NoFalseAlarm' /\ TamperingReported'
    BY <1>1, <1>3 DEF VerifyTypeOK, NoFalseAlarm, TamperingReported, Tampered, vars
  <1>6. cursor = 0 /\ CursorTrue'
    BY <1>1 DEF CursorTrue
  <1>7. TamperShape'
    BY <1>1, <1>3 DEF TamperShape, Tampered, Edited, HasSuccessor, vars
  <1>8. NotPassed'
    BY <1>1, <1>2, <1>6 DEF NotPassed, Rows
  <1> QED
    BY <1>4, <1>5, <1>6, <1>7, <1>8

LEMMA VerifyInvStep == VerifyInv /\ [VerifyNext]_allVars => VerifyInv'
  <1> SUFFICES ASSUME VerifyInv, [VerifyNext]_allVars PROVE VerifyInv'
    OBVIOUS
  <1>1. CASE UNCHANGED allVars
    <2>1. Inv' /\ Numbering' /\ HashesGrow'
      BY <1>1, InvStep, NumberingStep, HashesGrowStep DEF allVars, VerifyInv
    <2>2. VerifyTypeOK' /\ CursorTrue' /\ TamperShape' /\ NotPassed' /\ NoFalseAlarm'
          /\ TamperingReported'
      BY <1>1 DEF allVars, vars, verifyVars, tamperVars, VerifyInv, VerifyTypeOK, CursorTrue,
                  Stored, TamperShape, Tampered, Edited, HasSuccessor, NotPassed,
                  NoFalseAlarm, TamperingReported
    <2> QED
      BY <2>1, <2>2 DEF VerifyInv
  <1> QED
    BY <1>1, TxnStep, CheckStep, VerdictStep, TamperStep DEF VerifyNext

(* The inductive invariant of a verification beside any transactions.      *)
THEOREM VerifyInvHolds == VerifySpec => []VerifyInv
  BY VerifyInvInit, VerifyInvStep, PTL DEF VerifySpec

(* Transactions that append and abort are never taken for a break.         *)
THEOREM NoFalseAlarmHolds == VerifySpec => []NoFalseAlarm
  <1>1. VerifyInv => NoFalseAlarm
    BY DEF VerifyInv
  <1> QED
    BY <1>1, VerifyInvHolds, PTL

(* A changed row is always reported, whatever is appended behind it.       *)
THEOREM TamperingReportedHolds == VerifySpec => []TamperingReported
  <1>1. VerifyInv => TamperingReported
    BY DEF VerifyInv
  <1> QED
    BY <1>1, VerifyInvHolds, PTL

-----------------------------------------------------------------------------

(* To the transactions a verification, and a change somebody makes behind  *)
(* the verifier's back, are nothing: what holds of AuditChain holds here.  *)
LEMMA TransactionsUnaffected == VerifySpec => Spec
  <1>1. VerifyInit => Init
    BY DEF VerifyInit
  <1>2. [VerifyNext]_allVars => [Next]_vars
    BY DEF VerifyNext, Start, Check, Break, Finished, Delete, Edit, Rewrite, Tamper, allVars
  <1> QED
    BY <1>1, <1>2, PTL DEF VerifySpec, Spec

(* The trail grows at its end only, and nobody waits in a circle, with a   *)
(* verification running and rows being changed beside.                     *)
THEOREM TrailBesideVerifier == VerifySpec => TrailSpec /\ []NoDeadlock
  BY TransactionsUnaffected, ImplementsTrail, NoDeadlockHolds, PTL
=============================================================================
