---------------------------- MODULE AuditVerify ----------------------------
(***************************************************************************)
(* verifyAuditChain() run beside the transactions of AuditChain, and the   *)
(* changes somebody with the append-only trigger out of the way can make   *)
(* to the trail.  One findMany and the loop over its rows is one action.   *)
(*                                                                         *)
(* A change is kept beside the log, as the rows it took and the rows it    *)
(* put in their place, and only the verifier sees it: writeAudit reads the *)
(* hash of the last row alone, which none of the changes below touches.    *)
(***************************************************************************)
EXTENDS AuditChain

CONSTANTS BatchSize   \* rows per findMany

ASSUME BatchAssumption == BatchSize \in Nat \ {0}

VARIABLES
    verdict,    \* "idle", "running", "ok" or "broken"
    cursor,     \* the last seq that was checked, 0 before
    expected,   \* expectedPrev
    taken,      \* the rows somebody took from the trail, {} or one
    planted     \* the rows put in their place

verifyVars == <<verdict, cursor, expected>>
tamperVars == <<taken, planted>>
allVars == <<vars, verifyVars, tamperVars>>

VerifyInit ==
    /\ Init
    /\ verdict = "idle" /\ cursor = 0 /\ expected = Null
    /\ taken = {} /\ planted = {}

(* The rows as they are stored.                                            *)
Stored == (log \ taken) \union planted
Tampered == taken # {}

\* Mutant: the last row of a batch is read again with the next.
FromCursor == {e \in Stored : e.seq >= cursor}

Unread == {e \in Stored : e.seq > cursor}

(* findMany: where seq > cursor, orderBy seq, take batchSize.              *)
Batch == {e \in Unread : Cardinality({d \in Unread : d.seq < e.seq}) < BatchSize}

IsLast(d, rows) == d \in rows /\ \A e \in rows : e.seq <= d.seq

\* Mutant: only the links are compared.
LinkHolds(e, prev) == e.prevHash = prev

RowHolds(e, prev) == e.prevHash = prev /\ e.hash = Hash(e.prevHash, e.event)

(* The loop at one row: expectedPrev is the hash of the row before it in   *)
(* the batch, or what the last batch left.                                 *)
Passes(e) ==
    LET before == {d \in Batch : d.seq < e.seq}
    IN  IF before = {} THEN RowHolds(e, expected)
        ELSE \E d \in before : IsLast(d, before) /\ RowHolds(e, d.hash)

Start ==
    /\ verdict = "idle"
    /\ verdict' = "running"
    /\ UNCHANGED <<vars, cursor, expected, tamperVars>>

Finished ==
    /\ verdict = "running"
    /\ Unread = {}
    /\ verdict' = "ok"
    /\ UNCHANGED <<vars, cursor, expected, tamperVars>>

\* Mutant: the last hash is forgotten between two batches.
CheckAnew ==
    /\ verdict = "running"
    /\ \A e \in Batch : Passes(e)
    /\ \E e \in Batch : IsLast(e, Batch) /\ cursor' = e.seq
    /\ UNCHANGED <<vars, verdict, expected, tamperVars>>

(* Every row of the batch holds: on to the next.                           *)
Check ==
    /\ verdict = "running"
    /\ \A e \in Batch : Passes(e)
    /\ \E e \in Batch : IsLast(e, Batch) /\ cursor' = e.seq /\ expected' = e.hash
    /\ UNCHANGED <<vars, verdict, tamperVars>>

(* One does not.                                                           *)
Break ==
    /\ verdict = "running"
    /\ \E e \in Batch : ~Passes(e)
    /\ verdict' = "broken"
    /\ UNCHANGED <<vars, cursor, expected, tamperVars>>

-----------------------------------------------------------------------------
(* Changes to the stored rows, one of them and before the verification.    *)

HasSuccessor(e) == \E d \in log : d.seq > e.seq

Tamper(e, replacement) ==
    /\ verdict = "idle" /\ ~Tampered
    /\ taken' = {e} /\ planted' = replacement
    /\ UNCHANGED <<vars, verifyVars>>

Edit(e, event) ==
    /\ event # e.event
    /\ Tamper(e, {[e EXCEPT !.event = event]})

(* With the hash recomputed; of a row something is linked to.              *)
Rewrite(e, event) ==
    /\ event # e.event /\ HasSuccessor(e)
    /\ Tamper(e, {[e EXCEPT !.event = event, !.hash = Hash(e.prevHash, event)]})

Delete(e) == HasSuccessor(e) /\ Tamper(e, {})

VerifyNext ==
    \/ Next /\ UNCHANGED <<verifyVars, tamperVars>>
    \/ Start \/ Check \/ Break \/ Finished
    \/ \E e \in log : Delete(e) \/ \E event \in Events : Edit(e, event) \/ Rewrite(e, event)

(* The transactions go on as in AuditChain; nobody has to run a            *)
(* verification, and none of them waits for it.                            *)
VerifySpec == VerifyInit /\ [][VerifyNext]_allVars /\ \A t \in Txns : WF_vars(Step(t))

-----------------------------------------------------------------------------
(* Properties.                                                             *)

VerifyTypeOK ==
    /\ verdict \in {"idle", "running", "ok", "broken"}
    /\ cursor \in Nat
    /\ expected \in Seq(Events)
    /\ taken \in SUBSET log
    /\ planted \in SUBSET Rows

(* A verification that runs while transactions append and abort, across    *)
(* its batches, never takes their work for a break.                        *)
NoFalseAlarm == verdict = "broken" => Tampered

(* An edited row, and one rewritten or deleted under its successor, is     *)
(* always reported: no later append hides it.                              *)
TamperingReported == verdict = "ok" => ~Tampered

(* The strengthening the proofs rest on.  A later row has a longer history *)
(* behind its hash; where the verifier stands is a stored row, or nowhere. *)
Numbering ==
    /\ IsFiniteSet(log) /\ nextSeq > 0
    /\ \A e \in log \union UNION {pending[t] : t \in Txns} : e.seq > 0

HashesGrow == \A d, e \in log : d.seq < e.seq => Len(d.hash) < Len(e.hash)

CursorTrue ==
    \/ cursor = 0 /\ expected = Null
    \/ verdict # "idle" /\ \E c \in Stored : c.seq = cursor /\ c.hash = expected

(* What somebody put in the place of a row does not hold, or has another   *)
(* hash than the row its successor is linked to.                           *)
Edited == \E e \in planted : e.hash # Hash(e.prevHash, e.event)

TamperShape ==
    /\ ~Tampered => planted = {}
    /\ \A x, y \in taken : x = y
    /\ \A y, z \in planted : y = z
    /\ \A x \in taken : \A y \in planted : y.seq = x.seq
    /\ Tampered /\ ~Edited => \A x \in taken :
          /\ HasSuccessor(x)
          /\ \A y \in planted : y.hash # x.hash

(* The verifier does not get past it.                                      *)
NotPassed ==
    verdict # "broken" => \A x \in taken : cursor <= x.seq /\ (Edited => cursor < x.seq)

VerifyInv ==
    /\ Inv /\ VerifyTypeOK /\ Numbering /\ HashesGrow /\ CursorTrue /\ TamperShape
    /\ NotPassed /\ NoFalseAlarm /\ TamperingReported
=============================================================================
