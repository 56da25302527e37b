----------------------------- MODULE AuditChain -----------------------------
(***************************************************************************)
(* The audit trail as transactions write it: writeAudit() under the chain  *)
(* lock, the domain row locks taken before it, the sequence that numbers   *)
(* the rows, and the deferred trigger that refuses a domain write without  *)
(* an audit row.  One statement of a transaction is one action; what a     *)
(* transaction wrote is seen by the others when it commits.                *)
(*                                                                         *)
(* The hash is collision-free here: the hash of an event is the list of    *)
(* all the events up to it, and null is the empty list.                    *)
(***************************************************************************)
EXTENDS Naturals, Sequences, FiniteSets

CONSTANTS
    Txns,      \* the transactions
    Records,   \* domain records (refunds, cases, flag configs, payments)
    Plan,      \* [Txns -> Seq(Records)]: the rows a transaction locks, in
               \* order: <<>> for a denial or a read, <<payment>> for a
               \* create, <<refund, payment>> for a submit
    Rank,      \* [Records -> Nat]: the order the code locks tables in
    Events,    \* what an event may say
    Nobody     \* not a transaction

ASSUME NobodyAssumption == Nobody \notin Txns
ASSUME TxnsAssumption == IsFiniteSet(Txns)   \* a pool of connections
ASSUME PlanAssumption ==
    /\ Plan \in [Txns -> Seq(Records)]
    /\ Rank \in [Records -> Nat]
    /\ \A t \in Txns : \A i, j \in DOMAIN Plan[t] : i < j => Rank[Plan[t][i]] < Rank[Plan[t][j]]

Null == <<>>
Hash(prevHash, event) == Append(prevHash, event)

Rows == [seq : Nat, by : Txns, event : Events, prevHash : Seq(Events), hash : Seq(Events)]

VARIABLES
    pc,         \* per transaction: its next statement
    held,       \* per transaction: how many rows of its plan it has locked
    mutated,    \* per transaction: whether it wrote the first of these rows
    chain,      \* who holds the advisory lock CHAIN_LOCK
    previous,   \* per transaction: the hash it read
    pending,    \* per transaction: its uncommitted audit rows, {} or one
    log,        \* the committed rows of audit_events
    nextSeq,    \* the sequence behind audit_events.seq; never rolled back
    writes      \* the transactions whose domain write was committed

lockVars == <<held, chain>>
vars == <<pc, lockVars, mutated, previous, pending, log, nextSeq, writes>>

Init ==
    /\ pc = [t \in Txns |-> "lock"]
    /\ held = [t \in Txns |-> 0]
    /\ mutated = [t \in Txns |-> FALSE]
    /\ chain = Nobody
    /\ previous = [t \in Txns |-> Null]
    /\ pending = [t \in Txns |-> {}]
    /\ log = {}
    /\ nextSeq = 1
    /\ writes = {}

Goto(t, next) == pc' = [pc EXCEPT ![t] = next]

Holds(t, r) == \E i \in 1..held[t] : Plan[t][i] = r
Free(r) == \A t \in Txns : ~Holds(t, r)

(* SELECT ... FOR UPDATE: lockAndLoad, then lockRow in the guard.          *)
Lock(t) ==
    /\ pc[t] = "lock"
    /\ held[t] < Len(Plan[t])
    /\ Free(Plan[t][held[t] + 1])
    /\ held' = [held EXCEPT ![t] = @ + 1]
    /\ UNCHANGED <<pc, mutated, chain, previous, pending, log, nextSeq, writes>>

(* The domain write, if there is one; code outside the transition layer    *)
(* would go on to commit without an audit row.                             *)
Write(t) ==
    /\ pc[t] = "lock"
    /\ held[t] = Len(Plan[t])
    /\ mutated' = [mutated EXCEPT ![t] = Plan[t] # <<>>]
    /\ \E next \in {"chain", "commit"} : Goto(t, next)
    /\ UNCHANGED <<lockVars, previous, pending, log, nextSeq, writes>>

-----------------------------------------------------------------------------
(* writeAudit.                                                             *)

\* Mutants: no lock is taken; the lock is taken before the rows are.
NoChainLock(t) ==
    /\ pc[t] = "chain"
    /\ chain' = t
    /\ Goto(t, "read")
    /\ UNCHANGED <<held, mutated, previous, pending, log, nextSeq, writes>>

TakeChainEarly(t) ==
    /\ pc[t] \in {"lock", "chain"}
    /\ chain \in {Nobody, t}
    /\ chain' = t
    /\ IF pc[t] = "chain" THEN Goto(t, "read") ELSE UNCHANGED pc
    /\ UNCHANGED <<held, mutated, previous, pending, log, nextSeq, writes>>

(* pg_advisory_xact_lock                                                   *)
TakeChain(t) ==
    /\ pc[t] = "chain"
    /\ chain = Nobody
    /\ chain' = t
    /\ Goto(t, "read")
    /\ UNCHANGED <<held, mutated, previous, pending, log, nextSeq, writes>>

(* hash is that of the row of log with the greatest seq, null without one. *)
IsLatest(hash) ==
    \/ log = {} /\ hash = Null
    \/ \E d \in log : hash = d.hash /\ \A e \in log : e.seq <= d.seq

Read(t) ==
    /\ pc[t] = "read"
    /\ \E hash \in {d.hash : d \in log} \union {Null} :
          IsLatest(hash) /\ previous' = [previous EXCEPT ![t] = hash]
    /\ Goto(t, "insert")
    /\ UNCHANGED <<lockVars, mutated, pending, log, nextSeq, writes>>

Insert(t) ==
    /\ pc[t] = "insert"
    /\ \E event \in Events :
          pending' = [pending EXCEPT ![t] =
              {[seq |-> nextSeq, by |-> t, event |-> event,
                prevHash |-> previous[t], hash |-> Hash(previous[t], event)]}]
    /\ nextSeq' = nextSeq + 1
    /\ Goto(t, "commit")
    /\ UNCHANGED <<lockVars, mutated, previous, log, writes>>

-----------------------------------------------------------------------------
(* The end of a transaction releases every lock it has.                    *)

Release(t) ==
    /\ held' = [held EXCEPT ![t] = 0]
    /\ chain' = IF chain = t THEN Nobody ELSE chain

\* Mutant: the trigger is not there.
NoTrigger(t) == TRUE

(* substrate_require_audit_row, deferred to the commit                     *)
RequireAuditRow(t) == mutated[t] => pending[t] # {}

Commit(t) ==
    /\ pc[t] = "commit"
    /\ RequireAuditRow(t)
    /\ log' = log \union pending[t]
    /\ pending' = [pending EXCEPT ![t] = {}]
    /\ writes' = IF mutated[t] THEN writes \union {t} ELSE writes
    /\ Release(t)
    /\ Goto(t, "done")
    /\ UNCHANGED <<mutated, previous, nextSeq>>

(* The trigger raises, a guard refuses, a timeout or a lost connection.    *)
Abort(t) ==
    /\ pc[t] # "done"
    /\ pending' = [pending EXCEPT ![t] = {}]
    /\ Release(t)
    /\ Goto(t, "done")
    /\ UNCHANGED <<mutated, previous, log, nextSeq, writes>>

AbortUnaudited(t) == pc[t] = "commit" /\ ~RequireAuditRow(t) /\ Abort(t)

Step(t) ==
    \/ Lock(t) \/ Write(t) \/ TakeChain(t) \/ Read(t) \/ Insert(t) \/ Commit(t)
    \/ AbortUnaudited(t)

Next == \E t \in Txns : Step(t) \/ Abort(t)

Spec == Init /\ [][Next]_vars

(* A transaction whose statement is not waiting for a lock goes on.        *)
FairSpec == Spec /\ \A t \in Txns : WF_vars(Step(t))

-----------------------------------------------------------------------------
(* Properties.                                                             *)

TypeOK ==
    /\ pc \in [Txns -> {"lock", "chain", "read", "insert", "commit", "done"}]
    /\ held \in [Txns -> Nat] /\ \A t \in Txns : held[t] <= Len(Plan[t])
    /\ mutated \in [Txns -> BOOLEAN]
    /\ chain \in Txns \union {Nobody}
    /\ previous \in [Txns -> Seq(Events)]
    /\ pending \in [Txns -> SUBSET Rows]
    /\ log \in SUBSET Rows
    /\ nextSeq \in Nat
    /\ writes \in SUBSET Txns

(* prevHash of e links it to the row before it in the order of seq.        *)
LinkedIn(e, S) ==
    \/ e.prevHash = Null /\ \A d \in S : d.seq >= e.seq
    \/ \E d \in S : /\ d.seq < e.seq /\ e.prevHash = d.hash
                    /\ \A f \in S : f.seq <= d.seq \/ f.seq >= e.seq

(* "without it two concurrent writers can share a prevHash": the committed *)
(* rows are one chain, however transactions interleave and abort.          *)
ChainIntact ==
    /\ \A e \in log : LinkedIn(e, log) /\ e.hash = Hash(e.prevHash, e.event)
    /\ \A d, e \in log : d.seq = e.seq => d = e

(* "apps cannot not go through it": a domain write is committed together   *)
(* with an audit row of its own transaction, or not at all.                *)
WritesAudited == \A t \in writes : \E e \in log : e.by = t

(* "callers must take their domain row locks before calling this": nobody  *)
(* waits for a row while holding the chain.                                *)
ChainHeldLast == chain # Nobody => held[chain] = Len(Plan[chain])

(* What t asks for next is held by s.                                      *)
Blocks(s, t) ==
    \/ pc[t] = "lock" /\ held[t] < Len(Plan[t]) /\ Holds(s, Plan[t][held[t] + 1])
    \/ pc[t] = "chain" /\ chain = s

(* "two transactions that disagreed would deadlock": no transactions wait  *)
(* for one another, be it for rows or for the chain; of any set of them    *)
(* one waits for nobody in it.                                             *)
NoDeadlock ==
    \A S \in (SUBSET Txns) \ {{}} : \E t \in S : \A s \in S : ~Blocks(s, t)

(* And so every transaction gets its locks and ends.                       *)
TransactionsEnd == \A t \in Txns : <>(pc[t] = "done")

(* The strengthening the proofs rest on: from the lock to the commit the   *)
(* holder's read stays the latest row and its own row the greatest.        *)
HolderOnly ==
    \A t \in Txns :
        /\ pc[t] \in {"read", "insert"} \/ pending[t] # {} => chain = t
        /\ pending[t] # {} => pc[t] = "commit"
        /\ chain = t => pc[t] \in {"read", "insert", "commit"}

RowsLocked ==
    \A t \in Txns :
        pc[t] \in {"chain", "read", "insert", "commit"} => held[t] = Len(Plan[t])

ReadIsLatest == \A t \in Txns : pc[t] = "insert" => IsLatest(previous[t])

PendingExtends ==
    \A t \in Txns : \A e \in pending[t] :
        /\ IsLatest(e.prevHash) /\ e.hash = Hash(e.prevHash, e.event) /\ e.by = t
        /\ \A d \in log : d.seq < e.seq
        /\ \A d \in pending[t] : d = e
        /\ e.seq < nextSeq

Numbered == \A e \in log : e.seq < nextSeq

NotYet ==
    \A t \in Txns : pc[t] # "done" => t \notin writes /\ \A e \in log : e.by # t

Inv ==
    /\ TypeOK /\ ChainIntact /\ WritesAudited /\ HolderOnly /\ RowsLocked
    /\ ReadIsLatest /\ PendingExtends /\ Numbered /\ NotYet

-----------------------------------------------------------------------------
(* The abstract trail this implements: its history is what the latest      *)
(* hash stands for.                                                        *)
Latest == CHOOSE hash \in {d.hash : d \in log} \union {Null} : IsLatest(hash)

EntryOf(t) == {e.hash : e \in {d \in log : d.by = t}}

T == INSTANCE Trail WITH
        history <- Latest, entry <- [t \in Txns |-> EntryOf(t)], written <- writes

(* Whatever transactions interleave, wait, fail and abort, the committed   *)
(* rows are one history that only grows at its end, and every committed    *)
(* write took effect with an event of its own.                             *)
TrailSpec == T!Spec
=============================================================================
