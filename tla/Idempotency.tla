---------------------------- MODULE Idempotency ----------------------------
(***************************************************************************)
(* Keyed calls of execute() and create(): the stored outcome is looked up  *)
(* before the transaction and inserted after it, outside of it, and after  *)
(* the external call; so two calls with one key overlap, and a call may    *)
(* die with its change committed and its outcome not stored.               *)
(*                                                                         *)
(* An intent is what one key stands for: one action on the record, or one  *)
(* creation.  Whoever is not authorized is turned away before all this     *)
(* (module Policy), and parking is the subject of Approvals.               *)
(***************************************************************************)
EXTENDS Naturals, FiniteSets

CONSTANTS
    Calls,      \* calls in flight
    Intents,    \* idempotency keys, each with what its callers ask for
    Creations,  \* the intents that create() serves; execute() the others
    Guarded,    \* the intents with a guard, which may refuse them
    Effectful,  \* the intents with an external call after the commit
    States,     \* states of the record
    Initial,    \* the state it is in at first
    From, To,   \* [Intents -> SUBSET States], [Intents -> States]
    Rank,       \* [States -> Nat]: how far along a state is
    MaxFailures \* bound: how many calls fail in a behaviour

(* The intents that may be carried out again: a creation, and a transition *)
(* that stays where it starts (reconcile).  All others move on.            *)
Repeatable == {k \in Intents : k \in Creations \/ To[k] \in From[k]}

ASSUME IntentsAssumption ==
    Intents # {} /\ Creations \union Guarded \union Effectful \subseteq Intents
ASSUME MachineAssumption ==
    /\ Initial \in States /\ Rank \in [States -> Nat]
    /\ From \in [Intents -> SUBSET States] /\ To \in [Intents -> States]
    /\ \A k \in Intents \ Creations : \A s \in From[k] :
          IF k \in Repeatable THEN s = To[k] ELSE Rank[s] < Rank[To[k]]
ASSUME FailuresAssumption == MaxFailures \in Nat

VARIABLES
    state,      \* the record's state
    done,       \* per intent: audit rows of kind write with its key
    records,    \* idempotency_records: per key an outcome, or "none"
    pc,         \* per call: its next step
    intent,     \* per call: what it was asked for
    answer,     \* per call: its outcome so far
    failures,   \* how many calls have failed
    disturbed   \* history: intents two calls of which were in flight at
                \* once, or a call of which failed after its commit

callVars == <<pc, intent, answer>>
historyVars == <<failures, disturbed>>
keyVars == <<state, done, records, callVars, historyVars>>

AnyIntent == CHOOSE k \in Intents : TRUE

KeyInit ==
    /\ state = Initial
    /\ done = [k \in Intents |-> 0]
    /\ records = [k \in Intents |-> "none"]
    /\ pc = [c \in Calls |-> "idle"]
    /\ intent = [c \in Calls |-> AnyIntent]
    /\ answer = [c \in Calls |-> "none"]
    /\ failures = 0
    /\ disturbed = {}

Goto(c, next) == pc' = [pc EXCEPT ![c] = next]
Answer(c, a) == answer' = [answer EXCEPT ![c] = a]

InFlight(c) == pc[c] \in {"lookup", "commit", "effect", "record"}

(* A call of execute() or create() starts.                                 *)
Enter(c, k) ==
    /\ Goto(c, "lookup")
    /\ intent' = [intent EXCEPT ![c] = k]
    /\ disturbed' = IF \E d \in Calls \ {c} : InFlight(d) /\ intent[d] = k
                    THEN disturbed \union {k} ELSE disturbed
    /\ UNCHANGED <<state, done, records, answer, failures>>

\* Mutant: the stored outcome is not looked up.
LookupNothing(c) ==
    /\ pc[c] = "lookup"
    /\ Goto(c, "commit")
    /\ UNCHANGED <<state, done, records, intent, answer, historyVars>>

(* if (replay) return replay.outcome                                       *)
Lookup(c) ==
    /\ pc[c] = "lookup"
    /\ IF records[intent[c]] = "none"
       THEN Goto(c, "commit") /\ UNCHANGED answer
       ELSE Goto(c, "answered") /\ Answer(c, records[intent[c]])
    /\ UNCHANGED <<state, done, records, intent, historyVars>>

\* Mutants: the state is not checked; the outcome of a success is not kept.
AppliesAnyway(k) == TRUE
NextUnlessEffect(k) == IF k \in Effectful THEN "effect" ELSE "answered"

(* The state check under the row lock; a creation has no row to lock.      *)
Applies(k) == k \in Creations \/ state \in From[k]

AfterCommit(k) == IF k \in Effectful THEN "effect" ELSE "record"

(* The transaction: the write with its audit row under the key.            *)
Commit(c) ==
    /\ pc[c] = "commit"
    /\ Applies(intent[c])
    /\ state' = IF intent[c] \in Creations THEN state ELSE To[intent[c]]
    /\ done' = [done EXCEPT ![intent[c]] = @ + 1]
    /\ Answer(c, "ok")
    /\ Goto(c, AfterCommit(intent[c]))
    /\ UNCHANGED <<records, intent, historyVars>>

(* The wrong state is an outcome of the transaction, and is stored...      *)
Invalid(c) ==
    /\ pc[c] = "commit"
    /\ ~Applies(intent[c])
    /\ Answer(c, "invalid")
    /\ Goto(c, "record")
    /\ UNCHANGED <<state, done, records, intent, historyVars>>

(* ... a guard that throws InvalidOperation returns at once, and is not.   *)
Refuse(c) ==
    /\ pc[c] = "commit"
    /\ intent[c] \in Guarded /\ Applies(intent[c])
    /\ Answer(c, "invalid")
    /\ Goto(c, "answered")
    /\ UNCHANGED <<state, done, records, intent, historyVars>>

(* runEffect before the outcome is stored; it throws nothing, and only an  *)
(* undetermined call replaces the outcome.                                 *)
RunEffect(c) ==
    /\ pc[c] = "effect"
    /\ \E a \in {"ok", "unknown"} : Answer(c, a)
    /\ Goto(c, "record")
    /\ UNCHANGED <<state, done, records, intent, historyVars>>

(* idempotencyRecord.create; the key is unique, and a second insert throws *)
(* out of execute().                                                       *)
Record(c) ==
    /\ pc[c] = "record"
    /\ IF records[intent[c]] = "none"
       THEN records' = [records EXCEPT ![intent[c]] = answer[c]] /\ UNCHANGED answer
       ELSE Answer(c, "error") /\ UNCHANGED records
    /\ Goto(c, "answered")
    /\ UNCHANGED <<state, done, intent, historyVars>>

(* The process dies, or a query fails: what is committed stays.            *)
Fail(c) ==
    /\ InFlight(c)
    /\ failures < MaxFailures
    /\ failures' = failures + 1
    /\ disturbed' = IF pc[c] \in {"effect", "record"} THEN disturbed \union {intent[c]}
                    ELSE disturbed
    /\ Answer(c, "error")
    /\ Goto(c, "answered")
    /\ UNCHANGED <<state, done, records, intent>>

KeyStep(c) ==
    \/ Lookup(c) \/ Commit(c) \/ Invalid(c) \/ Refuse(c) \/ RunEffect(c) \/ Record(c)

-----------------------------------------------------------------------------
(* Properties.                                                             *)

KeyTypeOK ==
    /\ state \in States
    /\ done \in [Intents -> Nat]
    /\ records \in [Intents -> {"none", "ok", "unknown", "invalid"}]
    /\ intent \in [Calls -> Intents]
    /\ failures \in Nat
    /\ disturbed \in SUBSET Intents
    /\ \A c \in Calls : pc[c] = "record" => answer[c] \in {"ok", "unknown", "invalid"}

(* "A replayed intent returns the original result rather than performing   *)
(* the action twice": an intent is carried out once, whatever calls with   *)
(* its key overlap, fail and are retried.  Only a repeatable one whose     *)
(* calls overlapped, or failed between commit and record, is done again.   *)
OncePerKey == \A k \in Intents : done[k] <= 1 \/ k \in Repeatable \intersect disturbed

(* "... returns the original result": no key whose write is in the trail   *)
(* stores a refusal for the callers to come.                               *)
OriginalReturned == \A k \in Intents : done[k] > 0 => records[k] # "invalid"

(* Strengthening: what has moved on stays so; an outcome on its way to     *)
(* the record is true of the trail; and between commit and record of an    *)
(* undisturbed intent, nobody else is in between.                          *)
MovedOn ==
    \A k \in Intents \ Repeatable : done[k] > 0 => Rank[To[k]] <= Rank[state]

Succeeded == {"ok", "unknown"}

AnswersTrue ==
    /\ \A k \in Intents : records[k] \in Succeeded => done[k] > 0
    /\ \A c \in Calls :
          /\ pc[c] = "effect" => done[intent[c]] > 0
          /\ pc[c] \in {"record", "answered"} /\ answer[c] \in Succeeded
                => done[intent[c]] > 0

(* Of an undisturbed intent one call at most is in flight; once it is done *)
(* that call is about to record a success, or the record says so.          *)
Alone ==
    \A c \in Calls : InFlight(c) /\ intent[c] \notin disturbed =>
        /\ \A d \in Calls : InFlight(d) /\ intent[d] = intent[c] => c = d
        /\ pc[c] \in {"commit", "effect", "record"} => records[intent[c]] = "none"
        /\ pc[c] = "commit" => done[intent[c]] = 0
        /\ pc[c] = "record" /\ answer[c] = "invalid" => done[intent[c]] = 0

RecordedDone ==
    \A k \in Intents \ disturbed : done[k] > 0 =>
        \/ records[k] \in Succeeded
        \/ \E c \in Calls : intent[c] = k /\ pc[c] \in {"effect", "record"}

KeyInv == KeyTypeOK /\ OncePerKey /\ MovedOn /\ AnswersTrue /\ Alone /\ RecordedDone
=============================================================================
