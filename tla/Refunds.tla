------------------------------ MODULE Refunds ------------------------------
(***************************************************************************)
(* The refund console against one payment: execute() and create() for the  *)
(* refund resource, the transactional outbox that runs the processor call  *)
(* after the commit, the processor, its webhooks, the sweep and            *)
(* reconciliation.                                                         *)
(*                                                                         *)
(* One database transaction, one processor call or one single-row update   *)
(* is one action; everything between two of them interleaves.  A process   *)
(* p is one in-flight request (a caller of execute()) or one in-flight     *)
(* sweep.  An effect row is named by the refund and the operation, which   *)
(* is what its idempotency key is made of.                                 *)
(***************************************************************************)
EXTENDS Naturals, FiniteSets

CONSTANTS
    Refunds,      \* the refunds that may be requested against the payment
    Procs,        \* in-flight requests and sweeps
    Amount,       \* [Refunds -> Nat], in minor units
    Captured,     \* payments.capturedMinor
    Threshold,    \* APPROVAL_THRESHOLD_MINOR
    Named,        \* the amounts the payload of a submit may name
    MaxAttempts,  \* effects.maxAttempts
    Total,        \* [SUBSET Refunds -> Nat], the sum of Amount over a set
    Faults,       \* the faults that may happen, a subset of FaultKinds
    FaultBudget   \* bound: how many of them happen in a behaviour

FaultKinds == {"crash",      \* a process dies between two of its steps
               "op",         \* the port operation throws before it decided
               "settle",     \* settle() throws before its commit
               "record",     \* settle() throws after it: idempotency insert
               "principal",  \* systemPrincipal() throws, outside the try
               "terminal"}   \* the update that makes the row terminal throws

ASSUME RefundsAssumption == Refunds # {} /\ IsFiniteSet(Refunds)
ASSUME AmountAssumption == Amount \in [Refunds -> Nat]
ASSUME CapturedAssumption == Captured \in Nat /\ Threshold \in Nat /\ Named \subseteq Nat
ASSUME AttemptsAssumption == MaxAttempts \in Nat \ {0}
ASSUME FaultsAssumption == Faults \subseteq FaultKinds /\ FaultBudget \in Nat

(* What SQL's SUM does: the empty sum, and one more row.                   *)
ASSUME TotalAssumption ==
    /\ Total \in [SUBSET Refunds -> Nat]
    /\ Total[{}] = 0
    /\ \A S \in SUBSET Refunds : \A r \in Refunds \ S :
          Total[S \union {r}] = Total[S] + Amount[r]

Effects == Refunds \X {"refund", "lookup"}
AnyEffect == CHOOSE e \in Effects : TRUE

VARIABLES
    state,      \* refunds.state; "absent" before the row is created
    parked,     \* refunds with a pending approval request to submit them
    row,        \* effects.state per effect; "none" before it is enqueued
    attempts,   \* effects.attempts
    attempt,    \* what the processor remembers: none, paid, declined, timeout
    pc, job,    \* per process: the next step and the effect it is about
    role,       \* per process: "caller" of execute() or "sweeper"
    outcome,    \* per process: what the port operation last answered
    told,       \* per effect: what its caller was told, "nothing" before
    faults,     \* how many faults have happened
    reopened    \* history: the refunds whose row was put back in the queue
                \* after they were failed without a decision

vars == <<state, parked, row, attempts, attempt, pc, job, role, outcome, told, faults, reopened>>
domainVars == <<state, parked>>
rowVars == <<row, attempts>>
procVars == <<pc, job, role, outcome>>

Kind(e) == e[2]
Refund(e) == e[1]
Terminal == {"succeeded", "failed", "unknown"}

Init ==
    /\ state = [r \in Refunds |-> "absent"]
    /\ parked = {}
    /\ row = [e \in Effects |-> "none"]
    /\ attempts = [e \in Effects |-> 0]
    /\ attempt = [r \in Refunds |-> "none"]
    /\ pc = [p \in Procs |-> "idle"]
    /\ job = [p \in Procs |-> AnyEffect]
    /\ role = [p \in Procs |-> "caller"]
    /\ outcome = [p \in Procs |-> "none"]
    /\ told = [e \in Effects |-> "nothing"]
    /\ faults = 0
    /\ reopened = {}

-----------------------------------------------------------------------------
(* The cumulative guard, and the operations a person starts.               *)

\* Mutant: the aggregate forgets undetermined refunds.
CommittedWithoutUnknown == {r \in Refunds : state[r] \in {"submitted", "succeeded"}}

Committed == {r \in Refunds : state[r] \in {"submitted", "succeeded", "unknown"}}

WithinCapturedAmount(r) ==
    /\ Amount[r] > 0
    /\ Total[Committed \ {r}] + Amount[r] <= Captured

(* The rule is read on {...record, ...payload}: an amount in the payload   *)
(* hides the record's, for the rule only.                                  *)
ReadAmounts(r) == {Amount[r]} \union Named

NeedsApproval(amount) == amount > Threshold

Create(r) ==
    /\ state[r] = "absent"
    /\ WithinCapturedAmount(r)
    /\ state' = [state EXCEPT ![r] = "draft"]
    /\ UNCHANGED <<parked, rowVars, attempt, procVars, told, faults, reopened>>

(* enqueueEffect, then runEffect(queuedEffectId) unless it was a duplicate *)
Enqueue(p, e) ==
    IF row[e] = "none"
    THEN /\ row' = [row EXCEPT ![e] = "queued"]
         /\ pc' = [pc EXCEPT ![p] = "claim"]
         /\ job' = [job EXCEPT ![p] = e]
         /\ role' = [role EXCEPT ![p] = "caller"]
         /\ UNCHANGED told
    ELSE /\ pc' = [pc EXCEPT ![p] = "idle"]
         /\ told' = [told EXCEPT ![e] = "ok"]
         /\ UNCHANGED <<row, job, role>>

(* The transaction of an accepted submit: state, audit row, effect row.    *)
CommitSubmit(p, r) ==
    /\ state[r] = "draft"
    /\ WithinCapturedAmount(r)
    /\ state' = [state EXCEPT ![r] = "submitted"]
    /\ Enqueue(p, <<r, "refund">>)

Submit(p, r) ==
    /\ pc[p] = "idle"
    /\ \E amount \in ReadAmounts(r) : ~NeedsApproval(amount)
    /\ CommitSubmit(p, r)
    /\ UNCHANGED <<parked, attempts, attempt, outcome, faults, reopened>>

Park(r) ==
    /\ state[r] = "draft"
    /\ WithinCapturedAmount(r)
    /\ \E amount \in ReadAmounts(r) : NeedsApproval(amount)
    /\ r \notin parked
    /\ parked' = parked \union {r}
    /\ UNCHANGED <<state, rowVars, attempt, procVars, told, faults, reopened>>

(* decide(): the claim pending -> applying, then the replay of the submit. *)
Approve(p, r) ==
    /\ pc[p] = "idle"
    /\ r \in parked
    /\ parked' = parked \ {r}
    /\ pc' = [pc EXCEPT ![p] = "replay"]
    /\ job' = [job EXCEPT ![p] = <<r, "refund">>]
    /\ UNCHANGED <<state, rowVars, attempt, role, outcome, told, faults, reopened>>

Replay(p) ==
    /\ pc[p] = "replay"
    /\ CommitSubmit(p, Refund(job[p]))
    /\ UNCHANGED <<parked, attempts, attempt, outcome, faults, reopened>>

(* The guard fails at replay: the request is stale and nothing commits.    *)
ReplayStale(p) ==
    /\ pc[p] = "replay"
    /\ LET r == Refund(job[p]) IN ~(state[r] = "draft" /\ WithinCapturedAmount(r))
    /\ pc' = [pc EXCEPT ![p] = "idle"]
    /\ UNCHANGED <<domainVars, rowVars, attempt, job, role, outcome, told, faults, reopened>>

Refuse(r) ==
    /\ r \in parked
    /\ parked' = parked \ {r}
    /\ UNCHANGED <<state, rowVars, attempt, procVars, told, faults, reopened>>

Reject(r) ==
    /\ state[r] = "draft"
    /\ state' = [state EXCEPT ![r] = "rejected"]
    /\ UNCHANGED <<parked, rowVars, attempt, procVars, told, faults, reopened>>

(* unknown -> unknown; a second one finds the first one's lookup row.      *)
Reconcile(p, r) ==
    /\ pc[p] = "idle"
    /\ state[r] = "unknown"
    /\ Enqueue(p, <<r, "lookup">>)
    /\ UNCHANGED <<domainVars, attempts, attempt, outcome, faults, reopened>>

-----------------------------------------------------------------------------
(* The outbox: claim, runOne, requeue, runEffect, runEffects.              *)

Fault(kind) ==
    /\ kind \in Faults
    /\ faults < FaultBudget
    /\ faults' = faults + 1

\* Mutant: the claim does not look at the state of the row.
ClaimableAnyway(e) == row[e] \in {"queued", "running"}

Claimable(e) == row[e] = "queued"

Take(p, e) ==
    /\ Claimable(e)
    /\ row' = [row EXCEPT ![e] = "running"]
    /\ attempts' = [attempts EXCEPT ![e] = @ + 1]
    /\ pc' = [pc EXCEPT ![p] = "call"]

Claim(p) ==
    /\ pc[p] = "claim"
    /\ Take(p, job[p])
    /\ UNCHANGED <<domainVars, attempt, job, role, outcome, told, faults, reopened>>

(* Somebody else has the row: runEffect returns what it has, execute ok.   *)
ClaimNothing(p) ==
    /\ pc[p] = "claim"
    /\ ~Claimable(job[p])
    /\ pc' = [pc EXCEPT ![p] = "idle"]
    /\ told' = [told EXCEPT ![job[p]] = "ok"]
    /\ UNCHANGED <<domainVars, rowVars, attempt, job, role, outcome, faults, reopened>>

SweepClaim(p, e) ==
    /\ pc[p] = "idle"
    /\ Take(p, e)
    /\ job' = [job EXCEPT ![p] = e]
    /\ role' = [role EXCEPT ![p] = "sweeper"]
    /\ UNCHANGED <<domainVars, attempt, outcome, told, faults, reopened>>

(* The processor: a final answer is remembered under the key and repeated. *)
Report(a) ==
    CASE a = "paid" -> "succeeded"
      [] a = "timeout" -> "unknown"
      [] OTHER -> a
Paid(a) == a \in {"paid", "timeout"}

RefundAnswers(r) ==
    IF attempt[r] = "none" THEN {"paid", "declined", "timeout", "transient"} ELSE {attempt[r]}

\* Mutant: the lookup finds what was reported, and a timeout nothing.
LookupReported(r) ==
    CASE attempt[r] = "paid" -> "found_paid"
      [] attempt[r] = "declined" -> "found_declined"
      [] OTHER -> "not_found"

LookupAnswer(r) ==
    CASE attempt[r] = "none" -> "not_found"
      [] Paid(attempt[r]) -> "found_paid"
      [] OTHER -> "found_declined"

(* runOne after the call: a transient failure with attempts left requeues. *)
Retries(p, answer) == answer = "transient" /\ attempts[job[p]] < MaxAttempts

Answered(p, answer) ==
    /\ outcome' = [outcome EXCEPT ![p] = answer]
    /\ pc' = [pc EXCEPT ![p] = IF Retries(p, answer) THEN "requeue" ELSE "settle"]

CallRefund(p) ==
    /\ pc[p] = "call"
    /\ Kind(job[p]) = "refund"
    /\ \E a \in RefundAnswers(Refund(job[p])) :
          /\ attempt' = [attempt EXCEPT ![Refund(job[p])] = IF a = "transient" THEN @ ELSE a]
          /\ Answered(p, Report(a))
    /\ UNCHANGED <<domainVars, rowVars, job, role, told, faults, reopened>>

CallLookup(p) ==
    /\ pc[p] = "call"
    /\ Kind(job[p]) = "lookup"
    /\ Answered(p, LookupAnswer(Refund(job[p])))
    /\ UNCHANGED <<domainVars, rowVars, attempt, job, role, told, faults, reopened>>

CallThrows(p) ==
    /\ pc[p] = "call"
    /\ Fault("op")
    /\ Answered(p, "unknown")
    /\ UNCHANGED <<domainVars, rowVars, attempt, job, role, told, reopened>>

(* settle, fail and mark_unknown through execute(): the state they lead to *)
(* from s, which is s itself when the transition does not apply.           *)
Unsettled == {"submitted", "unknown"}

\* Mutants: a timeout is left as it is, taken for a failure, or recorded
\* whatever became of the refund meanwhile.
TimeoutIgnored(s, kind, answer) ==
    CASE answer \in {"succeeded", "found_paid"} /\ s \in Unsettled -> "succeeded"
      [] answer \in {"transient", "declined", "found_declined"} /\ s \in Unsettled -> "failed"
      [] OTHER -> s
TimeoutFails(s, kind, answer) ==
    TimeoutIgnored(s, kind, IF answer = "unknown" THEN "transient" ELSE answer)
TimeoutOverwrites(s, kind, answer) ==
    IF answer = "unknown" THEN "unknown" ELSE TimeoutIgnored(s, kind, answer)

AfterSettle(s, kind, answer) ==
    CASE answer \in {"succeeded", "found_paid"} /\ s \in Unsettled -> "succeeded"
      [] answer \in {"transient", "declined", "found_declined"} /\ s \in Unsettled -> "failed"
      [] answer = "unknown" /\ kind = "refund" /\ s = "submitted" -> "unknown"
      [] OTHER -> s

SettleTo(p, next) ==
    LET e == job[p] IN
    /\ state' = [state EXCEPT ![Refund(e)] = AfterSettle(@, Kind(e), outcome[p])]
    /\ pc' = [pc EXCEPT ![p] = next]

Settle(p) ==
    /\ pc[p] = "settle"
    /\ SettleTo(p, "finish")
    /\ UNCHANGED <<parked, rowVars, attempt, job, role, outcome, told, faults, reopened>>

SettleThrows(p) ==
    /\ pc[p] = "settle"
    /\ \/ Fault("settle") /\ pc' = [pc EXCEPT ![p] = "requeue"] /\ UNCHANGED state
       \/ Fault("principal") /\ pc' = [pc EXCEPT ![p] = "abort"] /\ UNCHANGED state
       \/ Fault("record") /\ SettleTo(p, "requeue")
    /\ UNCHANGED <<parked, rowVars, attempt, job, role, outcome, told, reopened>>

(* effect.update to the outcome's status                                   *)
Status(answer) ==
    CASE answer \in {"transient", "declined"} -> "failed"
      [] answer = "unknown" -> "unknown"
      [] OTHER -> "succeeded"

(* The process is done; a caller's execute() returns with the answer.      *)
Return(p, answer) ==
    /\ pc' = [pc EXCEPT ![p] = "idle"]
    /\ told' = IF role[p] = "caller" THEN [told EXCEPT ![job[p]] = answer] ELSE told

Finish(p) ==
    /\ pc[p] = "finish"
    /\ row' = [row EXCEPT ![job[p]] = Status(outcome[p])]
    /\ Return(p, IF outcome[p] = "unknown" THEN "unknown" ELSE "ok")
    /\ UNCHANGED <<domainVars, attempts, attempt, job, role, outcome, faults, reopened>>

FinishThrows(p) ==
    /\ pc[p] = "finish"
    /\ Fault("terminal")
    /\ pc' = [pc EXCEPT ![p] = "abort"]
    /\ UNCHANGED <<domainVars, rowVars, attempt, job, role, outcome, told, reopened>>

(* The row may be run again.                                               *)
Reopen(p) ==
    /\ row' = [row EXCEPT ![job[p]] = "queued"]
    /\ reopened' = reopened \union
          {r \in Refunds : job[p] = <<r, "refund">> /\ state[r] = "failed" /\ attempt[r] = "none"}

(* retrying: true.  A caller with attempts left claims the row again.      *)
Requeue(p) ==
    /\ pc[p] = "requeue"
    /\ Reopen(p)
    /\ IF role[p] = "caller" /\ attempts[job[p]] < MaxAttempts
       THEN pc' = [pc EXCEPT ![p] = "claim"] /\ UNCHANGED told
       ELSE Return(p, "unknown")
    /\ UNCHANGED <<domainVars, attempts, attempt, job, role, outcome, faults>>

(* runOne threw: runEffect requeues the row, runEffects leaves it running. *)
Abort(p) ==
    /\ pc[p] = "abort"
    /\ IF role[p] = "caller" THEN Reopen(p) ELSE UNCHANGED <<row, reopened>>
    /\ Return(p, "unknown")
    /\ UNCHANGED <<domainVars, attempts, attempt, job, role, outcome, faults>>

Crash(p) ==
    /\ pc[p] # "idle"
    /\ Fault("crash")
    /\ pc' = [pc EXCEPT ![p] = "idle"]
    /\ UNCHANGED <<domainVars, rowVars, attempt, job, role, outcome, told, reopened>>

(* receiveWebhook: about a decision the processor took, at any time after  *)
(* it, any number of times.                                                *)
Webhook(r) ==
    /\ attempt[r] # "none"
    /\ state[r] \in Unsettled
    /\ state' = [state EXCEPT ![r] =
                    AfterSettle(@, "refund", IF Paid(attempt[r]) THEN "succeeded" ELSE "declined")]
    /\ UNCHANGED <<parked, rowVars, attempt, procVars, told, faults, reopened>>

-----------------------------------------------------------------------------

Step(p) ==
    \/ Replay(p) \/ ReplayStale(p)
    \/ Claim(p) \/ ClaimNothing(p)
    \/ CallRefund(p) \/ CallLookup(p)
    \/ Settle(p) \/ Finish(p) \/ Requeue(p) \/ Abort(p)

Next ==
    \/ \E r \in Refunds : Create(r) \/ Park(r) \/ Refuse(r) \/ Reject(r) \/ Webhook(r)
    \/ \E p \in Procs, r \in Refunds : Submit(p, r) \/ Approve(p, r) \/ Reconcile(p, r)
    \/ \E p \in Procs, e \in Effects : SweepClaim(p, e)
    \/ \E p \in Procs : Step(p)
    \/ \E p \in Procs : CallThrows(p) \/ SettleThrows(p) \/ FinishThrows(p) \/ Crash(p)

Spec == Init /\ [][Next]_vars

(* A request that is being served goes on, and the sweep runs again as     *)
(* long as a row is queued.  No user action is fair: nobody has to submit. *)
Fairness ==
    /\ \A p \in Procs : WF_vars(Step(p))
    /\ WF_vars(\E p \in Procs, e \in Effects : SweepClaim(p, e))

FairSpec == Spec /\ Fairness
-----------------------------------------------------------------------------
(* Properties.                                                             *)

TypeOK ==
    /\ state \in [Refunds -> {"absent", "draft", "submitted", "succeeded",
                              "failed", "unknown", "rejected"}]
    /\ parked \in SUBSET Refunds
    /\ row \in [Effects -> {"none", "queued", "running"} \union Terminal]
    /\ attempts \in [Effects -> Nat]
    /\ attempt \in [Refunds -> {"none", "paid", "declined", "timeout"}]
    /\ pc \in [Procs -> {"idle", "replay", "claim", "call", "settle",
                         "finish", "requeue", "abort"}]
    /\ job \in [Procs -> Effects]
    /\ role \in [Procs -> {"caller", "sweeper"}]
    /\ outcome \in [Procs -> {"none", "succeeded", "unknown", "declined", "transient",
                              "not_found", "found_paid", "found_declined"}]
    /\ told \in [Effects -> {"nothing", "ok", "unknown"}]
    /\ faults \in Nat
    /\ reopened \in SUBSET Refunds

Moved == {r \in Refunds : Paid(attempt[r])}

(* assertWithinCapturedAmount: whatever is refunded or in flight, an       *)
(* undetermined refund included, never sums to more than was captured,     *)
(* however many submits, approvals and settlements interleave.             *)
WithinCaptured ==
    Total[{r \in Refunds : state[r] \in {"submitted", "unknown", "succeeded"}}] <= Captured

(* The money that really left the processor stays within the captured      *)
(* amount too: no refund whose money moved is forgotten by the guard, but  *)
(* for one that is run again after it was failed (see SettledTruth).       *)
MoneyWithinCaptured == Total[Moved \ reopened] <= Captured

(* claim(), FOR UPDATE SKIP LOCKED: no two processes are ever between the  *)
(* claim and the release of one effect row, callers and sweeps alike.      *)
Busy(p) == pc[p] \in {"call", "settle", "finish", "requeue", "abort"}
OneRunner == \A p, q \in Procs : Busy(p) /\ Busy(q) /\ job[p] = job[q] => p = q

(* runOne settles before it marks the row terminal: a refund whose call is *)
(* over is never left in 'submitted', with nothing left to move it on.     *)
TerminalMeansSettled ==
    \A r \in Refunds : row[<<r, "refund">>] \in Terminal => state[r] # "submitted"

(* The refund's state agrees with the processor's books: 'succeeded' only  *)
(* if the money moved, 'failed' only if it did not, and it never moves     *)
(* for a refund that was not submitted.                                    *)
SettledTruth ==
    \A r \in Refunds :
        /\ state[r] = "succeeded" => Paid(attempt[r])
        /\ Paid(attempt[r]) => state[r] \in {"submitted", "unknown", "succeeded"}

(* Which refunds that fails for, whatever throws and whenever: only those  *)
(* that were failed without a decision and whose row was then put back in  *)
(* the queue, because a write after the verdict threw.                     *)
VerdictTrue ==
    \A r \in Refunds :
        /\ state[r] = "succeeded" => Paid(attempt[r])
        /\ Paid(attempt[r]) => state[r] \in {"submitted", "unknown", "succeeded"} \/ r \in reopened
        /\ r \in reopened => state[r] = "failed"

(* maxAttempts bounds the retries of one row: only a fault (a settlement   *)
(* that threw, or a terminal update) ever buys a row one attempt more.     *)
RetriesBounded == \A e \in Effects : attempts[e] <= MaxAttempts + faults

(* A row left 'running' by nobody is a refund no sweep takes up: only a    *)
(* fault strands a row, and every fault at most one.                       *)
InHand(p) == pc[p] \in {"call", "settle", "finish", "requeue"}
Stranded == {e \in Effects : row[e] = "running" /\ \A p \in Procs : job[p] = e => ~InHand(p)}
StrandedByFaults == Cardinality(Stranded) <= faults

(* The verdict on a refund is final: late answers, redelivered webhooks,   *)
(* lookups and sweeps never take it out of a final state.                  *)
FinalIsFinal ==
    [][\A r \in Refunds :
          state[r] \in {"succeeded", "failed", "rejected"} => state'[r] = state[r]]_vars

(* "before returning, so the caller sees the settled record": a caller who *)
(* was told ok is not looking at a refund still in flight.                 *)
CallerSeesSettled ==
    \A r \in Refunds : told[<<r, "refund">>] = "ok" => state[r] # "submitted"

(* A submitted refund is settled, failed or marked unknown in the end.     *)
SubmittedSettles ==
    \A r \in Refunds : state[r] = "submitted" ~> state[r] \in Terminal

(* Reconciliation asks the processor: when the processor has an answer, a  *)
(* reconcile leaves the lookup on its way, queued or being run.            *)
ReconcileAsks ==
    [][\A p \in Procs, r \in Refunds :
          Reconcile(p, r) /\ attempt[r] # "none"
              => row'[<<r, "lookup">>] \in {"queued", "running"}]_vars

(* A lookup that was asked for finds the answer the processor has, and the *)
(* refund leaves 'unknown'.                                                *)
ReconcileSettles ==
    \A r \in Refunds :
        row[<<r, "lookup">>] = "queued" /\ attempt[r] # "none"
            ~> state[r] \in {"succeeded", "failed"}

(* The strengthening the proofs rest on.  A process between claim and      *)
(* release has the row running; a row exists exactly for the refunds that  *)
(* left the drafts; settling comes before finishing; a retry is paid for.  *)
Holding == \A p \in Procs : Busy(p) => row[job[p]] = "running"

OpenStates == {"absent", "draft", "rejected"}

RowExists ==
    \A r \in Refunds :
        /\ row[<<r, "refund">>] = "none" <=> state[r] \in OpenStates
        /\ state[r] \in OpenStates => attempt[r] = "none"

FinishSettled ==
    \A p \in Procs :
        pc[p] = "finish" /\ Kind(job[p]) = "refund" => state[Refund(job[p])] # "submitted"

AnswerKind ==
    \A p \in Procs : pc[p] = "settle" =>
        /\ outcome[p] # "none"
        /\ Kind(job[p]) = "refund" =>
              outcome[p] \in {"succeeded", "unknown", "declined", "transient"}

RetryPaid ==
    /\ \A e \in Effects : row[e] = "none" => attempts[e] = 0
    /\ \A e \in Effects : row[e] = "queued" => attempts[e] < MaxAttempts + faults
    /\ \A p \in Procs :
          pc[p] \in {"requeue", "abort"} => attempts[job[p]] < MaxAttempts + faults

Inv ==
    /\ TypeOK
    /\ WithinCaptured
    /\ OneRunner
    /\ Holding
    /\ RowExists
    /\ TerminalMeansSettled
    /\ FinishSettled
    /\ AnswerKind
    /\ RetriesBounded
    /\ RetryPaid
    /\ StrandedByFaults

(* What a process is about to settle is what the processor knows; once a   *)
(* refund is failed without a decision, its row is not taken again, and    *)
(* only a fault after the verdict puts it back in the queue.               *)
OutcomeTruth ==
    \A p \in Procs : pc[p] = "settle" =>
        LET a == attempt[Refund(job[p])] IN
        /\ outcome[p] \in {"succeeded", "found_paid"} => Paid(a)
        /\ outcome[p] \in {"declined", "found_declined"} => a = "declined"
        /\ outcome[p] = "transient" => a = "none" /\ Kind(job[p]) = "refund"

LateFaults == Faults \intersect {"record", "terminal"}

FailedStays ==
    \A r \in Refunds \ reopened : state[r] = "failed" /\ attempt[r] = "none" =>
        /\ row[<<r, "refund">>] # "queued"
        /\ \A p \in Procs : job[p] = <<r, "refund">> =>
              /\ pc[p] \notin {"call", "settle"}
              /\ pc[p] \in {"requeue", "abort"} => LateFaults # {}

TruthInv == VerdictTrue /\ OutcomeTruth /\ FailedStays

-----------------------------------------------------------------------------
(* The abstract ledger this implements.                                    *)
Phase(s) ==
    CASE s \in {"absent", "draft"} -> "open"
      [] s \in {"submitted", "unknown"} -> "reserved"
      [] s = "succeeded" -> "paid"
      [] s = "failed" -> "unpaid"
      [] OTHER -> "void"

L == INSTANCE Ledger WITH phase <- [r \in Refunds |-> Phase(state[r])], moved <- Moved \ reopened

(* Refunds implements the ledger: money moves at most once and only under  *)
(* a reservation, and never after the refund was reported unpaid, unless   *)
(* its row was reopened then.                                              *)
LedgerSpec == L!Spec
=============================================================================
