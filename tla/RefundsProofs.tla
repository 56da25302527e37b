--------------------------- MODULE RefundsProofs ---------------------------
(***************************************************************************)
(* Proofs about Refunds for every payment, set of refunds and set of       *)
(* processes.                                                              *)
(***************************************************************************)
EXTENDS Refunds, TLAPS, FiniteSetTheorems, WellFoundedInduction

-----------------------------------------------------------------------------
(* Sums.                                                                   *)

(* Taking one refund out of a set lowers its total by that refund's amount *)
LEMMA TotalRemove ==
    ASSUME NEW S \in SUBSET Refunds, NEW r \in S
    PROVE  Total[S] = Total[S \ {r}] + Amount[r]
  <1>1. S \ {r} \in SUBSET Refunds /\ r \in Refunds \ (S \ {r})
    OBVIOUS
  <1>2. (S \ {r}) \union {r} = S
    OBVIOUS
  <1> QED
    BY <1>1, <1>2, TotalAssumption

(* A part of a set of refunds never sums to more than the whole: by a      *)
(* smallest counterexample, ordered by inclusion.                          *)
LEMMA TotalMonotone ==
    ASSUME NEW T \in SUBSET Refunds, NEW S \in SUBSET T
    PROVE  Total[S] <= Total[T]
  <1> DEFINE Bad == {U \in SUBSET Refunds : S \subseteq U /\ ~(Total[S] <= Total[U])}
  <1>1. SUFFICES ASSUME Bad # {} PROVE FALSE
    OBVIOUS
  <1>2. Bad \subseteq FiniteSubsetsOf(Refunds)
    BY RefundsAssumption, FS_Subset DEF FiniteSubsetsOf
  <1>3. PICK U \in Bad : \A V \in Bad : ~(<<V, U>> \in StrictSubsetOrdering(Refunds))
    <2> HIDE DEF Bad
    <2>1. IsWellFoundedOn(StrictSubsetOrdering(Refunds), FiniteSubsetsOf(Refunds))
      BY FS_StrictSubsetOrderingWellFounded
    <2> QED
      BY <1>1, <1>2, <2>1, WFMin
  <1>4. U \in SUBSET Refunds /\ S \subseteq U /\ ~(Total[S] <= Total[U])
    OBVIOUS
  <1>5. PICK r \in U : r \notin S
    <2>1. Total[S] \in Nat
      BY TotalAssumption
    <2>2. S # U
      BY <1>4, <2>1
    <2> QED
      BY <1>4, <2>2
  <1>6. U \ {r} \notin Bad
    BY <1>3, <1>4, <1>5 DEF StrictSubsetOrdering
  <1>7. Total[S] <= Total[U \ {r}]
    BY <1>4, <1>5, <1>6
  <1>8. Total[U] = Total[U \ {r}] + Amount[r]
    BY <1>4, <1>5, TotalRemove
  <1>9. Total[S] \in Nat /\ Total[U \ {r}] \in Nat /\ Amount[r] \in Nat
    BY <1>4, <1>5, TotalAssumption, AmountAssumption
  <1> QED
    BY <1>4, <1>7, <1>8, <1>9

-----------------------------------------------------------------------------
(* Type correctness.                                                       *)

LEMMA TypeInit == Init => TypeOK
  <1>1. PICK r \in Refunds : <<r, "refund">> \in Effects
    BY RefundsAssumption DEF Effects
  <1>2. AnyEffect \in Effects
    BY <1>1 DEF AnyEffect
  <1> QED
    BY <1>2 DEF Init, TypeOK, Terminal

(* Enqueueing an effect keeps the types of what it touches.                *)
LEMMA EnqueueType ==
    ASSUME TypeOK, NEW p \in Procs, NEW e \in Effects, Enqueue(p, e)
    PROVE  /\ row' \in [Effects -> {"none", "queued", "running"} \union Terminal]
           /\ pc' \in [Procs -> {"idle", "replay", "claim", "call", "settle",
                                "finish", "requeue", "abort"}]
           /\ job' \in [Procs -> Effects]
           /\ role' \in [Procs -> {"caller", "sweeper"}]
           /\ told' \in [Effects -> {"nothing", "ok", "unknown"}]
  <1>1. CASE row[e] = "none"
    BY <1>1 DEF TypeOK, Enqueue
  <1>2. CASE row[e] # "none"
    BY <1>2 DEF TypeOK, Enqueue
  <1> QED
    BY <1>1, <1>2

(* Every step keeps the types, whatever faults occur.                      *)
LEMMA TypeStep == TypeOK /\ [Next]_vars => TypeOK'
  <1> SUFFICES ASSUME TypeOK, [Next]_vars PROVE TypeOK'
    OBVIOUS
  <1> USE DEF TypeOK, rowVars, procVars, domainVars
  <1>1. ASSUME NEW r \in Refunds,
               Create(r) \/ Park(r) \/ Refuse(r) \/ Reject(r) \/ Webhook(r)
        PROVE  TypeOK'
    BY <1>1 DEF Create, Park, Refuse, Reject, Webhook, AfterSettle
  <1>2. ASSUME NEW p \in Procs, NEW r \in Refunds,
               Submit(p, r) \/ Approve(p, r) \/ Reconcile(p, r)
        PROVE  TypeOK'
    <2>0. <<r, "refund">> \in Effects /\ <<r, "lookup">> \in Effects
      BY DEF Effects
    <2>1. CASE Submit(p, r)
      BY <2>0, <2>1, EnqueueType DEF Submit, CommitSubmit
    <2>2. CASE Approve(p, r)
      BY <2>0, <2>2 DEF Approve
    <2>3. CASE Reconcile(p, r)
      BY <2>0, <2>3, EnqueueType DEF Reconcile
    <2> QED
      BY <1>2, <2>1, <2>2, <2>3
  <1>3. ASSUME NEW p \in Procs, NEW e \in Effects, SweepClaim(p, e)
        PROVE  TypeOK'
    BY <1>3 DEF SweepClaim, Take
  <1>4. ASSUME NEW p \in Procs, Step(p)
        PROVE  TypeOK'
    <2>0. Refund(job[p]) \in Refunds /\ job[p] \in Effects
      BY DEF Refund, Effects
    <2>1. CASE Replay(p) \/ ReplayStale(p)
      <3>1. <<Refund(job[p]), "refund">> \in Effects
        BY <2>0 DEF Effects
      <3> QED
        BY <2>0, <2>1, <3>1, EnqueueType DEF Replay, ReplayStale, CommitSubmit
    <2>2. CASE Claim(p) \/ ClaimNothing(p)
      BY <2>0, <2>2 DEF Claim, ClaimNothing, Take
    <2>3. CASE CallRefund(p) \/ CallLookup(p)
      BY <2>0, <2>3 DEF CallRefund, CallLookup, Answered, Report, RefundAnswers, LookupAnswer
    <2>4. CASE Settle(p)
      BY <2>0, <2>4 DEF Settle, SettleTo, AfterSettle
    <2>5. CASE Finish(p) \/ Requeue(p) \/ Abort(p)
      BY <2>0, <2>5 DEF Finish, Requeue, Abort, Reopen, Return, Status, Terminal
    <2> QED
      BY <1>4, <2>1, <2>2, <2>3, <2>4, <2>5 DEF Step
  <1>5. ASSUME NEW p \in Procs,
               CallThrows(p) \/ SettleThrows(p) \/ FinishThrows(p) \/ Crash(p)
        PROVE  TypeOK'
    <2>0. Refund(job[p]) \in Refunds
      BY DEF Refund, Effects
    <2> QED
      BY <1>5, <2>0 DEF CallThrows, SettleThrows, FinishThrows, Crash, Fault, Answered,
                        SettleTo, AfterSettle
  <1>6. CASE UNCHANGED vars
    BY <1>6 DEF vars
  <1> QED
    BY <1>1, <1>2, <1>3, <1>4, <1>5, <1>6 DEF Next

(* Type correctness of the refund console.                                 *)
THEOREM TypeCorrect == Spec => []TypeOK
  BY TypeInit, TypeStep, PTL DEF Spec

-----------------------------------------------------------------------------
(* One runner per effect row.                                              *)

(* Claiming a queued row keeps every row with at most one process between  *)
(* claim and release, because such a process's row is running, not queued. *)
LEMMA TakeKeepsRunner ==
    ASSUME TypeOK, OneRunner, Holding, NEW p \in Procs, NEW e \in Effects,
           Take(p, e), ~Busy(p), job' = [job EXCEPT ![p] = e]
    PROVE  OneRunner' /\ Holding'
  <1>1. \A q \in Procs \ {p} : pc'[q] = pc[q] /\ job'[q] = job[q]
    BY DEF TypeOK, Take
  <1>2. pc'[p] = "call" /\ job'[p] = e /\ row'[e] = "running" /\ row[e] = "queued"
    BY DEF TypeOK, Take, Claimable
  <1>3. \A d \in Effects \ {e} : row'[d] = row[d]
    BY DEF TypeOK, Take
  <1>4. \A q \in Procs \ {p} : Busy(q) => job[q] # e
    BY <1>2 DEF Holding
  <1>5. \A q \in Procs \ {p} : Busy(q)' <=> Busy(q)
    BY <1>1 DEF Busy
  <1> QED
    BY <1>1, <1>2, <1>3, <1>4, <1>5 DEF OneRunner, Holding, TypeOK

(* A new row disturbs nobody: it was not running, and it is only queued.   *)
LEMMA EnqueueKeepsRunner ==
    ASSUME TypeOK, OneRunner, Holding, NEW p \in Procs, NEW e \in Effects,
           Enqueue(p, e)
    PROVE  OneRunner' /\ Holding'
  <1>1. \A q \in Procs \ {p} : pc'[q] = pc[q] /\ job'[q] = job[q]
    BY DEF TypeOK, Enqueue
  <1>2. ~Busy(p)'
    BY DEF TypeOK, Enqueue, Busy
  <1>3. \A d \in Effects : row[d] = "running" => row'[d] = "running"
    BY DEF TypeOK, Enqueue
  <1>4. \A q \in Procs \ {p} : Busy(q)' <=> Busy(q)
    BY <1>1 DEF Busy
  <1> QED
    BY <1>1, <1>2, <1>3, <1>4 DEF OneRunner, Holding, TypeOK

(* A process that goes on with the row it holds, or lets go of it, leaves  *)
(* the others alone.                                                       *)
LEMMA ReleaseKeepsRunner ==
    ASSUME TypeOK, OneRunner, Holding, NEW p \in Procs,
           UNCHANGED job,
           \A q \in Procs \ {p} : pc'[q] = pc[q],
           \A d \in Effects \ {job[p]} : row'[d] = row[d],
           Busy(p)' => Busy(p) /\ row' = row,
           Busy(p) \/ row' = row
    PROVE  OneRunner' /\ Holding'
  <1>1. \A q \in Procs \ {p} : Busy(q)' <=> Busy(q)
    BY DEF Busy
  <1>2. \A q \in Procs \ {p} : Busy(q) /\ Busy(p) => job[q] # job[p]
    BY DEF OneRunner
  <1>3. OneRunner'
    BY <1>1, <1>2 DEF OneRunner
  <1>4. ASSUME NEW q \in Procs, Busy(q)' PROVE row'[job[q]] = "running"
    BY <1>1, <1>2, <1>4 DEF Holding, TypeOK
  <1> QED
    BY <1>3, <1>4 DEF Holding

LEMMA RunnerStep ==
    TypeOK /\ OneRunner /\ Holding /\ [Next]_vars => OneRunner' /\ Holding'
  <1> SUFFICES ASSUME TypeOK, OneRunner, Holding, [Next]_vars
               PROVE  OneRunner' /\ Holding'
    OBVIOUS
  <1> USE DEF rowVars, procVars, domainVars
  <1>1. ASSUME UNCHANGED <<row, pc, job>> PROVE OneRunner' /\ Holding'
    BY <1>1 DEF OneRunner, Holding, Busy
  <1>2. ASSUME NEW r \in Refunds,
               Create(r) \/ Park(r) \/ Refuse(r) \/ Reject(r) \/ Webhook(r)
        PROVE  OneRunner' /\ Holding'
    BY <1>1, <1>2 DEF Create, Park, Refuse, Reject, Webhook
  <1>3. ASSUME NEW p \in Procs, NEW r \in Refunds,
               Submit(p, r) \/ Approve(p, r) \/ Reconcile(p, r)
        PROVE  OneRunner' /\ Holding'
    <2>0. <<r, "refund">> \in Effects /\ <<r, "lookup">> \in Effects
      BY DEF Effects
    <2>1. CASE Submit(p, r)
      BY <2>0, <2>1, EnqueueKeepsRunner DEF Submit, CommitSubmit
    <2>2. CASE Approve(p, r)
      BY <2>2 DEF Approve, OneRunner, Holding, Busy, TypeOK
    <2>3. CASE Reconcile(p, r)
      BY <2>0, <2>3, EnqueueKeepsRunner DEF Reconcile
    <2> QED
      BY <1>3, <2>1, <2>2, <2>3
  <1>4. ASSUME NEW p \in Procs, NEW e \in Effects, SweepClaim(p, e)
        PROVE  OneRunner' /\ Holding'
    BY <1>4, TakeKeepsRunner DEF SweepClaim, Busy
  <1>5. ASSUME NEW p \in Procs, Step(p)
        PROVE  OneRunner' /\ Holding'
    <2>0. job[p] \in Effects
      BY DEF TypeOK
    <2>1. CASE Replay(p)
      <3>1. <<Refund(job[p]), "refund">> \in Effects
        BY <2>0 DEF Effects, Refund
      <3> QED
        BY <2>1, <3>1, EnqueueKeepsRunner DEF Replay, CommitSubmit
    <2>2. CASE Claim(p)
      <3>1. job' = [job EXCEPT ![p] = job[p]]
        BY <2>2 DEF Claim, TypeOK
      <3> QED
        BY <2>0, <2>2, <3>1, TakeKeepsRunner DEF Claim, Busy
    <2>3. CASE ReplayStale(p) \/ ClaimNothing(p) \/ CallRefund(p) \/ CallLookup(p) \/ Settle(p)
      BY <2>3, ReleaseKeepsRunner
         DEF ReplayStale, ClaimNothing, CallRefund, CallLookup, Settle, SettleTo, Answered,
             Busy, TypeOK
    <2>4. CASE Finish(p) \/ Requeue(p) \/ Abort(p)
      BY <2>4, ReleaseKeepsRunner DEF Finish, Requeue, Abort, Reopen, Return, Busy, TypeOK
    <2> QED
      BY <1>5, <2>1, <2>2, <2>3, <2>4 DEF Step
  <1>6. ASSUME NEW p \in Procs,
               CallThrows(p) \/ SettleThrows(p) \/ FinishThrows(p) \/ Crash(p)
        PROVE  OneRunner' /\ Holding'
    BY <1>6, ReleaseKeepsRunner
       DEF CallThrows, SettleThrows, FinishThrows, Crash, Answered, SettleTo, Busy, TypeOK
  <1>7. CASE UNCHANGED vars
    BY <1>1, <1>7 DEF vars
  <1> QED
    BY <1>2, <1>3, <1>4, <1>5, <1>6, <1>7 DEF Next

-----------------------------------------------------------------------------
(* A row exists exactly for the refunds that left the drafts, and a call   *)
(* that is over has settled.                                               *)

Settling == RowExists /\ TerminalMeansSettled /\ FinishSettled /\ AnswerKind

(* A settlement moves a refund only if it is in flight, never back to the  *)
(* drafts or to 'submitted', and every refund answer moves it.             *)
LEMMA AfterSettleFacts ==
    ASSUME NEW s, NEW kind, NEW a
    PROVE  /\ AfterSettle(s, kind, a) # s =>
                 s \in Unsettled /\ AfterSettle(s, kind, a) \in {"succeeded", "failed", "unknown"}
           /\ kind = "refund" /\ a \in {"succeeded", "unknown", "declined", "transient"}
                 => AfterSettle(s, kind, a) # "submitted"
  BY DEF AfterSettle, Unsettled

(* Any step that moves only in-flight refunds to settled states and takes  *)
(* no row to or from "none" or to a terminal status keeps Settling, if it  *)
(* brings nobody to 'settle' or 'finish'.                                  *)
LEMMA QuietStep ==
    ASSUME TypeOK, Settling,
           \A r \in Refunds : state'[r] # state[r] =>
                \/ state[r] \in Unsettled /\ state'[r] \in {"succeeded", "failed", "unknown"}
                \/ state[r] \in OpenStates /\ state'[r] \in OpenStates,
           \A e \in Effects : row'[e] # row[e] => row[e] # "none" /\ row'[e] \in {"queued", "running"},
           UNCHANGED attempt,
           \A p \in Procs : pc'[p] \in {"settle", "finish"} =>
                pc'[p] = pc[p] /\ job'[p] = job[p] /\ outcome'[p] = outcome[p] /\ job[p] \in Effects
    PROVE  Settling'
  <1>0. \A r \in Refunds : <<r, "refund">> \in Effects
    BY DEF Effects
  <1>1. RowExists'
    BY <1>0 DEF Settling, RowExists, OpenStates, Unsettled
  <1>2. TerminalMeansSettled'
    BY <1>0 DEF Settling, TerminalMeansSettled, Terminal, Unsettled, OpenStates
  <1>3. FinishSettled'
    <2>1. \A e \in Effects : Refund(e) \in Refunds
      BY DEF Effects, Refund
    <2> QED
      BY <2>1 DEF Settling, FinishSettled, Unsettled, OpenStates
  <1>4. AnswerKind'
    BY DEF Settling, AnswerKind
  <1> QED
    BY <1>1, <1>2, <1>3, <1>4 DEF Settling

(* The submit transaction: a draft has no row, hence no process at         *)
(* 'finish' for it, and the new row is only queued.                        *)
LEMMA SubmitSettling ==
    ASSUME TypeOK, Holding, Settling, NEW p \in Procs, NEW r \in Refunds,
           CommitSubmit(p, r), UNCHANGED <<attempt, outcome>>
    PROVE  Settling'
  <1> DEFINE e == <<r, "refund">>
  <1>1. e \in Effects /\ row[e] = "none" /\ state[r] = "draft"
    BY DEF CommitSubmit, Effects, Settling, RowExists, OpenStates
  <1>2. /\ row' = [row EXCEPT ![e] = "queued"]
        /\ pc' = [pc EXCEPT ![p] = "claim"]
        /\ job' = [job EXCEPT ![p] = e]
        /\ state' = [state EXCEPT ![r] = "submitted"]
    BY <1>1 DEF CommitSubmit, Enqueue
  <1>3. \A s \in Refunds : <<s, "refund">> \in Effects /\ (<<s, "refund">> = e => s = r)
    BY DEF Effects
  <1>4. RowExists'
    BY <1>1, <1>2, <1>3 DEF Settling, RowExists, OpenStates, TypeOK
  <1>5. TerminalMeansSettled'
    BY <1>1, <1>2, <1>3 DEF Settling, TerminalMeansSettled, Terminal, TypeOK
  <1>6. FinishSettled'
    <2> SUFFICES ASSUME NEW q \in Procs, pc'[q] = "finish", Kind(job'[q]) = "refund"
                 PROVE  state'[Refund(job'[q])] # "submitted"
      BY DEF FinishSettled
    <2>1. q # p /\ pc[q] = "finish" /\ job'[q] = job[q] /\ job[q] \in Effects
      BY <1>2 DEF TypeOK
    <2>2. row[job[q]] = "running"
      BY <2>1 DEF Holding, Busy
    <2>3. job[q] = <<Refund(job[q]), "refund">> /\ Refund(job[q]) \in Refunds
      BY <2>1 DEF Effects, Kind, Refund
    <2>4. Refund(job[q]) # r
      BY <1>1, <2>2, <2>3
    <2> QED
      BY <1>2, <2>1, <2>3, <2>4 DEF Settling, FinishSettled, TypeOK
  <1>7. AnswerKind'
    BY <1>2 DEF Settling, AnswerKind, TypeOK
  <1> QED
    BY <1>4, <1>5, <1>6, <1>7 DEF Settling

(* Reconciling enqueues a lookup row, about which Settling says nothing.   *)
LEMMA ReconcileSettling ==
    ASSUME TypeOK, Settling, NEW p \in Procs, NEW r \in Refunds, Reconcile(p, r)
    PROVE  Settling'
  <1>1. <<r, "lookup">> \in Effects /\ \A s \in Refunds : <<s, "refund">> # <<r, "lookup">>
    BY DEF Effects
  <1>2. /\ UNCHANGED <<state, attempt, outcome>>
        /\ \A e \in Effects : e # <<r, "lookup">> => row'[e] = row[e]
        /\ \A q \in Procs : q # p => pc'[q] = pc[q] /\ job'[q] = job[q]
        /\ pc'[p] \in {"claim", "idle"}
    BY <1>1 DEF Reconcile, Enqueue, TypeOK, domainVars
  <1>3. \A s \in Refunds : <<s, "refund">> \in Effects
    BY DEF Effects
  <1> QED
    BY <1>1, <1>2, <1>3
       DEF Settling, RowExists, TerminalMeansSettled, FinishSettled, AnswerKind

LEMMA SettlingStep == TypeOK /\ Holding /\ Settling /\ [Next]_vars => Settling'
  <1> SUFFICES ASSUME TypeOK, Holding, Settling, [Next]_vars PROVE Settling'
    OBVIOUS
  <1> USE DEF rowVars, procVars, domainVars
  <1>1. ASSUME NEW r \in Refunds,
               Create(r) \/ Park(r) \/ Refuse(r) \/ Reject(r) \/ Webhook(r)
        PROVE  Settling'
    BY <1>1, QuietStep, AfterSettleFacts
       DEF Create, Park, Refuse, Reject, Webhook, TypeOK, OpenStates
  <1>2. ASSUME NEW p \in Procs, NEW r \in Refunds,
               Submit(p, r) \/ Approve(p, r) \/ Reconcile(p, r)
        PROVE  Settling'
    <2>1. CASE Submit(p, r)
      BY <2>1, SubmitSettling DEF Submit
    <2>2. CASE Approve(p, r)
      BY <2>2, QuietStep DEF Approve, TypeOK
    <2>3. CASE Reconcile(p, r)
      BY <2>3, ReconcileSettling
    <2> QED
      BY <1>2, <2>1, <2>2, <2>3
  <1>3. ASSUME NEW p \in Procs, NEW e \in Effects, SweepClaim(p, e)
        PROVE  Settling'
    BY <1>3, QuietStep DEF SweepClaim, Take, Claimable, TypeOK
  <1>4. ASSUME NEW p \in Procs, Step(p)
        PROVE  Settling'
    <2>0. job[p] \in Effects /\ Refund(job[p]) \in Refunds
      BY DEF TypeOK, Effects, Refund
    <2>1. CASE Replay(p)
      BY <2>0, <2>1, SubmitSettling DEF Replay
    <2>2. CASE ReplayStale(p) \/ Claim(p) \/ ClaimNothing(p)
      BY <2>0, <2>2, QuietStep DEF ReplayStale, Claim, ClaimNothing, Take, Claimable, TypeOK
    <2>3. CASE CallRefund(p)
      <3>1. PICK a \in RefundAnswers(Refund(job[p])) :
              /\ attempt' = [attempt EXCEPT ![Refund(job[p])] = IF a = "transient" THEN @ ELSE a]
              /\ Answered(p, Report(a))
        BY <2>3 DEF CallRefund
      <3>2. Report(a) \in {"succeeded", "unknown", "declined", "transient"}
        BY <2>0 DEF RefundAnswers, Report, TypeOK
      <3>3. Kind(job[p]) = "refund" /\ row[job[p]] = "running" /\ UNCHANGED <<state, row, job>>
        BY <2>3 DEF CallRefund, Holding, Busy
      <3>4. job[p] = <<Refund(job[p]), "refund">>
        BY <2>0, <3>3 DEF Effects, Kind, Refund
      <3>5. state[Refund(job[p])] \notin OpenStates
        BY <2>0, <3>3, <3>4 DEF Settling, RowExists
      <3>6. RowExists'
        <4>1. \A s \in Refunds : s # Refund(job[p]) => attempt'[s] = attempt[s]
          BY <3>1 DEF TypeOK
        <4> QED
          BY <3>3, <3>5, <4>1 DEF Settling, RowExists
      <3>7. TerminalMeansSettled' /\ FinishSettled' /\ AnswerKind'
        BY <3>1, <3>2, <3>3
           DEF Settling, TerminalMeansSettled, FinishSettled, AnswerKind, Answered, TypeOK
      <3> QED
        BY <3>6, <3>7 DEF Settling
    <2>4. CASE CallLookup(p)
      BY <2>0, <2>4
         DEF CallLookup, Answered, LookupAnswer, Settling, RowExists, TerminalMeansSettled,
             FinishSettled, AnswerKind, TypeOK
    <2>5. CASE Settle(p)
      <3> DEFINE r == Refund(job[p])
      <3>1. /\ state' = [state EXCEPT ![r] = AfterSettle(state[r], Kind(job[p]), outcome[p])]
            /\ pc' = [pc EXCEPT ![p] = "finish"]
            /\ UNCHANGED <<row, attempt, job, outcome>> /\ pc[p] = "settle"
        BY <2>5 DEF Settle, SettleTo
      <3>2. \A s \in Refunds : state'[s] # state[s] =>
              state[s] \in Unsettled /\ state'[s] \in {"succeeded", "failed", "unknown"}
        BY <2>0, <3>1, AfterSettleFacts DEF TypeOK
      <3>3. Kind(job[p]) = "refund" => state'[r] # "submitted"
        BY <2>0, <3>1, AfterSettleFacts DEF TypeOK, Settling, AnswerKind
      <3>4. RowExists'
        BY <3>1, <3>2 DEF Settling, RowExists, OpenStates, Unsettled
      <3>5. TerminalMeansSettled'
        BY <3>1, <3>2 DEF Settling, TerminalMeansSettled
      <3>6. FinishSettled'
        <4>1. \A q \in Procs : Refund(job[q]) \in Refunds
          BY DEF TypeOK, Effects, Refund
        <4> QED
          BY <3>1, <3>2, <3>3, <4>1 DEF Settling, FinishSettled, TypeOK
      <3>7. AnswerKind'
        BY <3>1 DEF Settling, AnswerKind, TypeOK
      <3> QED
        BY <3>4, <3>5, <3>6, <3>7 DEF Settling
    <2>6. CASE Finish(p)
      <3>1. /\ row' = [row EXCEPT ![job[p]] = Status(outcome[p])]
            /\ pc' = [pc EXCEPT ![p] = "idle"]
            /\ UNCHANGED <<state, attempt, job, outcome>> /\ pc[p] = "finish"
        BY <2>6 DEF Finish, Return
      <3>2. row[job[p]] = "running" /\ Status(outcome[p]) # "none"
        BY <3>1 DEF Holding, Busy, Status
      <3>3. \A r \in Refunds : <<r, "refund">> \in Effects /\
              (<<r, "refund">> = job[p] => Kind(job[p]) = "refund" /\ Refund(job[p]) = r)
        BY DEF Effects, Kind, Refund
      <3>4. RowExists'
        BY <2>0, <3>1, <3>2, <3>3 DEF Settling, RowExists, TypeOK
      <3>5. TerminalMeansSettled'
        BY <2>0, <3>1, <3>3 DEF Settling, TerminalMeansSettled, FinishSettled, TypeOK
      <3>6. FinishSettled' /\ AnswerKind'
        BY <3>1 DEF Settling, FinishSettled, AnswerKind, TypeOK
      <3> QED
        BY <3>4, <3>5, <3>6 DEF Settling
    <2>7. CASE Requeue(p) \/ Abort(p)
      BY <2>0, <2>7, QuietStep DEF Requeue, Abort, Reopen, Return, Holding, Busy, TypeOK
    <2> QED
      BY <1>4, <2>1, <2>2, <2>3, <2>4, <2>5, <2>6, <2>7 DEF Step
  <1>5. ASSUME NEW p \in Procs,
               CallThrows(p) \/ SettleThrows(p) \/ FinishThrows(p) \/ Crash(p)
        PROVE  Settling'
    <2>0. job[p] \in Effects /\ Refund(job[p]) \in Refunds
      BY DEF TypeOK, Effects, Refund
    <2>1. CASE CallThrows(p)
      BY <2>0, <2>1
         DEF CallThrows, Answered, Settling, RowExists, TerminalMeansSettled,
             FinishSettled, AnswerKind, TypeOK
    <2>2. CASE SettleThrows(p)
      <3>1. \A s \in Refunds : state'[s] # state[s] =>
              state[s] \in Unsettled /\ state'[s] \in {"succeeded", "failed", "unknown"}
        BY <2>0, <2>2, AfterSettleFacts DEF SettleThrows, SettleTo, TypeOK
      <3> QED
        BY <2>0, <2>2, <3>1, QuietStep DEF SettleThrows, SettleTo, TypeOK
    <2>3. CASE FinishThrows(p) \/ Crash(p)
      BY <2>0, <2>3, QuietStep DEF FinishThrows, Crash, TypeOK
    <2> QED
      BY <1>5, <2>1, <2>2, <2>3
  <1>6. CASE UNCHANGED vars
    BY <1>6, QuietStep DEF vars, TypeOK
  <1> QED
    BY <1>1, <1>2, <1>3, <1>4, <1>5, <1>6 DEF Next

-----------------------------------------------------------------------------
(* Retries.                                                                *)

RetryParts == RetriesBounded /\ RetryPaid

(* Steps that take no row and start no requeue keep the account, as faults *)
(* are only ever added.                                                    *)
LEMMA RetryQuiet ==
    ASSUME TypeOK, RetryParts, UNCHANGED attempts,
           faults' \in Nat, faults <= faults',
           \A e \in Effects : row'[e] # row[e] =>
                /\ row'[e] # "none"
                /\ row'[e] = "queued" => attempts[e] < MaxAttempts + faults',
           \A p \in Procs : pc'[p] \in {"requeue", "abort"} =>
                /\ job'[p] = job[p]
                /\ pc[p] = pc'[p] \/ attempts[job[p]] < MaxAttempts + faults'
    PROVE  RetryParts'
  <1>1. MaxAttempts \in Nat /\ faults \in Nat /\ attempts \in [Effects -> Nat]
    BY AttemptsAssumption DEF TypeOK
  <1>2. \A p \in Procs : job[p] \in Effects
    BY DEF TypeOK
  <1> QED
    BY <1>1, <1>2 DEF RetryParts, RetriesBounded, RetryPaid

LEMMA RetryEnqueue ==
    ASSUME TypeOK, RetryParts, NEW p \in Procs, NEW e \in Effects, Enqueue(p, e),
           UNCHANGED <<attempts, faults>>
    PROVE  RetryParts'
  <1>1. MaxAttempts \in Nat \ {0} /\ faults \in Nat /\ attempts \in [Effects -> Nat]
    BY AttemptsAssumption DEF TypeOK
  <1>2. \A d \in Effects : row'[d] # row[d] => row[d] = "none" /\ row'[d] = "queued"
    BY DEF Enqueue, TypeOK
  <1>3. \A q \in Procs : pc'[q] \in {"requeue", "abort"} => pc'[q] = pc[q] /\ job'[q] = job[q]
    BY DEF Enqueue, TypeOK
  <1>4. \A d \in Effects : row[d] = "none" => attempts[d] < MaxAttempts + faults
    BY <1>1 DEF RetryParts, RetryPaid
  <1> QED
    BY <1>1, <1>2, <1>3, <1>4, RetryQuiet

(* Taking a row uses the attempt that was left or paid for by a fault.     *)
LEMMA RetryTake ==
    ASSUME TypeOK, RetryParts, Holding, NEW p \in Procs, NEW e \in Effects, Take(p, e),
           ~Busy(p), \A q \in Procs \ {p} : job'[q] = job[q], UNCHANGED faults
    PROVE  RetryParts'
  <1>1. MaxAttempts \in Nat /\ faults \in Nat /\ attempts \in [Effects -> Nat]
    BY AttemptsAssumption DEF TypeOK
  <1>2. /\ attempts' = [attempts EXCEPT ![e] = attempts[e] + 1]
        /\ row[e] = "queued" /\ row' = [row EXCEPT ![e] = "running"]
        /\ pc' = [pc EXCEPT ![p] = "call"]
    BY DEF Take, Claimable
  <1>3. attempts[e] < MaxAttempts + faults
    BY <1>2 DEF RetryParts, RetryPaid
  <1>4. RetriesBounded'
    BY <1>1, <1>2, <1>3 DEF RetryParts, RetriesBounded
  <1>5. \A q \in Procs : pc'[q] \in {"requeue", "abort"} =>
          q # p /\ pc[q] = pc'[q] /\ job'[q] = job[q] /\ job[q] # e /\ job[q] \in Effects
    BY <1>2 DEF TypeOK, Holding, Busy
  <1>6. RetryPaid'
    BY <1>1, <1>2, <1>5 DEF RetryParts, RetryPaid, TypeOK
  <1> QED
    BY <1>4, <1>6 DEF RetryParts

LEMMA RetryStep == TypeOK /\ Holding /\ RetryParts /\ [Next]_vars => RetryParts'
  <1> SUFFICES ASSUME TypeOK, Holding, RetryParts, [Next]_vars PROVE RetryParts'
    OBVIOUS
  <1> USE DEF rowVars, procVars, domainVars
  <1>0. MaxAttempts \in Nat /\ faults \in Nat /\ attempts \in [Effects -> Nat]
    BY AttemptsAssumption DEF TypeOK
  <1>1. ASSUME NEW r \in Refunds,
               Create(r) \/ Park(r) \/ Refuse(r) \/ Reject(r) \/ Webhook(r)
        PROVE  RetryParts'
    BY <1>0, <1>1, RetryQuiet DEF Create, Park, Refuse, Reject, Webhook
  <1>2. ASSUME NEW p \in Procs, NEW r \in Refunds,
               Submit(p, r) \/ Approve(p, r) \/ Reconcile(p, r)
        PROVE  RetryParts'
    <2>0. <<r, "refund">> \in Effects /\ <<r, "lookup">> \in Effects
      BY DEF Effects
    <2>1. CASE Submit(p, r)
      BY <2>0, <2>1, RetryEnqueue DEF Submit, CommitSubmit
    <2>2. CASE Approve(p, r)
      BY <1>0, <2>2, RetryQuiet DEF Approve, TypeOK
    <2>3. CASE Reconcile(p, r)
      BY <2>0, <2>3, RetryEnqueue DEF Reconcile
    <2> QED
      BY <1>2, <2>1, <2>2, <2>3
  <1>3. ASSUME NEW p \in Procs, NEW e \in Effects, SweepClaim(p, e)
        PROVE  RetryParts'
    BY <1>3, RetryTake DEF SweepClaim, Busy, TypeOK
  <1>4. ASSUME NEW p \in Procs, Step(p)
        PROVE  RetryParts'
    <2>0. job[p] \in Effects /\ <<Refund(job[p]), "refund">> \in Effects
      BY DEF TypeOK, Effects, Refund
    <2>1. CASE Replay(p)
      BY <2>0, <2>1, RetryEnqueue DEF Replay, CommitSubmit
    <2>2. CASE Claim(p)
      BY <2>0, <2>2, RetryTake DEF Claim, Busy
    <2>3. CASE ReplayStale(p) \/ ClaimNothing(p) \/ Settle(p)
      BY <1>0, <2>3, RetryQuiet DEF ReplayStale, ClaimNothing, Settle, SettleTo, TypeOK
    <2>4. CASE CallRefund(p) \/ CallLookup(p)
      <3>1. PICK a : Answered(p, a)
        BY <2>4 DEF CallRefund, CallLookup
      <3>2. \A q \in Procs : pc'[q] \in {"requeue", "abort"} =>
              pc'[q] = pc[q] \/ attempts[job[q]] < MaxAttempts + faults
        BY <1>0, <2>0, <3>1 DEF Answered, Retries, TypeOK
      <3> QED
        BY <1>0, <2>4, <3>2, RetryQuiet DEF CallRefund, CallLookup
    <2>5. CASE Finish(p)
      BY <1>0, <2>0, <2>5, RetryQuiet DEF Finish, Return, Status, TypeOK
    <2>6. CASE Requeue(p) \/ Abort(p)
      <3>1. attempts[job[p]] < MaxAttempts + faults
        BY <2>6 DEF Requeue, Abort, Reopen, RetryParts, RetryPaid
      <3> QED
        BY <1>0, <2>0, <2>6, <3>1, RetryQuiet DEF Requeue, Abort, Reopen, Return, TypeOK
    <2> QED
      BY <1>4, <2>1, <2>2, <2>3, <2>4, <2>5, <2>6 DEF Step
  <1>5. ASSUME NEW p \in Procs,
               CallThrows(p) \/ SettleThrows(p) \/ FinishThrows(p) \/ Crash(p)
        PROVE  RetryParts'
    <2>0. faults' = faults + 1 /\ UNCHANGED <<row, attempts, job>> /\ job[p] \in Effects
      BY <1>5 DEF CallThrows, SettleThrows, FinishThrows, Crash, Fault, SettleTo, TypeOK
    <2>1. \A q \in Procs : attempts[job[q]] < MaxAttempts + faults'
      BY <1>0, <2>0 DEF RetryParts, RetriesBounded, TypeOK
    <2> QED
      BY <1>0, <2>0, <2>1, RetryQuiet
  <1>6. CASE UNCHANGED vars
    BY <1>0, <1>6, RetryQuiet DEF vars
  <1> QED
    BY <1>1, <1>2, <1>3, <1>4, <1>5, <1>6 DEF Next

-----------------------------------------------------------------------------
(* The captured amount.                                                    *)

(* A submit that passed the guard keeps the total within the captured      *)
(* amount: the set in flight grows by exactly the refund the guard added.  *)
LEMMA SubmitCaptured ==
    ASSUME TypeOK, WithinCaptured, NEW p \in Procs, NEW r \in Refunds, CommitSubmit(p, r)
    PROVE  WithinCaptured'
  <1>1. state[r] = "draft" /\ state' = [state EXCEPT ![r] = "submitted"]
    BY DEF CommitSubmit
  <1>2. Committed' = Committed \union {r} /\ r \notin Committed
    BY <1>1 DEF Committed, TypeOK
  <1>3. Committed \in SUBSET Refunds /\ Committed \ {r} = Committed
    BY <1>2 DEF Committed
  <1>4. Total[Committed] + Amount[r] <= Captured
    BY <1>3 DEF CommitSubmit, WithinCapturedAmount
  <1>5. Total[Committed'] = Total[Committed] + Amount[r]
    BY <1>2, <1>3, TotalAssumption
  <1>6. Total[Committed'] <= Captured
    BY <1>4, <1>5
  <1> QED
    BY <1>6 DEF WithinCaptured, Committed

(* Any other step only takes refunds out of flight, never into it.         *)
LEMMA ShrinkCaptured ==
    ASSUME TypeOK, WithinCaptured,
           \A r \in Refunds : state'[r] # state[r] =>
                state[r] \in Unsettled \/ state'[r] \in OpenStates
    PROVE  WithinCaptured'
  <1> DEFINE InFlight == {r \in Refunds : state[r] \in {"submitted", "unknown", "succeeded"}}
  <1>1. InFlight' \subseteq InFlight /\ InFlight \in SUBSET Refunds
    BY DEF Unsettled, OpenStates
  <1>2. Total[InFlight'] <= Total[InFlight]
    BY <1>1, TotalMonotone
  <1>3. Total[InFlight'] \in Nat /\ Total[InFlight] \in Nat /\ Captured \in Nat
    BY TotalAssumption, CapturedAssumption
  <1>4. Total[InFlight] <= Captured
    BY DEF WithinCaptured
  <1> QED
    BY <1>2, <1>3, <1>4 DEF WithinCaptured

(* Which steps move which refund, and which touch the processor's memory:  *)
(* the submit transaction; a step that moves one draft to a draft or one   *)
(* in-flight refund to a verdict; the processor call; or neither.          *)
MovesOne ==
    \E r \in Refunds : \E s \in {"draft", "rejected", "succeeded", "failed", "unknown"} :
        /\ state' = [state EXCEPT ![r] = s]
        /\ UNCHANGED attempt
        /\ \/ state[r] \in Unsettled /\ s \in {"succeeded", "failed", "unknown"}
           \/ state[r] \in {"absent", "draft"} /\ s \in OpenStates

Quiet == UNCHANGED <<state, attempt>>

LEMMA MoveStep ==
    TypeOK /\ [Next]_vars =>
        \/ \E p \in Procs, r \in Refunds : CommitSubmit(p, r) /\ UNCHANGED attempt
        \/ MovesOne
        \/ \E p \in Procs : CallRefund(p)
        \/ Quiet
  <1> SUFFICES ASSUME TypeOK, [Next]_vars
               PROVE  \/ \E p \in Procs, r \in Refunds : CommitSubmit(p, r) /\ UNCHANGED attempt
                      \/ MovesOne
                      \/ \E p \in Procs : CallRefund(p)
                      \/ Quiet
    OBVIOUS
  <1> USE DEF rowVars, procVars, domainVars, Quiet
  <1>1. ASSUME NEW r \in Refunds, NEW kind, NEW a, UNCHANGED attempt,
               state' = [state EXCEPT ![r] = AfterSettle(@, kind, a)]
        PROVE  MovesOne \/ Quiet
    <2>1. CASE AfterSettle(state[r], kind, a) = state[r]
      BY <1>1, <2>1 DEF TypeOK
    <2>2. CASE AfterSettle(state[r], kind, a) # state[r]
      BY <1>1, <2>2, AfterSettleFacts DEF MovesOne
    <2> QED
      BY <2>1, <2>2
  <1>2. ASSUME NEW r \in Refunds,
               Create(r) \/ Park(r) \/ Refuse(r) \/ Reject(r) \/ Webhook(r)
        PROVE  MovesOne \/ Quiet
    <2>1. CASE Create(r) \/ Reject(r)
      BY <2>1 DEF Create, Reject, MovesOne, OpenStates
    <2>2. CASE Park(r) \/ Refuse(r)
      BY <2>2 DEF Park, Refuse
    <2>3. CASE Webhook(r)
      BY <1>1, <2>3 DEF Webhook
    <2> QED
      BY <1>2, <2>1, <2>2, <2>3
  <1>3. ASSUME NEW p \in Procs, Settle(p) \/ SettleThrows(p)
        PROVE  MovesOne \/ Quiet
    <2>1. Refund(job[p]) \in Refunds
      BY DEF TypeOK, Effects, Refund
    <2>2. CASE SettleTo(p, "finish") \/ SettleTo(p, "requeue")
      BY <1>1, <1>3, <2>1, <2>2 DEF Settle, SettleThrows, SettleTo
    <2>3. CASE UNCHANGED state
      BY <1>3, <2>3 DEF Settle, SettleThrows
    <2> QED
      BY <1>3, <2>2, <2>3 DEF Settle, SettleThrows
  <1>4. ASSUME NEW p \in Procs, Replay(p)
        PROVE  \E r \in Refunds : CommitSubmit(p, r) /\ UNCHANGED attempt
    BY <1>4 DEF Replay, Refund, Effects, TypeOK
  <1>5. ASSUME NEW p \in Procs, NEW r \in Refunds, Submit(p, r)
        PROVE  CommitSubmit(p, r) /\ UNCHANGED attempt
    BY <1>5 DEF Submit
  <1>6. ASSUME NEW p \in Procs, NEW r \in Refunds, Approve(p, r) \/ Reconcile(p, r)
        PROVE  Quiet
    BY <1>6 DEF Approve, Reconcile
  <1>7. ASSUME NEW p \in Procs, NEW e \in Effects, SweepClaim(p, e)
        PROVE  Quiet
    BY <1>7 DEF SweepClaim
  <1>8. ASSUME NEW p \in Procs,
               \/ ReplayStale(p) \/ Claim(p) \/ ClaimNothing(p)
               \/ CallLookup(p) \/ Finish(p) \/ Requeue(p) \/ Abort(p)
               \/ CallThrows(p) \/ FinishThrows(p) \/ Crash(p)
        PROVE  Quiet
    BY <1>8 DEF ReplayStale, Claim, ClaimNothing, CallLookup, Finish, Requeue,
                Abort, CallThrows, FinishThrows, Crash
  <1>9. CASE UNCHANGED vars
    BY <1>9 DEF vars
  <1> QED
    BY <1>2, <1>3, <1>4, <1>5, <1>6, <1>7, <1>8, <1>9 DEF Next, Step

LEMMA CapturedStep == TypeOK /\ WithinCaptured /\ [Next]_vars => WithinCaptured'
  <1> SUFFICES ASSUME TypeOK, WithinCaptured, [Next]_vars PROVE WithinCaptured'
    OBVIOUS
  <1>1. CASE MovesOne
    BY <1>1, ShrinkCaptured DEF MovesOne, TypeOK
  <1>2. CASE (\E p \in Procs : CallRefund(p)) \/ Quiet
    BY <1>2, ShrinkCaptured DEF CallRefund, Quiet, domainVars
  <1> QED
    BY <1>1, <1>2, MoveStep, SubmitCaptured

-----------------------------------------------------------------------------
(* Stranded rows.                                                          *)

LEMMA EffectsFinite == IsFiniteSet(Effects)
  <1>1. IsFiniteSet({"refund", "lookup"})
    <2>1. IsFiniteSet({} \union {"refund"})
      BY FS_EmptySet, FS_AddElement
    <2>2. IsFiniteSet(({} \union {"refund"}) \union {"lookup"})
      BY <2>1, FS_AddElement
    <2>3. ({} \union {"refund"}) \union {"lookup"} = {"refund", "lookup"}
      OBVIOUS
    <2> QED
      BY <2>2, <2>3
  <1> QED
    BY <1>1, RefundsAssumption, FS_Product DEF Effects

(* No row is stranded by a step that leaves no process without the row it  *)
(* has in hand, unless it releases it, and sets no row running by itself.  *)
LEMMA StrandedQuiet ==
    ASSUME \A p \in Procs : InHand(p) => \/ InHand(p)' /\ job'[p] = job[p]
                                         \/ row'[job[p]] # "running",
           \A e \in Effects : row'[e] = "running" =>
                row[e] = "running" \/ \E p \in Procs : InHand(p)' /\ job'[p] = e
    PROVE  Stranded' \subseteq Stranded
  BY DEF Stranded

(* A step strands no row, or it is a fault, and strands one at most.       *)
LEMMA StrandedMoves ==
    ASSUME TypeOK, Holding, [Next]_vars
    PROVE  \/ Stranded' \subseteq Stranded /\ faults' \in {faults, faults + 1}
           \/ \E e \in Effects : Stranded' \subseteq Stranded \union {e} /\ faults' = faults + 1
  <1> USE DEF rowVars, procVars, domainVars
  <1>1. ASSUME NEW r \in Refunds,
               Create(r) \/ Park(r) \/ Refuse(r) \/ Reject(r) \/ Webhook(r)
        PROVE  Stranded' \subseteq Stranded /\ faults' = faults
    BY <1>1, StrandedQuiet DEF Create, Park, Refuse, Reject, Webhook, InHand
  <1>2. ASSUME NEW p \in Procs, NEW e \in Effects, Enqueue(p, e), ~InHand(p)
        PROVE  Stranded' \subseteq Stranded
    <2>1. \A q \in Procs : InHand(q) => InHand(q)' /\ job'[q] = job[q]
      BY <1>2 DEF Enqueue, InHand, TypeOK
    <2>2. \A d \in Effects : row'[d] = "running" => row[d] = "running"
      BY <1>2 DEF Enqueue, TypeOK
    <2> QED
      BY <2>1, <2>2, StrandedQuiet
  <1>3. ASSUME NEW p \in Procs, NEW e \in Effects, Take(p, e), ~InHand(p), job'[p] = e,
               \A q \in Procs \ {p} : job'[q] = job[q]
        PROVE  Stranded' \subseteq Stranded
    <2>1. \A q \in Procs : InHand(q) => InHand(q)' /\ job'[q] = job[q]
      BY <1>3 DEF Take, InHand, TypeOK
    <2>2. InHand(p)'
      BY <1>3 DEF Take, InHand, TypeOK
    <2>3. \A d \in Effects : row'[d] = "running" => row[d] = "running" \/ d = e
      BY <1>3 DEF Take, TypeOK
    <2> QED
      BY <1>3, <2>1, <2>2, <2>3, StrandedQuiet
  <1>4. ASSUME NEW p \in Procs, NEW r \in Refunds, Submit(p, r) \/ Approve(p, r) \/ Reconcile(p, r)
        PROVE  Stranded' \subseteq Stranded /\ faults' = faults
    <2>1. CASE Approve(p, r)
      BY <2>1, StrandedQuiet DEF Approve, InHand, TypeOK
    <2>2. <<r, "refund">> \in Effects /\ <<r, "lookup">> \in Effects
      BY DEF Effects
    <2> QED
      BY <1>2, <1>4, <2>1, <2>2 DEF Submit, CommitSubmit, Reconcile, InHand
  <1>5. ASSUME NEW p \in Procs, NEW e \in Effects, SweepClaim(p, e)
        PROVE  Stranded' \subseteq Stranded /\ faults' = faults
    BY <1>3, <1>5 DEF SweepClaim, InHand, TypeOK
  <1>6. ASSUME NEW p \in Procs, Step(p)
        PROVE  Stranded' \subseteq Stranded /\ faults' = faults
    <2>0. job[p] \in Effects /\ <<Refund(job[p]), "refund">> \in Effects
      BY DEF TypeOK, Effects, Refund
    <2>1. CASE Replay(p)
      BY <1>2, <2>0, <2>1 DEF Replay, CommitSubmit, InHand
    <2>2. CASE ReplayStale(p) \/ ClaimNothing(p)
      BY <2>2, StrandedQuiet DEF ReplayStale, ClaimNothing, InHand, TypeOK
    <2>3. CASE Claim(p)
      BY <1>3, <2>0, <2>3 DEF Claim, InHand
    <2>4. CASE CallRefund(p) \/ CallLookup(p) \/ Settle(p)
      BY <2>4, StrandedQuiet DEF CallRefund, CallLookup, Settle, SettleTo, Answered, InHand, TypeOK
    <2>5. CASE Finish(p) \/ Requeue(p) \/ Abort(p)
      <3>1. /\ \A q \in Procs \ {p} : InHand(q) => InHand(q)'
            /\ InHand(p) => row'[job[p]] # "running"
            /\ UNCHANGED <<job, faults>>
            /\ \A e \in Effects : row'[e] = "running" => row[e] = "running"
        BY <2>0, <2>5 DEF Finish, Requeue, Abort, Reopen, Return, Status, InHand, TypeOK
      <3> QED
        BY <3>1, StrandedQuiet
    <2> QED
      BY <1>6, <2>1, <2>2, <2>3, <2>4, <2>5 DEF Step
  <1>7. ASSUME NEW p \in Procs,
               CallThrows(p) \/ SettleThrows(p) \/ FinishThrows(p) \/ Crash(p)
        PROVE  /\ job[p] \in Effects /\ Stranded' \subseteq Stranded \union {job[p]}
               /\ faults' = faults + 1
    <2>1. /\ \A q \in Procs \ {p} : pc'[q] = pc[q]
          /\ UNCHANGED <<row, job>> /\ faults' = faults + 1
      BY <1>7 DEF CallThrows, SettleThrows, FinishThrows, Crash, SettleTo, Answered, Fault, TypeOK
    <2> QED
      BY <2>1 DEF Stranded, InHand, TypeOK
  <1>8. CASE UNCHANGED vars
    BY <1>8, StrandedQuiet DEF vars, InHand
  <1> QED
    BY <1>1, <1>4, <1>5, <1>6, <1>7, <1>8 DEF Next

LEMMA StrandedStep == TypeOK /\ Holding /\ StrandedByFaults /\ [Next]_vars => StrandedByFaults'
  <1> SUFFICES ASSUME TypeOK, Holding, StrandedByFaults, [Next]_vars PROVE StrandedByFaults'
    OBVIOUS
  <1>1. Stranded \subseteq Effects /\ IsFiniteSet(Stranded)
    BY EffectsFinite, FS_Subset DEF Stranded
  <1>2. Cardinality(Stranded) \in Nat /\ faults \in Nat /\ Cardinality(Stranded) <= faults
    BY <1>1, FS_CardinalityType DEF TypeOK, StrandedByFaults
  <1>3. CASE Stranded' \subseteq Stranded /\ faults' \in {faults, faults + 1}
    <2>1. IsFiniteSet(Stranded') /\ Cardinality(Stranded') <= Cardinality(Stranded)
      BY <1>1, <1>3, FS_Subset
    <2>2. Cardinality(Stranded') \in Nat
      BY <2>1, FS_CardinalityType
    <2> QED
      BY <1>2, <1>3, <2>1, <2>2 DEF StrandedByFaults
  <1>4. ASSUME NEW e \in Effects, Stranded' \subseteq Stranded \union {e}, faults' = faults + 1
        PROVE  StrandedByFaults'
    <2>1. /\ IsFiniteSet(Stranded \union {e})
          /\ Cardinality(Stranded \union {e}) <= Cardinality(Stranded) + 1
          /\ Cardinality(Stranded \union {e}) \in Nat
      <3> DEFINE S == Stranded
      <3>1. IsFiniteSet(S) /\ Cardinality(S) \in Nat
        BY <1>1, <1>2
      <3> HIDE DEF S
      <3>2. /\ IsFiniteSet(S \union {e})
            /\ Cardinality(S \union {e}) = IF e \in S THEN Cardinality(S) ELSE Cardinality(S) + 1
        BY <3>1, FS_AddElement
      <3>3. Cardinality(S \union {e}) <= Cardinality(S) + 1 /\ Cardinality(S \union {e}) \in Nat
        BY <3>1, <3>2
      <3> QED
        BY <3>2, <3>3 DEF S
    <2>2. IsFiniteSet(Stranded') /\ Cardinality(Stranded') <= Cardinality(Stranded \union {e})
      BY <1>4, <2>1, FS_Subset
    <2>3. Cardinality(Stranded') \in Nat
      BY <2>2, FS_CardinalityType
    <2> QED
      BY <1>2, <1>4, <2>1, <2>2, <2>3 DEF StrandedByFaults
  <1> QED
    BY <1>3, <1>4, StrandedMoves

-----------------------------------------------------------------------------
(* The theorems that hold whatever faults occur.                           *)

THEOREM InvInit == Init => Inv
  <1> SUFFICES ASSUME Init PROVE Inv
    OBVIOUS
  <1>1. TypeOK
    BY TypeInit
  <1>2. WithinCaptured
    <2>1. {r \in Refunds : state[r] \in {"submitted", "unknown", "succeeded"}} = {}
      BY DEF Init
    <2>2. Total[{}] <= Captured
      BY TotalAssumption, CapturedAssumption
    <2>3. WithinCaptured <=> Total[{r \in Refunds : state[r] \in {"submitted", "unknown", "succeeded"}}]
                             <= Captured
      BY DEF WithinCaptured
    <2> QED
      BY <2>1, <2>2, <2>3
  <1>3. OneRunner /\ Holding /\ FinishSettled /\ AnswerKind
    BY DEF Init, OneRunner, Holding, Busy, FinishSettled, AnswerKind
  <1>4. RowExists /\ TerminalMeansSettled
    BY DEF Init, RowExists, OpenStates, TerminalMeansSettled, Terminal, Effects
  <1>5. RetriesBounded /\ RetryPaid
    BY AttemptsAssumption DEF Init, RetriesBounded, RetryPaid
  <1>6. StrandedByFaults
    <2>1. Stranded = {} /\ faults = 0
      BY DEF Init, Stranded
    <2> QED
      BY <2>1, FS_EmptySet DEF StrandedByFaults
  <1> QED
    BY <1>1, <1>2, <1>3, <1>4, <1>5, <1>6 DEF Inv

THEOREM InvStep == Inv /\ [Next]_vars => Inv'
  BY TypeStep, RunnerStep, SettlingStep, RetryStep, CapturedStep, StrandedStep
     DEF Inv, Settling, RetryParts

(* The conjunction the following theorems are read off.                    *)
THEOREM InvHolds == Spec => []Inv
  BY InvInit, InvStep, PTL DEF Spec

(* Refunds succeeded, undetermined or in flight never exceed the captured  *)
(* amount, for every payment, every set of refunds and every interleaving. *)
THEOREM CapturedHolds == Spec => []WithinCaptured
  <1>1. Inv => WithinCaptured
    BY DEF Inv
  <1> QED
    BY <1>1, InvHolds, PTL

(* No effect row is ever run by two processes at once.                     *)
THEOREM OneRunnerHolds == Spec => []OneRunner
  <1>1. Inv => OneRunner
    BY DEF Inv
  <1> QED
    BY <1>1, InvHolds, PTL

(* A row that is over never leaves its refund in 'submitted'.              *)
THEOREM TerminalHolds == Spec => []TerminalMeansSettled
  <1>1. Inv => TerminalMeansSettled
    BY DEF Inv
  <1> QED
    BY <1>1, InvHolds, PTL

(* Attempts beyond maxAttempts are each paid for by a fault.               *)
THEOREM RetriesHold == Spec => []RetriesBounded
  <1>1. Inv => RetriesBounded
    BY DEF Inv
  <1> QED
    BY <1>1, InvHolds, PTL

(* A row is left running by nobody only by a fault, one row by each; and a *)
(* refund in flight has its row queued or running.  So as long as there is *)
(* no fault, what is in flight is queued or in somebody's hands.           *)
THEOREM StrandedHolds ==
    Spec => [](/\ StrandedByFaults
               /\ \A r \in Refunds : state[r] = "submitted" =>
                    row[<<r, "refund">>] \in {"queued", "running"})
  <1>1. Inv => \A r \in Refunds : state[r] = "submitted" =>
                  row[<<r, "refund">>] \in {"queued", "running"}
    BY DEF Inv, TypeOK, RowExists, TerminalMeansSettled, OpenStates, Effects
  <1>2. Inv => StrandedByFaults
    BY DEF Inv
  <1> QED
    BY <1>1, <1>2, InvHolds, PTL

(* A verdict is final, under every fault the model has.                    *)
THEOREM FinalHolds == Spec => FinalIsFinal
  <1>1. TypeOK /\ [Next]_vars =>
          [\A r \in Refunds :
              state[r] \in {"succeeded", "failed", "rejected"} => state'[r] = state[r]]_vars
    BY MoveStep DEF MovesOne, CommitSubmit, CallRefund, Quiet, Unsettled, domainVars, TypeOK
  <1> QED
    BY <1>1, TypeCorrect, PTL DEF Spec, FinalIsFinal

-----------------------------------------------------------------------------
(* Verdicts.  The processor is asked again about a refund it has not       *)
(* decided only while the refund is in flight, or after its row was        *)
(* reopened; so a verdict is true unless the row was reopened after it.    *)

LEMMA TruthInit == Init => TruthInv
  <1> SUFFICES ASSUME Init PROVE TruthInv
    OBVIOUS
  <1>1. VerdictTrue /\ FailedStays
    BY DEF Init, VerdictTrue, FailedStays, Paid, OpenStates
  <1>2. OutcomeTruth
    BY DEF Init, OutcomeTruth
  <1> QED
    BY <1>1, <1>2 DEF TruthInv

(* The submit transaction is about a draft, which nobody is settling.      *)
LEMMA TruthSubmit ==
    ASSUME Inv, TruthInv, NEW p \in Procs, NEW r \in Refunds, CommitSubmit(p, r),
           UNCHANGED <<attempt, outcome, reopened>>
    PROVE  TruthInv'
  <1> DEFINE e == <<r, "refund">>
  <1> USE DEF Inv, TypeOK
  <1>1. e \in Effects /\ row[e] = "none" /\ state[r] = "draft" /\ attempt[r] = "none"
    BY DEF CommitSubmit, Effects, RowExists, OpenStates
  <1>2. /\ row' = [row EXCEPT ![e] = "queued"]
        /\ pc' = [pc EXCEPT ![p] = "claim"]
        /\ job' = [job EXCEPT ![p] = e]
        /\ state' = [state EXCEPT ![r] = "submitted"]
    BY <1>1 DEF CommitSubmit, Enqueue
  <1>3. VerdictTrue'
    BY <1>1, <1>2 DEF TruthInv, VerdictTrue
  <1>4. OutcomeTruth'
    BY <1>2 DEF TruthInv, OutcomeTruth
  <1>5. FailedStays'
    <2>1. \A s \in Refunds : <<s, "refund">> \in Effects /\ (s # r => <<s, "refund">> # e)
      BY DEF Effects
    <2> QED
      BY <1>2, <2>1 DEF TruthInv, FailedStays
  <1> QED
    BY <1>3, <1>4, <1>5 DEF TruthInv

(* Steps that leave states and the processor alone, start no settlement,   *)
(* queue only what was queued or is reopened by it, and begin a requeue    *)
(* only from a process that settles, or because of a late fault.           *)
LEMMA TruthQuiet ==
    ASSUME Inv, TruthInv, UNCHANGED <<state, attempt>>,
           reopened \subseteq reopened',
           \A r \in reopened' \ reopened : state[r] = "failed",
           \A p \in Procs : pc'[p] = "settle" =>
                pc[p] = "settle" /\ UNCHANGED <<job[p], outcome[p]>>,
           \A r \in Refunds : row'[<<r, "refund">>] = "queued" =>
                \/ row[<<r, "refund">>] = "queued"
                \/ ~(state[r] = "failed" /\ attempt[r] = "none")
                \/ r \in reopened',
           \A p \in Procs : pc'[p] = "call" =>
                \/ job'[p] = job[p] /\ pc[p] = "call"
                \/ row[job'[p]] = "queued",
           \A p \in Procs : pc'[p] \in {"requeue", "abort"} =>
                \/ job'[p] = job[p] /\ pc[p] \in {"call", "settle", "requeue", "abort"}
                \/ LateFaults # {}
    PROVE  TruthInv'
  <1>1. VerdictTrue'
    BY DEF TruthInv, VerdictTrue
  <1>2. OutcomeTruth'
    BY DEF TruthInv, OutcomeTruth
  <1>3. FailedStays'
    BY DEF TruthInv, FailedStays, LateFaults
  <1> QED
    BY <1>1, <1>2, <1>3 DEF TruthInv

(* A verdict given outside the outbox: created, rejected, or by webhook.   *)
LEMMA TruthOutside ==
    ASSUME Inv, TruthInv, NEW r \in Refunds, Create(r) \/ Reject(r) \/ Webhook(r)
    PROVE  TruthInv'
  <1> USE DEF Inv, TypeOK, rowVars, procVars
  <1>1. UNCHANGED <<row, attempt, pc, job, outcome, reopened>> /\ \A s \in Refunds \ {r} : state'[s] = state[s]
    BY DEF Create, Reject, Webhook
  <1>2. CASE Create(r) \/ Reject(r)
    <2>1. state[r] \in OpenStates /\ state'[r] \in {"draft", "rejected"}
      <3> HIDE DEF Inv
      <3>1. state \in [Refunds -> {"absent", "draft", "submitted", "succeeded",
                                  "failed", "unknown", "rejected"}]
        BY DEF Inv
      <3> QED
        BY <1>2, <3>1 DEF Create, Reject, OpenStates
    <2>2. attempt[r] = "none"
      BY <2>1 DEF RowExists
    <2>3. VerdictTrue' /\ OutcomeTruth'
      BY <1>1, <2>1, <2>2 DEF TruthInv, VerdictTrue, OutcomeTruth, Paid, OpenStates
    <2>4. FailedStays'
      BY <1>1, <2>1 DEF TruthInv, FailedStays, LateFaults
    <2> QED
      BY <2>3, <2>4 DEF TruthInv
  <1>3. CASE Webhook(r)
    <2>1. state[r] # "failed" /\ attempt[r] # "none" /\ state'[r] = IF Paid(attempt[r]) THEN "succeeded" ELSE "failed"
      BY <1>3 DEF Webhook, AfterSettle, Unsettled
    <2> QED
      BY <1>1, <2>1 DEF TruthInv, VerdictTrue, OutcomeTruth, FailedStays, Paid, LateFaults
  <1> QED
    BY <1>2, <1>3

(* The processor decides: only for a refund in flight, or reopened, whose  *)
(* row is held, so nobody else is to settle an earlier answer of the call. *)
LEMMA TruthCall ==
    ASSUME Inv, TruthInv, NEW p \in Procs, CallRefund(p)
    PROVE  TruthInv'
  <1> DEFINE r == Refund(job[p])
  <1> USE DEF Inv, TypeOK, rowVars, domainVars
  <1>1. PICK a \in RefundAnswers(r) :
          /\ attempt' = [attempt EXCEPT ![r] = IF a = "transient" THEN attempt[r] ELSE a]
          /\ Answered(p, Report(a))
    BY DEF CallRefund
  <1>2. pc[p] = "call" /\ Kind(job[p]) = "refund" /\ UNCHANGED <<state, row, job, reopened>>
    BY DEF CallRefund
  <1>3. r \in Refunds /\ job[p] \in Effects /\ job[p] = <<r, "refund">>
    BY <1>2 DEF Effects, Kind, Refund
  <1>4. state[r] \notin OpenStates
    BY <1>2, <1>3 DEF Holding, Busy, RowExists
  <1>5. state[r] = "failed" /\ attempt[r] = "none" => r \in reopened
    BY <1>2, <1>3 DEF TruthInv, FailedStays
  <1>6. /\ attempt[r] # "none" => a = attempt[r] /\ a # "transient"
        /\ a \in {"paid", "declined", "timeout", "transient"}
    BY <1>3 DEF RefundAnswers
  <1>7. \A s \in Refunds : attempt'[s] # attempt[s] => s = r /\ attempt[r] = "none"
    BY <1>1, <1>3, <1>6
  <1>8. attempt[r] = "none" => state[r] \in {"submitted", "unknown"} \/ r \in reopened
    BY <1>3, <1>4, <1>5 DEF TruthInv, VerdictTrue, OpenStates, Paid
  <1>9. VerdictTrue'
    BY <1>1, <1>2, <1>3, <1>7, <1>8 DEF TruthInv, VerdictTrue, Paid
  <1>10. OutcomeTruth'
    <2> SUFFICES ASSUME NEW q \in Procs, pc'[q] = "settle"
                 PROVE  LET b == attempt'[Refund(job'[q])] IN
                        /\ outcome'[q] \in {"succeeded", "found_paid"} => Paid(b)
                        /\ outcome'[q] \in {"declined", "found_declined"} => b = "declined"
                        /\ outcome'[q] = "transient" => b = "none" /\ Kind(job'[q]) = "refund"
      BY DEF OutcomeTruth
    <2>1. CASE q = p
      BY <1>1, <1>2, <1>3, <1>6, <2>1 DEF Answered, Report, Paid
    <2>2. CASE q # p
      <3>1. pc[q] = "settle" /\ outcome'[q] = outcome[q] /\ job[q] \in Effects
        BY <1>1, <2>2 DEF Answered
      <3>2. job[q] # job[p]
        BY <1>2, <2>2, <3>1 DEF OneRunner, Busy
      <3>3. Refund(job[q]) \in Refunds /\ (Kind(job[q]) = "refund" => job[q] = <<Refund(job[q]), "refund">>)
        BY <3>1 DEF Effects, Kind, Refund
      <3>4. Kind(job[q]) = "refund" => Refund(job[q]) # r
        BY <1>3, <3>2, <3>3
      <3>5. attempt'[Refund(job[q])] = attempt[Refund(job[q])] \/ attempt[Refund(job[q])] = "none"
        BY <1>7, <3>3
      <3>6. Kind(job[q]) = "refund" => attempt'[Refund(job[q])] = attempt[Refund(job[q])]
        BY <1>7, <3>3, <3>4
      <3> QED
        BY <1>2, <3>1, <3>5, <3>6 DEF TruthInv, OutcomeTruth, Paid
    <2> QED
      BY <2>1, <2>2
  <1>11. FailedStays'
    <2>1. \A s \in Refunds : attempt'[s] = "none" => attempt[s] = "none"
      BY <1>1, <1>3, <1>6
    <2>2. \A q \in Procs : q # p => pc'[q] = pc[q]
      BY <1>1 DEF Answered
    <2>3. \A s \in Refunds \ reopened :
            job[p] = <<s, "refund">> => ~(state[s] = "failed" /\ attempt[s] = "none")
      BY <1>3, <1>5
    <2> QED
      BY <1>2, <2>1, <2>2, <2>3 DEF TruthInv, FailedStays, LateFaults
  <1> QED
    BY <1>9, <1>10, <1>11 DEF TruthInv

(* The settlement writes what the processor knows, whether or not it then  *)
(* throws; a refund failed with no decision keeps its row out of everybody *)
(* else's hands.                                                           *)
LEMMA TruthSettle ==
    ASSUME Inv, TruthInv, NEW p \in Procs, pc[p] = "settle", NEW next,
           SettleTo(p, next), next = "finish" \/ (next = "requeue" /\ LateFaults # {}),
           UNCHANGED <<row, attempt, job, outcome, reopened>>
    PROVE  TruthInv'
  <1> DEFINE r == Refund(job[p])
  <1> USE DEF Inv, TypeOK, rowVars
  <1>1. /\ state' = [state EXCEPT ![r] = AfterSettle(state[r], Kind(job[p]), outcome[p])]
        /\ pc' = [pc EXCEPT ![p] = next]
    BY DEF SettleTo
  <1>2. r \in Refunds /\ job[p] \in Effects /\ (Kind(job[p]) = "refund" => job[p] = <<r, "refund">>)
    BY DEF Effects, Kind, Refund
  <1>3. row[job[p]] = "running"
    BY <1>1 DEF Holding, Busy
  <1>4. /\ outcome[p] \in {"succeeded", "found_paid"} => Paid(attempt[r])
        /\ outcome[p] \in {"declined", "found_declined"} => attempt[r] = "declined"
        /\ outcome[p] = "transient" => attempt[r] = "none" /\ Kind(job[p]) = "refund"
    BY <1>1 DEF TruthInv, OutcomeTruth
  <1>5. VerdictTrue'
    BY <1>1, <1>2, <1>4 DEF TruthInv, VerdictTrue, AfterSettle, Unsettled, Paid
  <1>6. OutcomeTruth'
    BY <1>1 DEF TruthInv, OutcomeTruth
  <1>7. FailedStays'
    <2> SUFFICES ASSUME NEW s \in Refunds \ reopened, state'[s] = "failed", attempt[s] = "none"
                 PROVE  /\ row[<<s, "refund">>] # "queued"
                        /\ \A q \in Procs : job[q] = <<s, "refund">> =>
                              /\ pc'[q] \notin {"call", "settle"}
                              /\ pc'[q] \in {"requeue", "abort"} => LateFaults # {}
      BY <1>1 DEF FailedStays, LateFaults
    <2>1. CASE state[s] = "failed"
      BY <1>1, <2>1 DEF TruthInv, FailedStays
    <2>2. CASE state[s] # "failed"
      <3>1. s = r /\ AfterSettle(state[r], Kind(job[p]), outcome[p]) = "failed"
        BY <1>1, <2>2
      <3>2. outcome[p] = "transient"
        BY <1>4, <2>2, <3>1 DEF AfterSettle
      <3>3. job[p] = <<s, "refund">>
        BY <1>2, <1>4, <3>1, <3>2
      <3>4. \A q \in Procs \ {p} : job[q] = job[p] => ~Busy(q)
        BY <1>1 DEF OneRunner, Busy
      <3> QED
        BY <1>1, <1>3, <3>3, <3>4 DEF Busy
    <2> QED
      BY <2>1, <2>2
  <1> QED
    BY <1>5, <1>6, <1>7 DEF TruthInv

LEMMA TruthLookup ==
    ASSUME Inv, TruthInv, NEW p \in Procs, CallLookup(p)
    PROVE  TruthInv'
  <1> USE DEF Inv, TypeOK, rowVars, domainVars
  <1>1. /\ outcome' = [outcome EXCEPT ![p] = LookupAnswer(Refund(job[p]))]
        /\ \A q \in Procs : q # p => pc'[q] = pc[q]
        /\ pc[p] = "call" /\ Kind(job[p]) = "lookup"
        /\ UNCHANGED <<state, row, attempt, job, reopened>>
    BY DEF CallLookup, Answered
  <1>2. VerdictTrue'
    BY <1>1 DEF TruthInv, VerdictTrue
  <1>3. OutcomeTruth'
    <2>1. Refund(job[p]) \in Refunds
      BY DEF Effects, Refund
    <2> QED
      BY <1>1, <2>1 DEF TruthInv, OutcomeTruth, LookupAnswer, Paid
  <1>4. FailedStays'
    <2>1. \A s \in Refunds : Kind(<<s, "refund">>) = "refund"
      BY DEF Kind
    <2> QED
      BY <1>1, <2>1 DEF TruthInv, FailedStays, LateFaults
  <1> QED
    BY <1>2, <1>3, <1>4 DEF TruthInv

LEMMA TruthThrows ==
    ASSUME Inv, TruthInv, NEW p \in Procs, CallThrows(p)
    PROVE  TruthInv'
  <1> USE DEF Inv, TypeOK, rowVars, domainVars
  <1>1. /\ outcome' = [outcome EXCEPT ![p] = "unknown"]
        /\ \A q \in Procs : q # p => pc'[q] = pc[q]
        /\ pc[p] = "call"
        /\ UNCHANGED <<state, row, attempt, job, reopened>>
    BY DEF CallThrows, Answered
  <1>2. VerdictTrue' /\ OutcomeTruth'
    BY <1>1 DEF TruthInv, VerdictTrue, OutcomeTruth
  <1>3. FailedStays'
    BY <1>1 DEF TruthInv, FailedStays, LateFaults
  <1> QED
    BY <1>2, <1>3 DEF TruthInv

LEMMA TruthStep == Inv /\ TruthInv /\ [Next]_vars => TruthInv'
  <1> SUFFICES ASSUME Inv, TruthInv, [Next]_vars PROVE TruthInv'
    OBVIOUS
  <1> USE DEF rowVars, procVars, domainVars
  <1>0. \A r \in Refunds : <<r, "refund">> \in Effects /\ <<r, "lookup">> \in Effects
                           /\ \A s \in Refunds : <<r, "refund">> # <<s, "lookup">>
    BY DEF Effects
  <1>1. ASSUME NEW r \in Refunds,
               Create(r) \/ Park(r) \/ Refuse(r) \/ Reject(r) \/ Webhook(r)
        PROVE  TruthInv'
    <2>1. CASE Park(r) \/ Refuse(r)
      BY <2>1, TruthQuiet DEF Park, Refuse
    <2> QED
      BY <1>1, <2>1, TruthOutside
  <1>2. ASSUME NEW p \in Procs, NEW r \in Refunds,
               Submit(p, r) \/ Approve(p, r) \/ Reconcile(p, r)
        PROVE  TruthInv'
    <2>1. CASE Submit(p, r)
      BY <2>1, TruthSubmit DEF Submit
    <2>2. CASE Approve(p, r)
      BY <2>2, TruthQuiet DEF Approve, Inv, TypeOK
    <2>3. CASE Reconcile(p, r)
      <3>1. UNCHANGED <<state, attempt, outcome, reopened>>
        BY <2>3 DEF Reconcile
      <3>2. \A e \in Effects : e # <<r, "lookup">> => row'[e] = row[e]
        BY <1>0, <2>3 DEF Reconcile, Enqueue, Inv, TypeOK
      <3>3. \A q \in Procs : pc'[q] \in {"call", "settle", "requeue", "abort"}
              => q # p /\ pc'[q] = pc[q] /\ job'[q] = job[q]
        BY <1>0, <2>3 DEF Reconcile, Enqueue, Inv, TypeOK
      <3> QED
        BY <1>0, <3>1, <3>2, <3>3, TruthQuiet
    <2> QED
      BY <1>2, <2>1, <2>2, <2>3
  <1>3. ASSUME NEW p \in Procs, NEW e \in Effects, SweepClaim(p, e)
        PROVE  TruthInv'
    BY <1>0, <1>3, TruthQuiet DEF SweepClaim, Take, Claimable, Inv, TypeOK
  <1>4. ASSUME NEW p \in Procs, Step(p)
        PROVE  TruthInv'
    <2>0. Refund(job[p]) \in Refunds /\ job[p] \in Effects
      BY DEF Inv, TypeOK, Effects, Refund
    <2>1. CASE Replay(p)
      BY <2>0, <2>1, TruthSubmit DEF Replay
    <2>2. CASE ReplayStale(p) \/ ClaimNothing(p)
      BY <2>2, TruthQuiet DEF ReplayStale, ClaimNothing, Inv, TypeOK
    <2>3. CASE Claim(p)
      BY <1>0, <2>0, <2>3, TruthQuiet DEF Claim, Take, Claimable, Inv, TypeOK
    <2>4. CASE Finish(p)
      BY <1>0, <2>0, <2>4, TruthQuiet DEF Finish, Return, Status, Inv, TypeOK
    <2>5. CASE Requeue(p) \/ Abort(p)
      <3>1. /\ UNCHANGED <<state, attempt, job, outcome>>
            /\ pc' = [pc EXCEPT ![p] = IF pc'[p] = "claim" THEN "claim" ELSE "idle"]
            /\ Reopen(p) \/ UNCHANGED <<row, reopened>>
        BY <2>5 DEF Requeue, Abort, Return, Inv, TypeOK
      <3>2. \A q \in Procs : pc'[q] \notin {"idle", "claim"} => pc'[q] = pc[q] /\ job'[q] = job[q]
        BY <3>1 DEF Inv, TypeOK
      <3>3. /\ reopened \subseteq reopened'
            /\ \A r \in reopened' \ reopened : state[r] = "failed"
            /\ \A r \in Refunds : row'[<<r, "refund">>] = "queued" =>
                 \/ row[<<r, "refund">>] = "queued"
                 \/ ~(state[r] = "failed" /\ attempt[r] = "none")
                 \/ r \in reopened'
        BY <1>0, <2>0, <3>1 DEF Reopen, Inv, TypeOK
      <3> QED
        BY <3>1, <3>2, <3>3, TruthQuiet
    <2>6. CASE Settle(p)
      BY <2>6, TruthSettle DEF Settle
    <2> QED
      BY <1>4, <2>1, <2>2, <2>3, <2>4, <2>5, <2>6, TruthCall, TruthLookup DEF Step
  <1>5. ASSUME NEW p \in Procs,
               CallThrows(p) \/ SettleThrows(p) \/ FinishThrows(p) \/ Crash(p)
        PROVE  TruthInv'
    <2>1. CASE SettleThrows(p)
      <3>1. /\ pc[p] = "settle"
            /\ UNCHANGED <<row, attempt, job, outcome, reopened>>
            /\ \/ pc' = [pc EXCEPT ![p] = "requeue"] /\ UNCHANGED state
               \/ pc' = [pc EXCEPT ![p] = "abort"] /\ UNCHANGED state
               \/ LateFaults # {} /\ SettleTo(p, "requeue")
        BY <2>1 DEF SettleThrows, Fault, LateFaults
      <3>2. CASE UNCHANGED state
        BY <3>1, <3>2, TruthQuiet DEF SettleTo, Inv, TypeOK
      <3> QED
        BY <3>1, <3>2, TruthSettle
    <2>2. CASE FinishThrows(p)
      BY <2>2, TruthQuiet DEF FinishThrows, Fault, LateFaults, Inv, TypeOK
    <2>3. CASE Crash(p)
      BY <2>3, TruthQuiet DEF Crash, Inv, TypeOK
    <2> QED
      BY <1>5, <2>1, <2>2, <2>3, TruthThrows
  <1>6. CASE UNCHANGED vars
    BY <1>6, TruthQuiet DEF vars
  <1> QED
    BY <1>1, <1>2, <1>3, <1>4, <1>5, <1>6 DEF Next

(* Type and strengthening: what holds of every verdict whatever throws.    *)
THEOREM TruthInvHolds == Spec => [](Inv /\ TruthInv)
  <1>1. Init => Inv /\ TruthInv
    BY InvInit, TruthInit
  <1>2. Inv /\ TruthInv /\ [Next]_vars => (Inv /\ TruthInv)'
    BY InvStep, TruthStep
  <1> QED
    BY <1>1, <1>2, PTL DEF Spec

(* Whatever throws and whenever, the refund's state agrees with the        *)
(* processor's books but for the refunds reopened after they failed.       *)
THEOREM VerdictHolds == Spec => []VerdictTrue
  <1>1. TruthInv => VerdictTrue
    BY DEF TruthInv
  <1> QED
    BY <1>1, TruthInvHolds, PTL

(* The money that left, but for those, stays within what was captured.     *)
THEOREM MoneyHolds == Spec => []MoneyWithinCaptured
  <1>1. WithinCaptured /\ VerdictTrue => MoneyWithinCaptured
    <2> SUFFICES ASSUME WithinCaptured, VerdictTrue PROVE MoneyWithinCaptured
      OBVIOUS
    <2> DEFINE InFlight == {r \in Refunds : state[r] \in {"submitted", "unknown", "succeeded"}}
               moved == Moved \ reopened
    <2>1. moved \subseteq InFlight /\ InFlight \in SUBSET Refunds
      BY DEF Moved, VerdictTrue
    <2>2. Total[moved] <= Total[InFlight]
      BY <2>1, TotalMonotone
    <2>3. Total[moved] \in Nat /\ Total[InFlight] \in Nat /\ Captured \in Nat
      BY <2>1, TotalAssumption, CapturedAssumption
    <2>4. Total[InFlight] <= Captured
      BY DEF WithinCaptured
    <2> QED
      BY <2>2, <2>3, <2>4 DEF MoneyWithinCaptured
  <1> QED
    BY <1>1, CapturedHolds, VerdictHolds, PTL

(* Nothing throws between the domain commit of a settlement and the update *)
(* that ends the row.                                                      *)
NoLateFaults == LateFaults = {}

(* Then no row is reopened: a refund failed without a decision is not put  *)
(* back in the queue by any crash, lost answer or failed settlement.       *)
THEOREM NothingReopened ==
    ASSUME NoLateFaults
    PROVE  Spec => [](reopened = {})
  <1>1. Init => reopened = {}
    BY DEF Init
  <1>2. Inv /\ TruthInv /\ reopened = {} /\ [Next]_vars => (reopened = {})'
    <2> SUFFICES ASSUME Inv, TruthInv, reopened = {}, [Next]_vars, reopened' # {} PROVE FALSE
      OBVIOUS
    <2>1. PICK p \in Procs : Reopen(p) /\ pc[p] \in {"requeue", "abort"}
      BY DEF Next, vars, Step, Create, Park, Refuse, Reject, Webhook, Submit, Approve, Reconcile,
             SweepClaim, Replay, ReplayStale, Claim, ClaimNothing, CallRefund, CallLookup,
             Settle, Finish, Requeue, Abort, CallThrows, SettleThrows, FinishThrows, Crash
    <2>2. PICK r \in Refunds : job[p] = <<r, "refund">> /\ state[r] = "failed" /\ attempt[r] = "none"
      BY <2>1 DEF Reopen
    <2> QED
      BY <2>1, <2>2 DEF TruthInv, FailedStays, NoLateFaults
  <1> QED
    BY <1>1, <1>2, TruthInvHolds, PTL DEF Spec

(* And every verdict is true, and all the money is within the captured.    *)
THEOREM TruthHolds ==
    ASSUME NoLateFaults
    PROVE  Spec => [](SettledTruth /\ Total[Moved] <= Captured)
  <1>1. VerdictTrue /\ reopened = {} => SettledTruth
    BY DEF VerdictTrue, SettledTruth
  <1>2. MoneyWithinCaptured /\ reopened = {} => Total[Moved] <= Captured
    <2>1. reopened = {} => Moved \ reopened = Moved
      OBVIOUS
    <2> QED
      BY <2>1 DEF MoneyWithinCaptured
  <1> QED
    BY <1>1, <1>2, VerdictHolds, MoneyHolds, NothingReopened, PTL

-----------------------------------------------------------------------------
(* Refunds implements Ledger.                                              *)

LEMMA LedgerInit == Init => L!Init
  BY DEF Init, L!Init, Phase, Moved, Paid

(* The reservation the abstract guard sums is the set the code's query     *)
(* aggregates.                                                             *)
LEMMA ReservedIsCommitted == TypeOK => L!Reserved = Committed
  BY DEF TypeOK, L!Reserved, Committed, Phase

(* Only an undecided refund is reopened, so the money the ledger counts    *)
(* changes only with the processor's memory.                               *)
LEMMA ReopenedUndecided ==
    [Next]_vars => /\ reopened' # reopened => UNCHANGED attempt
                   /\ reopened \subseteq reopened'
                   /\ \A r \in reopened' \ reopened : attempt[r] = "none"
  <1> SUFFICES ASSUME [Next]_vars, ~UNCHANGED reopened
               PROVE  /\ UNCHANGED attempt /\ reopened \subseteq reopened'
                      /\ \A r \in reopened' \ reopened : attempt[r] = "none"
    OBVIOUS
  <1>1. PICK p \in Procs : Reopen(p) /\ (Requeue(p) \/ Abort(p))
    BY DEF Next, vars, Step, Create, Park, Refuse, Reject, Webhook, Submit, Approve, Reconcile,
           SweepClaim, Replay, ReplayStale, Claim, ClaimNothing, CallRefund, CallLookup,
           Settle, Finish, Requeue, Abort, CallThrows, SettleThrows, FinishThrows, Crash
  <1> QED
    BY <1>1 DEF Requeue, Abort, Reopen

LEMMA CountedStays ==
    ASSUME [Next]_vars, UNCHANGED attempt
    PROVE  (Moved \ reopened)' = Moved \ reopened
  <1>1. Moved' = Moved
    BY DEF Moved
  <1> QED
    BY <1>1, ReopenedUndecided DEF Moved, Paid

LEMMA LedgerStep ==
    TypeOK /\ RowExists /\ Holding /\ TruthInv /\ VerdictTrue' /\ [Next]_vars => [L!Next]_(L!lvars)
  <1> SUFFICES ASSUME TypeOK, RowExists, Holding, TruthInv, VerdictTrue', [Next]_vars
               PROVE  L!Next \/ UNCHANGED L!lvars
    OBVIOUS
  <1> USE DEF TypeOK
  <1> DEFINE Counted == Moved \ reopened
  <1>0. UNCHANGED attempt => Counted' = Counted
    BY CountedStays
  <1>1. ASSUME NEW p \in Procs, NEW r \in Refunds, CommitSubmit(p, r), UNCHANGED attempt
        PROVE  L!Reserve(r)
    <2>1. state[r] = "draft" /\ state' = [state EXCEPT ![r] = "submitted"] /\ WithinCapturedAmount(r)
      BY <1>1 DEF CommitSubmit
    <2>2. Counted' = Counted
      BY <1>0, <1>1
    <2>3. Total[L!Reserved \ {r}] + Amount[r] <= Captured
      BY <2>1, ReservedIsCommitted DEF WithinCapturedAmount
    <2> QED
      BY <2>1, <2>2, <2>3 DEF L!Reserve, Phase
  <1>2. CASE MovesOne
    <2>1. PICK r \in Refunds, s \in {"draft", "rejected", "succeeded", "failed", "unknown"} :
            /\ state' = [state EXCEPT ![r] = s]
            /\ UNCHANGED attempt
            /\ \/ state[r] \in Unsettled /\ s \in {"succeeded", "failed", "unknown"}
               \/ state[r] \in {"absent", "draft"} /\ s \in OpenStates
      BY <1>2 DEF MovesOne
    <2>2. Counted' = Counted /\ state'[r] = s
      BY <1>0, <2>1
    <2>3. CASE s = "succeeded"
      <3>1. r \in Counted
        BY <2>1, <2>2, <2>3 DEF VerdictTrue, Moved
      <3> QED
        BY <2>1, <2>2, <2>3, <3>1 DEF L!Next, L!ReportPaid, Phase, Unsettled, OpenStates
    <2>4. CASE s = "failed"
      <3>1. r \notin Counted
        BY <2>1, <2>2, <2>4 DEF VerdictTrue, Moved
      <3> QED
        BY <2>1, <2>2, <2>4, <3>1 DEF L!Next, L!ReportUnpaid, Phase, Unsettled, OpenStates
    <2>5. CASE s = "rejected"
      BY <2>1, <2>2, <2>5 DEF L!Next, L!Void, Phase, Unsettled
    <2>6. CASE s \in {"draft", "unknown"}
      BY <2>1, <2>2, <2>6 DEF L!lvars, Phase, Unsettled, OpenStates
    <2> QED
      BY <2>3, <2>4, <2>5, <2>6
  <1>3. ASSUME NEW p \in Procs, CallRefund(p)
        PROVE  L!Next \/ UNCHANGED L!lvars
    <2> DEFINE r == Refund(job[p])
    <2>1. PICK a \in RefundAnswers(r) :
            attempt' = [attempt EXCEPT ![r] = IF a = "transient" THEN attempt[r] ELSE a]
      BY <1>3 DEF CallRefund
    <2>2. r \in Refunds /\ UNCHANGED <<state, reopened>>
      BY <1>3 DEF CallRefund, Effects, Refund, domainVars
    <2>3. attempt[r] # "none" => attempt'[r] = attempt[r]
      BY <2>1, <2>2 DEF RefundAnswers
    <2>4. CASE Counted' = Counted
      BY <2>2, <2>4 DEF L!lvars
    <2>5. CASE Counted' # Counted
      <3>1. /\ attempt[r] = "none" /\ Paid(attempt'[r]) /\ r \notin reopened'
            /\ Counted' = Counted \union {r} /\ r \notin Counted
        BY <2>1, <2>2, <2>3, <2>5 DEF Moved, Paid
      <3>2. state[r] \in {"submitted", "unknown"}
        BY <2>2, <3>1 DEF TruthInv, VerdictTrue, Paid
      <3> QED
        BY <2>2, <3>1, <3>2 DEF L!Next, L!Move, Phase
    <2> QED
      BY <2>4, <2>5
  <1>4. CASE Quiet
    BY <1>0, <1>4 DEF Quiet, L!lvars
  <1> QED
    BY <1>1, <1>2, <1>3, <1>4, MoveStep DEF L!Next

(* The console implements the abstract ledger, but for the money of the    *)
(* reopened: money moves at most once, only under a reservation, and       *)
(* verdicts are true.                                                      *)
THEOREM ImplementsLedger == Spec => LedgerSpec
  <1>1. Inv /\ TruthInv /\ (Inv /\ TruthInv)' /\ [Next]_vars => [L!Next]_(L!lvars)
    BY LedgerStep DEF Inv, TruthInv
  <1> QED
    BY <1>1, LedgerInit, TruthInvHolds, PTL DEF Spec, LedgerSpec, L!Spec
=============================================================================
