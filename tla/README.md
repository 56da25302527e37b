# A verification of the internal tools platform

The platform runs internal apps (KYC review, refunds, feature flags) on one
substrate: a transition gateway that locks, authorizes, guards, audits and
commits every write, an approval engine, an outbox for external calls, a
hash-chained audit trail, and server-side masking. This directory models that
substrate and its three apps in TLA+, checks the models with TLC on small
instances and proves the properties that matter most with TLAPS for instances of
any size. Paths below are relative to the root of the repository; `substrate/`,
`apps/` and `config/` are under `src/`.

    tlc -workers 2 -config MCRefundsSafety.cfg MCRefunds     # check a run
    tlapm RefundsProofs.tla                                  # check the proofs

## 1. The system

| Component | State | Operations | Talks to |
| --- | --- | --- | --- |
| Gateway, `substrate/operations/index.ts`, `create.ts` | the domain row; `idempotency_records` | `execute`, `create`, `park` | authorization, approvals, audit, outbox, in one transaction; the outbox again after the commit |
| Approval engine, `substrate/approvals/index.ts` | `approval_requests`, `approvals` | `decide` | `execute` as the requester, audit |
| Outbox, `substrate/effects/index.ts` | `effects` | `enqueueEffect`, `claim`, `runOne`, `requeue`, `runEffect`, `runEffects` | ports; ports settle through `execute` as a system principal |
| Refund app, `apps/refunds/` | `refunds`, `payments`, `processor_events` | submit, settle, fail, mark_unknown, reconcile, reject; `receiveWebhook` | processor port |
| Flag app, `apps/flags/` | `flag_configs`; what the flag service serves | update, rollback, publish_succeeded, publish_failed | flag port |
| KYC app, `apps/kyc/` | `kyc_cases`, `kyc_documents` | claim, release, request_info, approve, escalate, reject | approvals |
| Audit trail, `substrate/audit/index.ts`, `prisma/migrations/*integrity_triggers` | `audit_events`, the advisory lock | `writeAudit`, `recordDenial`, `recordRead`, `verifyAuditChain` | every transaction |
| Authorization, `substrate/authz/`, `config/roles.ts` | none | `authorize`, `scopeFilter`, `approvalRefusal` | everyone |
| Views, `substrate/views/`, `substrate/fields/` | none; a page goes stale | `listView`, `detailView`, `availableActions`, `project` | authorization, trail |
| Registry, session, identity, seed, user interface | start-up and demo data | | |

What is hard here is concurrency between Postgres transactions with `await`s
between them, and the external calls after them: several requests and a sweep
may run one outbox row; a process may die at any `await`; a timeout leaves the
outcome unknown; webhooks, lookups and late publishes arrive out of order; two
approvers decide at once; a parked change is replayed on a record that moved; a
page is stale when its button is pressed. `PROJECT.json` lists these hazards at
their lines with the properties that cover them.

What makes each component correct, in one sentence each: the refunded money
never exceeds what was captured and a refund never lies about it; a parked
change takes effect once, on what was reviewed, with its quorum; a flag config
that says "live" is confirmed and a large production rollout was approved; a
case is decided once, by its holder, with a second person where one is due; what a
key stands for happens once and an event is entered as what it did; the
trail is one chain, complete, and its verifier neither lies nor misses; a list, a
page and the gateway agree on who may do what.

## 2. The modules

| Module | Models | Detail |
| --- | --- | --- |
| `Ledger` | the promise of the refund pipeline | reserve, move, report; money moves once and under a reservation |
| `Refunds` | refund app, processor port, webhooks, outbox | `RefundsProofs`: implements `Ledger` |
| `FourEyes` | the promise of the approval engine | propose, endorse, apply |
| `Approvals` | `park`, `decide` | `ApprovalsProofs`: implements `FourEyes` |
| `Idempotency` | `idempotency_records` around `execute` and `create` | extended by `Webhooks` |
| `Inbox` | the promise of webhook intake | one verdict; each event booked once, and truthfully |
| `Webhooks` | `receiveWebhook` and `processor_events` on top of `Idempotency` | `WebhooksProofs`: implements `Inbox` |
| `Rollout` | the promise of the flag console | write, take, confirm |
| `Flags` | flag app, its port and its outbox rows | `FlagsProofs`: implements `Rollout` |
| `Kyc` | KYC app | `KycProofs` |
| `Trail` | the promise of the audit trail | one history; an event and its write in one step |
| `AuditChain` | `writeAudit`, row locks, the deferred trigger | `AuditChainProofs`: implements `Trail` |
| `AuditVerify` | `verifyAuditChain` beside `AuditChain` | extends it; `AuditVerifyProofs` |
| `Policy` | `authz/index.ts`, eligibility, for any catalog | instantiated by `Catalog` |
| `Catalog` | `config/roles.ts` and the resources' declarations | instance of `Policy` |
| `Console` | a page: list, detail, reveal, buttons, decisions | `ConsoleProofs` |

The `MC*` modules hold the constants of the instances. `PROJECT.json` maps
every definition to the lines it stands for. Operators under a comment
"Mutant" are deliberate bugs, each one a plausible slip in the code; a
property of a run is there only if one of them breaks it.

### How state and actions correspond to the code

One Postgres transaction that holds its row locks, one call of a port, and one
update outside a transaction are each one action: under READ COMMITTED with
`SELECT ... FOR UPDATE` another step sees all of it or nothing. Where a function
awaits between two of them, the call has a `pc`, and other steps come in between.
`AuditChain` opens a transaction up into its statements, and shows that the lock
order makes the coarser view of the other modules sound as far as the trail goes.

* **Refunds.** `state` is `refunds.state`; `row` and `attempts` are columns of
  `effects`, for each refund one row for the refund and one for its lookup; `pc`,
  `job` and `outcome` are a process in `runEffect` or in the sweep; `attempt` is
  what the processor decided under the refund's idempotency key; `told` is what
  the caller was told. `Submit`, `Approve` and `Replay` re-check the captured
  amount in the transaction as the guard does; whether a submit is parked is read on
  the record's amount or on one its payload names (`ReadAmounts`, see below). `CallRefund`
  is `execute` of the
  port, `Settle` re-enters `execute` (`AfterSettle` has the states it applies from),
  `Finish` marks the row, and `SettleThrows`, `FinishThrows`, `Abort` and `Requeue`
  are the error paths. `Faults` says which of them may happen. `reopened` is a
  history variable: the refunds whose row was put back in the queue after they had been
  failed without a decision of the processor. The processor's
  scripted and deterministic answers are a choice among what it may answer;
  webhooks say what the processor decided, late and any number of times. Backoff
  is a sweep that may come at any time.
* **Approvals.** The pending request's payload is abstracted to the record version
  it was made against; `Begin` is the checks, then one action per `await` of
  `decide()`. `excludeRequester` is true in every policy of the repository. That
  `result.status` may be `unknown` after a committed replay is `Replay`'s choice of
  what to store.
* **Idempotency, Webhooks.** An intent is what one key stands for; `done` counts the
  audit rows with that key, `records` is `idempotency_records`, `book` is
  `processor_events`. A call goes through lookup, commit, the external call and the
  record, and may die or throw in between (`Fail`); `receiveWebhook` wraps one such
  call in its own lookup and insert. `From`, `To` and `Rank` stand for any state
  machine that only moves on, which the assumptions say; `disturbed` is a history
  variable that names the keys two calls of which overlapped, or one of which failed
  after its commit. A second insert under one key or one event id throws, and the
  caller gets an error.
* **Flags.** Every write makes a version, so the row's columns are `change[version]`
  and a version's publish carries `change[v]`; `origin[v]` is its audit row. One
  outbox row has one runner (proved as `OneRunner` in `Refunds`), so the row
  carries its runner's step; a runner that dies leaves an `orphan`. `environment` is
  the one the rule reads, the config's own or one the payload names; `origin[v].by` is
  "elsewhere" for a large rollout let through that way, which no column records.
* **Kyc.** One case and what is parked about it. `decide()` is split into the
  approval and the replay; how approvals race is `Approvals`' subject. `rating` is
  the risk a decision's payload names, "none" if it names none, and `verdict` keeps it.
* **AuditChain.** `Plan[t]` is the rows a transaction locks, in order; `Rank` the
  order of tables. A hash is the list of the events up to it, that is, it has no
  collisions. Sequence numbers are taken at the insert and never given back.
* **AuditVerify.** A change to the stored rows is kept beside the log and seen by the
  verifier only: writers read the last row's hash, and an edit of a row, or a
  rewrite or a deletion under a successor, leaves that one as it was. A rewrite or
  deletion of the last row cannot be told from the stored rows, by the code either,
  and is not claimed. A batch is the set of rows one `findMany` returns, and the loop
  over it is one step, since nothing is awaited in it.
* **Policy, Catalog, Console.** A principal has roles and, per dimension, scopes.
  `Console` is one `detailView` and what is pressed on it: each audit write is an
  `await` that may fail, the record may move before the button is pressed, and
  pressing goes through `execute()` or `decide()`.

An approval rule is read on `{...record, ...payload}`
(`substrate/operations/index.ts:162`), and the action of `app/actions.ts` hands over
whatever object it is given. A payload that names a column of the record therefore
hides it from the rule, and from the rule only: guards and writes read the record. The
three apps' `NeedsApproval` take what the payload may name as an argument.

Deliberate abstractions: authorization is taken out of `Refunds`, `Approvals`,
`Flags` and `Kyc` (who is not authorized takes no step) and is `Policy`'s and
`Console`'s subject; amounts are small numbers and their sum over a set is the
constant `Total`, whose law is assumed and evaluated by TLC; the keys of
settlements (`settle:<key>:<action>`) are left out of `Refunds` because the state
machine never returns to the states they start from, which is what `Idempotency`
shows of keys that move a record on.

## 3. The runs

All passing runs end within three minutes on two workers.

| Run | Instance and bounds | Shows |
| --- | --- | --- |
| `refunds_safety` (2.1 M states) | refunds of 3 and 2 against 4, the first above the threshold, payloads that name an amount on either side of it; 2 processes; 2 attempts; 1 fault of all 6 kinds; processes symmetric | the captured amount, one runner, settled before terminal, retries bounded, rows stranded by faults only (in `Inv`), truth but for `reopened`, `Ledger` (and with it finality) |
| `refunds_live` (88 k) | 1 refund, submitted with or without an approval; 2 processes; 2 faults of 3 kinds | a submitted refund settles, a lookup settles |
| `approvals` (771 k) | 2 requests, 3 people, 1 and 2 required, 2 calls, a crash or a missing requester | quorum, reviewed version, `FourEyes`, one pending, a rejection stands, claims resolve |
| `webhooks` (897 k) | 1 refund, 4 keys (with effect and guard, settlement, event, creation), a stray event, 2 calls, 1 failure | once per key, the book tells the truth and is complete, `Inbox` |
| `flags` (1.3 M) | 3 versions, rollouts below and above 25 %, payloads that name another environment, 2 attempts, 1 fault | `Rollout`, the threshold and its one exception, the ramp, publishes end |
| `audit` (382 k) | 2 submits and a create on one payment, a denial, 2 events, batches of 2 | one chain, `Trail`, no deadlock, verifier right both ways |
| `kyc` (147 k) | an analyst, an officer, one who is both; low and high risk, in the file and in the payload; 2 replays at once | holder, second person, one verdict |
| `console` (784 k) | every 1 or 2 roles, 3 scopes, 6 records, 2 reveals, 2 buttons | list = detail, no mixing of roles, trail first, offers hold |
| `effect_lost_to_a_crash` | 1 refund, 1 crash | violation |
| `failed_then_paid` | 1 refund, 1 failing update | violation |
| `late_publish_served` | 3 versions, no faults | violation |
| `decidable_but_denied` | as `console` | violation |

Why these bounds. Two refunds that fit alone and not together are what the
cumulative guard is about; two processes are a caller and a sweep on one row, or
two sweeps; two attempts have a retry and a last attempt. Two calls of `decide()`
and two requests are a race, and a request parked behind another. Three versions
are a publish, the one that supersedes it, and one more. Four transactions have two
that share a payment in different plans, and a writer without rows. Two calls and one
failure are a retry that overlaps its original, and one that comes after it died;
four keys are one of each kind the code has. One fault per
behaviour is the single failure the code is written for; in `refunds_live`, two.
The proofs then do without the bounds.

`CHECK_DEADLOCK FALSE` is set everywhere: the system may stop when every request
has been dealt with and nobody comes with another. That nobody waits for good
is stated as a property (`TransactionsEnd`, `SubmittedSettles`, `ClaimsResolve`,
`PublishSettles`). State symmetry is used in `refunds_safety` alone, which has no
liveness property.

Fairness. A step of a request that is under way happens (`await`s return): weak
fairness of a process's, a call's, a transaction's own steps. Outbox rows that are
queued are taken up: the request that wrote them does, or the sweep, which
`app/api/effects/sweep/route.ts` says a deployment puts on a cron. The
processor delivers an event until it was taken (`processor.ts:196`: "Delivery is
at-least-once"); this fairness is strong, because `Calls` bounds how many requests
the model serves at once and the server has no such bound. Nothing else is fair:
nobody has to approve, roll back, reconcile, retry, or verify.
Faults are never fair.

### What the violations show

* `effect_lost_to_a_crash`: `claim()` commits `running` first, and both claims look
  for `queued`. A process that dies in between leaves a refund submitted for good;
  the schema says a call cannot be lost, and the sweep's route that it is for rows
  whose process died.
* `failed_then_paid`: a transient failure on the last attempt is settled as failed;
  the row update after it throws, the row is requeued, and the next call is paid.
* `late_publish_served`: the settlement of a superseded publish is refused, but the
  call it made is not undone: the service serves a version the config left.
* `decidable_but_denied`: the page asks `approvalRefusal` only; `decide()` also
  authorizes `approve` in the record's scope.

Further counterexamples, one property each, reproduced by their own configuration:

| Configuration | Property | What happens |
| --- | --- | --- |
| `MCRefundsStolen` | `CallerSeesSettled` | the sweep takes the row between commit and `runEffect`: the caller is told ok, the refund is in flight |
| `MCRefundsAsk` | `ReconcileAsks` | a second reconcile has the key of the first and asks nothing |
| `MCApprovalsOverruled` | `RejectedNotApplied` | a rejection lands while the request is being replayed |
| `MCApprovalsUnknown` | `StaleNotApplied` | the change is committed, its external call undetermined, the request marked stale |
| `MCWebhooksOriginal` | `OriginalReturned` | two calls with one key: the loser finds the state moved on and stores its 'invalid' first; the key answers 'invalid' from then on, though the change was made, against `schema.prisma:113` |
| `MCKycEscalated` | `EscalationsApproved` | an escalated case of low risk is approved by its holder alone |
| `MCKycRated` | `RiskyHasOfficer` | an approval whose payload names a low `riskScore` is committed without an officer on a case of high risk, against `apps/kyc/resource.ts:12` |
| `MCFlagsElsewhere` | `LargeRolloutSigned` | an update whose payload names another environment puts production above the threshold without a release manager, against `apps/flags/resource.ts:38` |

Some statements hold only with an exception the property names. `VerdictTrue` says
that a refund's state agrees with the processor unless its row was reopened, which
`failed_then_paid` shows to be possible and `VerdictTrue` to be the only way to a refund
that is failed and paid; `MoneyWithinCaptured` and the refinement of `Ledger` leave out
the money of such refunds. `DecidableUnlessOutOfScope` is what is left of
`DecidableIsTaken`. `PublishSettles`
excepts a publish whose runner died and one left undetermined: neither is taken up
again, though `apps/flags/service.ts:58` says it is "simply retried".
`RejectionStands` excepts a rejection that a replay has overtaken. `ClaimsResolve`
and `OnePending` except a request hit by a fault itself: one whose call died is
not taken up again, and one whose requester vanished is reopened unconditionally.
`OncePerKey` excepts a repeatable intent (a creation, a reconcile) that was
disturbed: the record is written after the transaction, so a retry that overlaps
it does the work again. `BookedAsDone` excepts disturbed keys for the same reason.
`SecondPerson` excepts an approval whose own payload named a low risk, and
`LargeRolloutApproved` (with `WrittenOnApproval`, its strengthening) a change whose own
payload named another environment; a refusal of a customer has no exception, and
neither has what came through a replay. The refund properties do not depend on who
approved a submit, so they hold with payloads of either kind.

## 4. The proofs

Each `*Proofs` module proves `Spec => []Inv` for its component and derives the
rest. No bound on instances is assumed; the constants' assumptions are those the
modules name, and TLC evaluates them in the passing runs.

* **RefundsProofs.** `WithinCaptured` is not inductive by itself. `Inv` adds that a
  process between claim and release has its row `running` (`Holding`), that rows
  exist exactly for the refunds that left the drafts (`RowExists`), that a process
  about to finish has settled (`FinishSettled`), which answers may be on their way
  (`AnswerKind`) and that every queued row has an attempt left or a fault to show
  for it (`RetryPaid`). `TruthInv` adds that an answer on its way agrees with the
  processor (`OutcomeTruth`) and that the row of a refund failed without a decision
  is not taken again unless it was reopened (`FailedStays`). From it `VerdictHolds`,
  `MoneyHolds` and `ImplementsLedger` follow for any set of faults; that nothing is
  reopened, and so the full `SettledTruth` and all the money moved within the captured
  amount, needs `NoLateFaults`: no "record" and no "terminal" fault, the two that throw
  after a settlement. `StrandedHolds` is the safety core of `SubmittedSettles`: running
  rows in nobody's hands are at most as many as the faults, and a submitted refund has
  its row queued or running. Its induction is on the cardinality of `Stranded`, which a
  fault adds one row to at most.
* **ApprovalsProofs.** `SafetyInv` has that whoever is deciding may (`Entitled`), that a claim
  has its quorum (`Quorum`), that one call is between claim and resolution
  (`OneReplay`) and that what is pending or about to be replayed is not applied yet
  (`NotYetApplied`). From it: the refinement of `FourEyes`, `RejectionStands`,
  `AppliedAsReviewed`, `OnePending`. `Inv` adds `Attended`, the safety core of
  `ClaimsResolve`: a request with its quorum, or claimed, that no fault hit has a call
  that will move it on. It is here that the insert of an approval comes before the count.
* **WebhooksProofs.** `OncePerKey` needs that what has moved on stays so (`MovedOn`),
  that a success on its way to the record is true of the trail (`AnswersTrue`), and,
  for repeatable intents, that an undisturbed key has one call in flight (`Alone`)
  whose success is recorded or about to be (`RecordedDone`). For the inbox: a final
  state has exactly one verdict (`VerdictOnce`), and a delivery that is about to book
  'applied' or 'converged' is right to (`Delivers`, `RefusalTrue`).
* **FlagsProofs.** Rows exist for written versions only, and a success on its way to
  settlement was accepted; a write is shown once (`Written`) for update, replay and
  rollback, with the approval each needs: an update above the threshold is one whose
  payload named another environment (`UpdateWrites`). A step is a write, a publish the
  service takes, a confirmation or a stutter
  of `Rollout`; the confirmation's case is where `SuccessAccepted` and
  `ConfirmationIsCurrent` are needed. `PublishAttended` is the safety core of
  `PublishSettles`.
* **AuditChainProofs.** From the lock to the commit the holder's read stays the latest
  row (`ReadIsLatest`, `PendingExtends`), because nobody else is between read and
  commit (`HolderOnly`). `Trail` follows: the history is the hash of the latest row, and
  a commit appends the event of the transaction that holds the chain. `NoDeadlock` is
  proved by rank: in a finite set of transactions take one that waits for the row of
  the greatest rank; whoever holds that row waits for a greater one, for the chain, or
  for nobody, and whoever holds the chain waits for nobody (`RowsLocked`).
* **KycProofs.** `KycInv`: what is on its way to a replay was approved by an officer other than
  its requester, and what is decided at once is an approval the rule was not read as
  risky for, by the file or by the payload (`SecondPerson`); `ClaimableIsUnassigned` and
  `DecidedOnce` carry the rest, and
  `VerdictIsFinal`: a decided case is in a state no operation starts from.
* **ConsoleProofs.** That list and detail agree is proved for any principal of the
  catalog; the page's invariant says what the page being made and the page shown
  may contain, as long as the record has not moved. `RolesDoNotMix` goes through the
  catalog role by role: the only role a deny rule excepts grants by itself what the
  rule is about (`CatalogGrants`, `OneRoleSuffices`). It is a statement about people, so
  `ViewersAssumption` keeps the roles of system principals out: somebody who held
  `system_effects` beside `release_manager` would be excepted from the production rule
  by one role and granted `publish` by the other.

* **AuditVerifyProofs.** The verifier stands at a stored row whose hash it expects
  (`CursorTrue`), and has not got past a change (`NotPassed`). `Untouched`: in an
  honest trail every row of a batch is linked to the one before it, in the batch or
  at the cursor. `Stuck`: the row after a rewritten or deleted one is linked to a
  hash no stored row has, because hashes grow along the trail (`HashesGrow`); the
  row after it exists because the naturals are well-founded (`NatMin`).

Two assumptions serve the proofs beside those on amounts, ranks and roles:
`TxnsAssumption`, that there are finitely many transactions (connections come from a
pool), which `NoDeadlock` needs for a row of greatest rank, and `ViewersAssumption`, above.

Checked by TLC only: all liveness. With fairness and ENABLED it is out of the prover's
reach; `StrandedHolds`, `AttendedHolds`, `PublishAttendedHolds` and `NoDeadlockHolds` prove
the safety part of each of the liveness properties, that is, who there is to take the
next step in every state, and TLC checks that fairness then makes it happen.

## 5. Not modelled, and the plan

Not modelled: registry, session and identity (start-up configuration, no state under
the properties), seed and reseed (demo data), the admin token (one comparison), the
user interface, the layout of masked values, paging and sorting.

