------------------------------- MODULE Flags -------------------------------
(***************************************************************************)
(* One production flag config: changes written against a version, large    *)
(* rollouts parked for a release manager, rollbacks, and the publish of    *)
(* each version to the flag service through the outbox.                    *)
(*                                                                         *)
(* Every write makes a version, so the row's enabled and rolloutPct are    *)
(* change[version], and change[v] is also the payload of v's publish.  An  *)
(* effect row is named by its version; Refunds shows that one process at   *)
(* most runs a row (OneRunner), so here a row carries the step of the      *)
(* process that runs it.                                                   *)
(***************************************************************************)
EXTENDS Naturals, FiniteSets

CONSTANTS
    Percentages,   \* the rollouts people ask for
    ApprovalPct,   \* PRODUCTION_APPROVAL_PCT
    MaxAttempts,   \* effects.maxAttempts
    MaxVersion,    \* bound: how many versions are written
    Faults,        \* subset of FaultKinds
    FaultBudget,   \* bound: how many faults happen in a behaviour
    MaxReplays     \* bound: how many approved requests are replayed at once

FaultKinds == {"unknown",  \* the publish throws: nobody knows if it landed
               "settle",   \* settle() throws, before or after its commit
               "crash"}    \* the process running a row dies

ASSUME PercentagesAssumption ==
    Percentages \subseteq 0..100 /\ 0 \in Percentages /\ ApprovalPct \in 0..100
ASSUME BoundsAssumption == MaxAttempts \in Nat \ {0} /\ MaxVersion \in Nat \ {0}
ASSUME FaultsAssumption == Faults \subseteq FaultKinds /\ FaultBudget \in Nat
ASSUME ReplaysAssumption == MaxReplays \in Nat \ {0}

Versions == 1..MaxVersion
Changes == [enabled : BOOLEAN, rolloutPct : Percentages]
Environments == {"production", "other"}   \* what a payload may name
Off == [enabled |-> FALSE, rolloutPct |-> 0]

VARIABLES
    state,             \* live | publishing | publish_failed
    version,           \* flag_configs.version
    publishedVersion,  \* flag_configs.publishedVersion
    change,            \* per version: the config it wrote
    origin,            \* per version: its audit row and the version it was
                       \* written against, and who let it through, which
                       \* is "elsewhere" (the row does not say so) for a
                       \* large rollout whose payload named an environment
    parked,            \* pending approval requests, {} or one change
    approving,         \* approved requests whose replay is under way
    publish,           \* per version: the effect row, with its runner's step
    answer,            \* per version: what the service answered its runner
    attempts,          \* per version: effects.attempts
    served,            \* the version the flag service serves
    accepted,          \* the versions it has ever taken
    faults             \* how many faults have happened

configVars == <<state, version, publishedVersion, change, origin>>
approvalVars == <<parked, approving>>
serviceVars == <<served, accepted>>
vars == <<configVars, approvalVars, publish, answer, attempts, serviceVars, faults>>

Init ==
    /\ state = "live"
    /\ version = 1 /\ publishedVersion = 1
    /\ change = [v \in Versions |-> Off]
    /\ origin = [v \in Versions |-> [by |-> "seed", baseline |-> 0]]
    /\ parked = {} /\ approving = {}
    /\ publish = [v \in Versions |-> "none"]
    /\ answer = [v \in Versions |-> "none"]
    /\ attempts = [v \in Versions |-> 0]
    /\ served = 1 /\ accepted = {1}
    /\ faults = 0

-----------------------------------------------------------------------------
(* Changing the config.                                                    *)

\* Mutant: the baseline of the change is not compared.
AnyBaseline(expected) == TRUE

ReviewedBaseline(expected) == expected = version

\* Mutant: only switching off is refused.
StaysOn(c) == change[version].enabled => c.enabled

MonotonicRollout(c) ==
    change[version].enabled => c.enabled /\ c.rolloutPct >= change[version].rolloutPct

(* The update's states and guard.                                          *)
MayUpdate(c, expected) ==
    /\ state \in {"live", "publish_failed"}
    /\ ReviewedBaseline(expected)
    /\ MonotonicRollout(c)

\* Mutant: only a flag that is on already needs one.
NeedsApprovalWhenOn(c, environment) ==
    environment = "production" /\ change[version].enabled /\ c.rolloutPct > ApprovalPct

(* The rule is read on {...record, ...payload}: an environment in the      *)
(* payload hides the record's, which is production.                        *)
NeedsApproval(c, environment) == environment = "production" /\ c.rolloutPct > ApprovalPct

(* The transaction: the row, its audit row and the publish effect.         *)
Commit(c, by, expected) ==
    /\ version < MaxVersion
    /\ state' = "publishing"
    /\ version' = version + 1
    /\ change' = [change EXCEPT ![version + 1] = c]
    /\ origin' = [origin EXCEPT ![version + 1] = [by |-> by, baseline |-> expected]]
    /\ publish' = [publish EXCEPT ![version + 1] = "queued"]
    /\ UNCHANGED <<publishedVersion, answer, attempts, serviceVars, faults>>

LetThroughBy(c, environment) ==
    IF environment = "production" \/ c.rolloutPct <= ApprovalPct THEN "direct" ELSE "elsewhere"

Update(c, expected, environment) ==
    /\ MayUpdate(c, expected)
    /\ ~NeedsApproval(c, environment)
    /\ Commit(c, LetThroughBy(c, environment), expected)
    /\ UNCHANGED approvalVars

Park(c, expected, environment) ==
    /\ MayUpdate(c, expected)
    /\ NeedsApproval(c, environment)
    /\ parked = {}
    /\ parked' = {[change |-> c, expected |-> expected]}
    /\ UNCHANGED <<configVars, approving, publish, answer, attempts, serviceVars, faults>>

Approve(q) ==
    /\ q \in parked
    /\ Cardinality(approving) < MaxReplays
    /\ parked' = {}
    /\ approving' = approving \union {q}
    /\ UNCHANGED <<configVars, publish, answer, attempts, serviceVars, faults>>

Refuse ==
    /\ parked # {}
    /\ parked' = {}
    /\ UNCHANGED <<configVars, approving, publish, answer, attempts, serviceVars, faults>>

Replay(q) ==
    /\ q \in approving
    /\ approving' = approving \ {q}
    /\ MayUpdate(q.change, q.expected)
    /\ Commit(q.change, "approved", q.expected)
    /\ UNCHANGED parked

ReplayStale(q) ==
    /\ q \in approving
    /\ ~MayUpdate(q.change, q.expected)
    /\ approving' = approving \ {q}
    /\ UNCHANGED <<configVars, parked, publish, answer, attempts, serviceVars, faults>>

(* From any state, with no approver and no baseline.                       *)
Rollback ==
    /\ Commit(Off, "rollback", version)
    /\ UNCHANGED approvalVars

-----------------------------------------------------------------------------
(* The publish of one version.                                             *)

Fault(kind) ==
    /\ kind \in Faults
    /\ faults < FaultBudget
    /\ faults' = faults + 1

Goto(v, step) == publish' = [publish EXCEPT ![v] = step]

Claim(v) ==
    /\ publish[v] = "queued"
    /\ Goto(v, "call")
    /\ attempts' = [attempts EXCEPT ![v] = @ + 1]
    /\ UNCHANGED <<configVars, approvalVars, answer, serviceVars, faults>>

Answered(v, a, step) ==
    /\ answer' = [answer EXCEPT ![v] = a]
    /\ Goto(v, step)

(* served.set, whatever version the service had before.                    *)
Serve(v) == served' = v /\ accepted' = accepted \union {v}

CallSucceeds(v) ==
    /\ publish[v] = "call"
    /\ Serve(v)
    /\ Answered(v, "succeeded", "settle")
    /\ UNCHANGED <<configVars, approvalVars, attempts, faults>>

(* Rejected for good, or transient with attempts left.                     *)
CallFails(v) ==
    /\ publish[v] = "call"
    /\ \/ Answered(v, "failed", "settle")
       \/ attempts[v] < MaxAttempts /\ Answered(v, "failed", "requeue")
    /\ UNCHANGED <<configVars, approvalVars, attempts, serviceVars, faults>>

CallThrows(v) ==
    /\ publish[v] = "call"
    /\ Fault("unknown")
    /\ Serve(v) \/ UNCHANGED serviceVars
    /\ Answered(v, "unknown", "settle")
    /\ UNCHANGED <<configVars, approvalVars, attempts>>

\* Mutant: a confirmation for any version is believed.
AnyConfirmation(v) == TRUE

ConfirmationIsCurrent(v) == v = version

\* Mutant: an undetermined publish is confirmed.
SettlementOfUnknown(v) ==
    IF state = "publishing" /\ ConfirmationIsCurrent(v) /\ answer[v] # "failed"
    THEN state' = "live" /\ publishedVersion' = v
    ELSE UNCHANGED <<state, publishedVersion>>
\* Mutant: a failed publish is not recorded.
SettlementOfSuccess(v) ==
    IF state = "publishing" /\ ConfirmationIsCurrent(v) /\ answer[v] = "succeeded"
    THEN state' = "live" /\ publishedVersion' = v
    ELSE UNCHANGED <<state, publishedVersion>>

(* publish_succeeded and publish_failed through execute(); an 'unknown'    *)
(* answer and a confirmation that does not apply change nothing.           *)
Settlement(v) ==
    IF state = "publishing" /\ ConfirmationIsCurrent(v) /\ answer[v] # "unknown"
    THEN IF answer[v] = "succeeded"
         THEN state' = "live" /\ publishedVersion' = v
         ELSE state' = "publish_failed" /\ UNCHANGED publishedVersion
    ELSE UNCHANGED <<state, publishedVersion>>

Settle(v) ==
    /\ publish[v] = "settle"
    /\ Settlement(v)
    /\ Goto(v, "finish")
    /\ UNCHANGED <<version, change, origin, approvalVars, answer, attempts, serviceVars, faults>>

SettleThrows(v) ==
    /\ publish[v] = "settle"
    /\ Fault("settle")
    /\ Settlement(v) \/ UNCHANGED <<state, publishedVersion>>
    /\ Goto(v, "requeue")
    /\ UNCHANGED <<version, change, origin, approvalVars, answer, attempts, serviceVars>>

Requeue(v) ==
    /\ publish[v] = "requeue"
    /\ Answered(v, "none", "queued")
    /\ UNCHANGED <<configVars, approvalVars, attempts, serviceVars, faults>>

Finish(v) ==
    /\ publish[v] = "finish"
    /\ Answered(v, "none", answer[v])
    /\ UNCHANGED <<configVars, approvalVars, attempts, serviceVars, faults>>

Running == {"call", "settle", "requeue", "finish"}

(* The row stays 'running', and nobody runs it.                            *)
Crash(v) ==
    /\ publish[v] \in Running
    /\ Fault("crash")
    /\ Answered(v, "none", "orphan")
    /\ UNCHANGED <<configVars, approvalVars, attempts, serviceVars>>

Work(v) ==
    \/ Claim(v) \/ CallSucceeds(v) \/ CallFails(v) \/ Settle(v) \/ Requeue(v) \/ Finish(v)

Next ==
    \/ \E c \in Changes, expected \in Versions, environment \in Environments :
          Update(c, expected, environment) \/ Park(c, expected, environment)
    \/ \E q \in parked : Approve(q)
    \/ \E q \in approving : Replay(q) \/ ReplayStale(q)
    \/ Refuse \/ Rollback
    \/ \E v \in Versions : Work(v) \/ CallThrows(v) \/ SettleThrows(v) \/ Crash(v)

Spec == Init /\ [][Next]_vars

(* The request that wrote a version, or the sweep, works its row off.      *)
FairSpec == Spec /\ \A v \in Versions : WF_vars(Work(v))

-----------------------------------------------------------------------------
(* Properties.                                                             *)

Writers == {"direct", "elsewhere", "approved", "rollback"}

TypeOK ==
    /\ state \in {"live", "publishing", "publish_failed"}
    /\ version \in Versions /\ publishedVersion \in Versions
    /\ change \in [Versions -> Changes]
    /\ origin \in [Versions -> [by : {"seed"} \union Writers, baseline : 0..MaxVersion]]
    /\ parked \in SUBSET [change : Changes, expected : Versions]
    /\ approving \in SUBSET [change : Changes, expected : Versions]
    /\ publish \in [Versions -> Running \union {"none", "queued", "orphan",
                                                "succeeded", "failed", "unknown"}]
    /\ answer \in [Versions -> {"none", "succeeded", "failed", "unknown"}]
    /\ attempts \in [Versions -> Nat]
    /\ served \in Versions /\ accepted \in SUBSET Versions
    /\ faults \in Nat

(* assertConfirmationIsCurrent: a config that says 'live' has its current  *)
(* version confirmed, however late an older publish reports.               *)
LiveIsConfirmed == state = "live" => publishedVersion = version

(* publishedVersion never names a config the service did not take, be it   *)
(* a failed one, an undetermined one or one that was superseded.           *)
PublishedWasAccepted == publishedVersion \in accepted /\ served \in accepted

(* Nothing above the threshold is served in production without the release *)
(* manager, whichever sequence of updates, switches and replays led there, *)
(* unless the payload of that very change named another environment.       *)
LargeRolloutApproved ==
    \A v \in accepted :
        change[v].rolloutPct > ApprovalPct => origin[v].by \in {"approved", "elsewhere"}

(* "Above this, a production rollout is a release manager's decision, not  *)
(* one engineer's", whatever the payload named.                            *)
LargeRolloutSigned ==
    \A v \in accepted : change[v].rolloutPct > ApprovalPct => origin[v].by = "approved"

(* What an approval let through was written on the version it was reviewed *)
(* against: no edit, and no rollback, came in between.                     *)
ApprovedOnReviewed ==
    \A v \in Versions : origin[v].by = "approved" => origin[v].baseline = v - 1

(* A rollout only goes up; coming down, or off, is a rollback.             *)
RampsUp ==
    [][\A v \in Versions : version = v /\ version' = v + 1 /\ change[v].enabled =>
          \/ origin'[v + 1].by = "rollback"
          \/ change'[v + 1].enabled /\ change'[v + 1].rolloutPct >= change[v].rolloutPct]_vars

(* A publish of the current version comes to an end, unless its runner     *)
(* died or the service left it undetermined: no sweep takes those up.      *)
PublishSettles ==
    \A v \in Versions :
        state = "publishing" /\ version = v
            ~> state # "publishing" \/ version # v \/ publish[v] \in {"orphan", "unknown"}

(* What that rests on: the row of the version being published is queued,   *)
(* in somebody's hands, or one of the two that no sweep takes up.          *)
PublishAttended ==
    state = "publishing" =>
        \/ publish[version] \in {"queued", "call", "settle", "requeue", "orphan", "unknown"}
        \/ publish[version] = "finish" /\ answer[version] = "unknown"

(* "publishedVersion: what the SDK is actually serving", once it is live.  *)
ServedIsPublished == state = "live" => served = publishedVersion

(* The strengthening the proofs rest on: only versions that were written   *)
(* have a row, and a success on its way to settlement was accepted.        *)
RowsOfVersions == \A v \in Versions : v > version => publish[v] = "none"

SuccessAccepted ==
    \A v \in Versions : publish[v] = "settle" /\ answer[v] = "succeeded" => v \in accepted

WrittenOnApproval ==
    /\ \A v \in Versions : v > version => origin[v].by = "seed" /\ change[v] = Off
    /\ \A v \in Versions :
          change[v].rolloutPct > ApprovalPct => origin[v].by \in {"approved", "elsewhere"}

SafetyInv ==
    /\ TypeOK /\ LiveIsConfirmed /\ PublishedWasAccepted /\ publishedVersion <= version
    /\ RowsOfVersions /\ SuccessAccepted /\ WrittenOnApproval /\ ApprovedOnReviewed

Inv == SafetyInv /\ PublishAttended

-----------------------------------------------------------------------------
(* The abstract rollout this implements.                                   *)
R == INSTANCE Rollout WITH
        current <- version, live <- state = "live", confirmed <- publishedVersion,
        taken <- accepted

(* The console says a config is live only on the service's word for this   *)
(* very version, and the service only ever takes versions that exist.      *)
RolloutSpec == R!Spec
=============================================================================
