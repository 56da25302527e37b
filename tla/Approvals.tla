----------------------------- MODULE Approvals -----------------------------
(***************************************************************************)
(* The approval engine: park() inside execute(), and decide(), one action  *)
(* per await of decide() so that decisions interleave.  One record, one    *)
(* protected action on it; the parked payload is abstracted to the record  *)
(* version it was made against (expectedVersion), which the guard compares *)
(* with the current one at the replay.                                     *)
(***************************************************************************)
EXTENDS Naturals, FiniteSets

CONSTANTS
    Requests,    \* approval requests that may be parked
    Principals,  \* the people
    Eligible,    \* those with an eligible role and <resource>:approve
    Required,    \* [Requests -> Nat]: requiredApprovers, from the rule its
                 \* payload matches
    Calls,       \* in-flight calls of decide()
    Faults,      \* subset of {"crash", "gone"}: a call dies between two
                 \* steps; getPrincipalById(requesterId) finds nobody
    MaxVersion,  \* bound: how far the record's version runs
    MaxHit       \* bound: how many faults hit in a behaviour

ASSUME PrincipalsAssumption ==
    Principals # {} /\ IsFiniteSet(Principals) /\ Eligible \subseteq Principals
ASSUME RequestsAssumption == Requests # {}
ASSUME RequiredAssumption ==
    Required \in [Requests -> Nat \ {0}] /\ MaxVersion \in Nat /\ MaxHit \in Nat
ASSUME FaultsAssumption == Faults \subseteq {"crash", "gone"}

VARIABLES
    rstate,      \* approval_requests.state; "none" before the row exists
    requester,   \* approval_requests.requesterId
    baseline,    \* the version in approval_requests.payload
    approvedBy,  \* approvals rows with decision 'approved'
    rejectedBy,  \* approvals rows with decision 'rejected'
    applied,     \* audit rows of kind write with reason approved:<request>
    version,     \* the record's version
    pc, at,      \* per call: its next step and the request it is about
    who,         \* per call: the approver
    hit          \* history: the requests a fault has hit

requestVars == <<requester, baseline>>
decisionVars == <<approvedBy, rejectedBy>>
callVars == <<pc, at, who>>
vars == <<rstate, requestVars, decisionVars, applied, version, callVars, hit>>

AnyRequest == CHOOSE r \in Requests : TRUE
Anyone == CHOOSE p \in Principals : TRUE

Init ==
    /\ rstate = [r \in Requests |-> "none"]
    /\ requester = [r \in Requests |-> Anyone]
    /\ baseline = [r \in Requests |-> 0]
    /\ approvedBy = [r \in Requests |-> {}]
    /\ rejectedBy = [r \in Requests |-> {}]
    /\ applied = [r \in Requests |-> 0]
    /\ version = 0
    /\ pc = [c \in Calls |-> "idle"]
    /\ at = [c \in Calls |-> AnyRequest]
    /\ who = [c \in Calls |-> Anyone]
    /\ hit = {}

\* Mutant: park() does not look for a pending request.
NeverPending == TRUE

NonePending == \A s \in Requests : rstate[s] # "pending"

(* park(), under the record's row lock: a pending request is returned as   *)
(* it is, so a second one is only created when none is pending.            *)
Park(r, p) ==
    /\ rstate[r] = "none"
    /\ NonePending
    /\ rstate' = [rstate EXCEPT ![r] = "pending"]
    /\ requester' = [requester EXCEPT ![r] = p]
    /\ baseline' = [baseline EXCEPT ![r] = version]
    /\ UNCHANGED <<decisionVars, applied, version, callVars, hit>>

(* A write to the record that needs no approval (a rollback).              *)
Write ==
    /\ version < MaxVersion
    /\ version' = version + 1
    /\ UNCHANGED <<rstate, requestVars, decisionVars, applied, callVars, hit>>

-----------------------------------------------------------------------------
(* decide(), from one await to the next.                                   *)

\* Mutant: the requester is not excluded.
AnyEligible(p, r) == p \in Eligible

MayDecide(p, r) == p # requester[r] /\ p \in Eligible

(* Lines up to the decision transaction: read the request, check it.       *)
Begin(c, p, r, decision) ==
    /\ pc[c] = "idle"
    /\ rstate[r] = "pending"
    /\ MayDecide(p, r)
    /\ pc' = [pc EXCEPT ![c] = decision]
    /\ at' = [at EXCEPT ![c] = r]
    /\ who' = [who EXCEPT ![c] = p]
    /\ UNCHANGED <<rstate, requestVars, decisionVars, applied, version, hit>>

Go(c, next) == pc' = [pc EXCEPT ![c] = next]

Decided(r) == approvedBy[r] \union rejectedBy[r]

(* The approvals row and its audit row; unique per request and approver.   *)
RecordApproval(c) ==
    /\ pc[c] = "approving"
    /\ who[c] \notin Decided(at[c])
    /\ approvedBy' = [approvedBy EXCEPT ![at[c]] = @ \union {who[c]}]
    /\ Go(c, "count")
    /\ UNCHANGED <<rstate, requestVars, rejectedBy, applied, version, at, who, hit>>

RecordRejection(c) ==
    /\ pc[c] = "rejecting"
    /\ who[c] \notin Decided(at[c])
    /\ rejectedBy' = [rejectedBy EXCEPT ![at[c]] = @ \union {who[c]}]
    /\ Go(c, "reject")
    /\ UNCHANGED <<rstate, requestVars, approvedBy, applied, version, at, who, hit>>

AlreadyDecided(c) ==
    /\ pc[c] \in {"approving", "rejecting"}
    /\ who[c] \in Decided(at[c])
    /\ Go(c, "idle")
    /\ UNCHANGED <<rstate, requestVars, decisionVars, applied, version, at, who, hit>>

SetState(c, s) == rstate' = [rstate EXCEPT ![at[c]] = s]

(* Unconditional: whatever state the request has reached meanwhile.        *)
MarkRejected(c) ==
    /\ pc[c] = "reject"
    /\ SetState(c, "rejected")
    /\ Go(c, "idle")
    /\ UNCHANGED <<requestVars, decisionVars, applied, version, at, who, hit>>

\* Mutants: the count takes in rejections too; one approval too many is asked.
EnoughDecisions(r) == Cardinality(Decided(r)) >= Required[r]
MoreThanEnough(r) == Cardinality(approvedBy[r]) > Required[r]

Enough(r) == Cardinality(approvedBy[r]) >= Required[r]

Count(c) ==
    /\ pc[c] = "count"
    /\ Go(c, IF Enough(at[c]) THEN "claim" ELSE "idle")
    /\ UNCHANGED <<rstate, requestVars, decisionVars, applied, version, at, who, hit>>

\* Mutant: the claim is an unconditional update.
ClaimAnyway(c) ==
    /\ pc[c] = "claim"
    /\ SetState(c, "applying")
    /\ Go(c, "replay")
    /\ UNCHANGED <<requestVars, decisionVars, applied, version, at, who, hit>>

(* updateMany where state = 'pending': one of several wins.                *)
Claim(c) ==
    /\ pc[c] = "claim"
    /\ IF rstate[at[c]] = "pending"
       THEN SetState(c, "applying") /\ Go(c, "replay")
       ELSE Go(c, "idle") /\ UNCHANGED rstate
    /\ UNCHANGED <<requestVars, decisionVars, applied, version, at, who, hit>>

(* A fault hits the request the call is about.                             *)
Hit(c, fault) ==
    /\ fault \in Faults
    /\ Cardinality(hit) < MaxHit
    /\ hit' = hit \union {at[c]}

RequesterGone(c) ==
    /\ pc[c] = "replay"
    /\ Hit(c, "gone")
    /\ SetState(c, "pending")
    /\ Go(c, "idle")
    /\ UNCHANGED <<requestVars, decisionVars, applied, version, at, who>>

\* Mutant: the guard does not compare the versions.
AnyBaseline(r) == TRUE

BaselineHolds(r) == baseline[r] = version

(* execute() as the requester with approvedRequestId.  Its commit may be   *)
(* followed by an external call whose outcome nobody knows: the result is  *)
(* then not 'ok', and what is not 'ok' is about to be marked stale.        *)
Replay(c) ==
    /\ pc[c] = "replay"
    /\ BaselineHolds(at[c])
    /\ applied' = [applied EXCEPT ![at[c]] = @ + 1]
    /\ version' = version + 1
    /\ \E s \in {"approved", "stale"} : Go(c, s)
    /\ UNCHANGED <<rstate, requestVars, decisionVars, at, who, hit>>

ReplayInvalid(c) ==
    /\ pc[c] = "replay"
    /\ ~BaselineHolds(at[c])
    /\ Go(c, "stale")
    /\ UNCHANGED <<rstate, requestVars, decisionVars, applied, version, at, who, hit>>

(* Unconditional as well.                                                  *)
Resolve(c) ==
    /\ pc[c] \in {"approved", "stale"}
    /\ SetState(c, pc[c])
    /\ Go(c, "idle")
    /\ UNCHANGED <<requestVars, decisionVars, applied, version, at, who, hit>>

Crash(c) ==
    /\ pc[c] # "idle"
    /\ Hit(c, "crash")
    /\ Go(c, "idle")
    /\ UNCHANGED <<rstate, requestVars, decisionVars, applied, version, at, who>>

Step(c) ==
    \/ RecordApproval(c) \/ RecordRejection(c) \/ AlreadyDecided(c)
    \/ MarkRejected(c) \/ Count(c) \/ Claim(c)
    \/ Replay(c) \/ ReplayInvalid(c) \/ Resolve(c)

Next ==
    \/ \E r \in Requests, p \in Principals : Park(r, p)
    \/ Write
    \/ \E c \in Calls, p \in Principals, r \in Requests :
          \E d \in {"approving", "rejecting"} : Begin(c, p, r, d)
    \/ \E c \in Calls : Step(c) \/ RequesterGone(c) \/ Crash(c)

Spec == Init /\ [][Next]_vars

(* A decision that was started runs to its end.                            *)
FairSpec == Spec /\ \A c \in Calls : WF_vars(Step(c))

-----------------------------------------------------------------------------
(* Properties.                                                             *)

TypeOK ==
    /\ rstate \in [Requests -> {"none", "pending", "applying", "approved", "rejected", "stale"}]
    /\ requester \in [Requests -> Principals]
    /\ baseline \in [Requests -> Nat]
    /\ approvedBy \in [Requests -> SUBSET Principals]
    /\ rejectedBy \in [Requests -> SUBSET Principals]
    /\ applied \in [Requests -> Nat]
    /\ version \in Nat
    /\ pc \in [Calls -> {"idle", "approving", "rejecting", "reject", "count", "claim",
                         "replay", "approved", "stale"}]
    /\ at \in [Calls -> Requests]
    /\ who \in [Calls -> Principals]
    /\ hit \in SUBSET Requests

Replaying(c) == pc[c] \in {"replay", "approved", "stale"}

(* The claim pending -> applying: however many approvals land together,    *)
(* one call at most replays the request, so no second replay can mark a    *)
(* change stale that the first one applied.                                *)
OneReplayer ==
    \A c, d \in Calls : Replaying(c) /\ Replaying(d) /\ at[c] = at[d] => c = d

(* The parked change reaches the record at most once.                      *)
AppliesOnce == \A r \in Requests : applied[r] <= 1

(* Separation of duties on what was applied, not on what was asked: every  *)
(* applied change has the required number of distinct eligible approvers,  *)
(* none of them its requester and none of them also among the rejecters.   *)
FourEyesOnApplied ==
    \A r \in Requests : applied[r] > 0 =>
        /\ Cardinality(approvedBy[r]) >= Required[r]
        /\ approvedBy[r] \subseteq Eligible \ {requester[r]}
        /\ approvedBy[r] \intersect rejectedBy[r] = {}

(* park(): a record never has two open requests for one action, so nobody  *)
(* approves a request another one has overtaken.  Only a request whose     *)
(* requester has vanished is reopened beside one that was parked since.    *)
OnePending ==
    \A r, s \in Requests \ hit : rstate[r] = "pending" /\ rstate[s] = "pending" => r = s

(* A rejection that nobody's replay had overtaken stands: no approval that *)
(* was already being counted or claimed can still apply the change.        *)
RejectionStands ==
    [][\A r \in Requests :
          rstate[r] = "rejected" /\ ~(\E c \in Calls : at[c] = r /\ Replaying(c))
              => rstate'[r] = "rejected" /\ applied'[r] = applied[r]]_vars

(* What is applied is what was reviewed: the record did not move between   *)
(* the parking and the replay.                                             *)
AppliedAsReviewed ==
    [][\A r \in Requests : applied'[r] # applied[r] => version = baseline[r]]_vars

(* With enough approvals the request does not stay pending, and a claimed  *)
(* request is resolved, unless a fault hits it itself: a call about another *)
(* request may die, and every other decision may come between two steps.   *)
ClaimsResolve ==
    \A r \in Requests :
        rstate[r] = "applying"
        \/ (rstate[r] = "pending" /\ Cardinality(approvedBy[r]) >= Required[r])
            ~> rstate[r] \in {"approved", "rejected", "stale"} \/ r \in hit

(* A rejection is recorded without applying anything.                      *)
RejectedNotApplied == \A r \in Requests : rstate[r] = "rejected" => applied[r] = 0

(* 'stale' says the guard failed at the replay: the change was not made.   *)
StaleNotApplied == \A r \in Requests : rstate[r] = "stale" => applied[r] = 0

(* The strengthening the proofs rest on: a row that does not exist has     *)
(* nothing attached, whoever is deciding may, a claim has its quorum, and  *)
(* one call at most is between the claim and the resolution.               *)
NothingYet ==
    \A r \in Requests : rstate[r] = "none" =>
        /\ Decided(r) = {} /\ applied[r] = 0
        /\ \A c \in Calls : at[c] = r => pc[c] = "idle"

Entitled ==
    /\ \A c \in Calls : pc[c] \in {"approving", "rejecting"} => MayDecide(who[c], at[c])
    /\ \A r \in Requests :
          /\ approvedBy[r] \subseteq Eligible \ {requester[r]}
          /\ approvedBy[r] \intersect rejectedBy[r] = {}

Quorum ==
    /\ \A c \in Calls : pc[c] = "claim" \/ Replaying(c) => Enough(at[c])
    /\ \A r \in Requests : applied[r] > 0 => Enough(r)

OneReplay ==
    /\ OneReplayer
    /\ \A c \in Calls : Replaying(c) => rstate[at[c]] \in {"applying", "rejected"}

(* What ClaimsResolve rests on: no fault but its own leaves a request that *)
(* is claimed, or has its quorum, without a call that will move it on.     *)
Attended ==
    \A r \in Requests \ hit :
        /\ rstate[r] = "applying" => \E c \in Calls : at[c] = r /\ Replaying(c)
        /\ rstate[r] = "pending" /\ Enough(r)
              => \E c \in Calls : at[c] = r /\ pc[c] \in {"count", "claim"}

NotYetApplied ==
    /\ \A r \in Requests : rstate[r] = "pending" => applied[r] = 0
    /\ \A c \in Calls : pc[c] = "replay" => applied[at[c]] = 0

SafetyInv ==
    /\ TypeOK /\ NothingYet /\ Entitled /\ Quorum /\ OneReplay /\ NotYetApplied
    /\ AppliesOnce

Inv == SafetyInv /\ Attended

(* The abstract promise.                                                   *)
F == INSTANCE FourEyes WITH
        proposal <- [r \in Requests |->
                        IF rstate[r] = "none" THEN {}
                        ELSE {[by |-> requester[r], baseline |-> baseline[r]]}],
        endorsed <- approvedBy,
        Quorums <- [r \in Requests |-> {S \in SUBSET Principals : Cardinality(S) >= Required[r]}]

FourEyesSpec == F!Spec
=============================================================================
