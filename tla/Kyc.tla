-------------------------------- MODULE Kyc --------------------------------
(***************************************************************************)
(* One KYC case: analysts claim it, give it back, ask for information,     *)
(* escalate and decide it, and compliance officers decide the parked       *)
(* decisions, which are then replayed as the analyst who took them.        *)
(*                                                                         *)
(* An operation is one locked transaction and one action.  decide() is     *)
(* split where it can interleave with the case: the approval that claims   *)
(* the request, and the replay.  How approvals race with one another is    *)
(* the subject of Approvals.  A reason is one that is long enough; people  *)
(* who are not authorized for an operation are refused before its          *)
(* transaction (module Policy) and take no step here.                      *)
(***************************************************************************)
EXTENDS Naturals, FiniteSets

CONSTANTS
    Analysts,   \* kyc_case:assign and kyc_case:decide on this case
    Officers,   \* an eligible role and kyc_case:approve on this case
    Reasons,    \* the reasons a decision may give
    Nobody,     \* null: no assignee, no approver
    MaxReplays  \* bound: how many replays are under way at once

ASSUME NobodyAssumption == Nobody \notin Analysts \union Officers
ASSUME BoundAssumption == MaxReplays \in Nat

VARIABLES
    state,      \* kyc_cases.state
    assignee,   \* kyc_cases.assigneeId
    reason,     \* kyc_cases.decisionReason, {} for null
    file,       \* riskScore >= HIGH_RISK_SCORE; an identity document is there
    parked,     \* pending approval requests
    approving,  \* claimed requests (state 'applying') with their approver
    verdict,    \* the audit row of the deciding write, {} before, with the
                \* risk its payload named, which the row does not keep
    escalated   \* whether the trail has an audit row 'escalate'

caseVars == <<state, assignee, reason>>
approvalVars == <<parked, approving>>
trailVars == <<verdict, escalated>>
vars == <<caseVars, file, approvalVars, trailVars>>

Outcome == [approve |-> "approved", reject |-> "rejected"]
Decisions == DOMAIN Outcome

(* file: the columns and documents no operation writes.                    *)
Init ==
    /\ state = "new" /\ assignee = Nobody /\ reason = {}
    /\ file \in [highRisk : BOOLEAN, identified : BOOLEAN]
    /\ parked = {} /\ approving = {}
    /\ verdict = {} /\ escalated = FALSE

-----------------------------------------------------------------------------
(* Taking a case and giving it back.                                       *)

Claim(p) ==
    /\ state \in {"new", "info_requested"}
    /\ state' = "in_review"
    /\ assignee' = p
    /\ UNCHANGED <<reason, file, approvalVars, trailVars>>

\* Mutant: whoever may decide cases may decide this one.
HeldByAnyone(p) == assignee # Nobody

HeldBy(p) == assignee = p

Release(p) ==
    /\ state = "in_review"
    /\ HeldBy(p)
    /\ state' = "new"
    /\ assignee' = Nobody
    /\ UNCHANGED <<reason, file, approvalVars, trailVars>>

\* Mutant: the asker keeps the case.
RequestInfoKept(p, why) ==
    /\ state = "in_review"
    /\ HeldBy(p)
    /\ state' = "info_requested"
    /\ reason' = {why}
    /\ UNCHANGED <<assignee, file, approvalVars, trailVars>>

RequestInfo(p, why) ==
    /\ state = "in_review"
    /\ HeldBy(p)
    /\ state' = "info_requested"
    /\ reason' = {why}
    /\ assignee' = Nobody
    /\ UNCHANGED <<file, approvalVars, trailVars>>

Escalate(p, why) ==
    /\ state = "in_review"
    /\ HeldBy(p)
    /\ state' = "escalated"
    /\ reason' = {why}
    /\ escalated' = TRUE
    /\ UNCHANGED <<assignee, file, approvalVars, verdict>>

-----------------------------------------------------------------------------
(* Deciding it.                                                            *)

\* Mutant: the state of the case is not checked.
DecidableAnytime(d) == TRUE

Decidable(d) == state \in {"in_review", "escalated"}

(* The guards of approve and of reject.                                    *)
Guard(p, d) ==
    /\ Decidable(d)
    /\ HeldBy(p)
    /\ d = "approve" => file.identified

(* Approval rules are read on {...record, ...payload}: a riskScore in the  *)
(* payload hides the file's.  The forms name none; execute() takes any.    *)
Ratings == {"none", "high", "low"}

ReadAsRisky(rating) == rating = "high" \/ (rating = "none" /\ file.highRisk)

\* Mutant: approving needs no second person, whatever the risk.
NeedsApprovalToReject(d, rating) == d = "reject"

NeedsApproval(d, rating) == d = "reject" \/ ReadAsRisky(rating)

(* The case and the audit row of the decision.                             *)
Commit(p, d, why, rating, approver) ==
    /\ Guard(p, d)
    /\ state' = Outcome[d]
    /\ reason' = {why}
    /\ verdict' = verdict \union {[by |-> p, approver |-> approver, decision |-> d,
                                  reason |-> why, rating |-> rating]}
    /\ UNCHANGED <<assignee, file, escalated>>

Decide(p, d, why, rating) ==
    /\ ~NeedsApproval(d, rating)
    /\ Commit(p, d, why, rating, Nobody)
    /\ UNCHANGED approvalVars

(* A pending request for the action is returned as it is.  Its rating is   *)
(* not kept here: a replay does not read the rule again.                   *)
Park(p, d, why, rating) ==
    /\ Guard(p, d)
    /\ NeedsApproval(d, rating)
    /\ \A q \in parked : q.decision # d
    /\ parked' = parked \union {[by |-> p, decision |-> d, reason |-> why]}
    /\ UNCHANGED <<caseVars, file, approving, trailVars>>

\* Mutant: the requester may approve.
AnyOfficer(o, q) == o \in Officers

MayApprove(o, q) == o \in Officers /\ o # q.by

Approve(o, q) ==
    /\ q \in parked
    /\ MayApprove(o, q)
    /\ Cardinality(approving) < MaxReplays
    /\ parked' = parked \ {q}
    /\ approving' = approving \union {[request |-> q, approver |-> o]}
    /\ UNCHANGED <<caseVars, file, trailVars>>

Refuse(o, q) ==
    /\ q \in parked
    /\ MayApprove(o, q)
    /\ parked' = parked \ {q}
    /\ UNCHANGED <<caseVars, file, approving, trailVars>>

(* As the requester, whose hold on the case is checked again.              *)
Replay(a) ==
    /\ a \in approving
    /\ Commit(a.request.by, a.request.decision, a.request.reason, "none", a.approver)
    /\ approving' = approving \ {a}
    /\ UNCHANGED parked

ReplayStale(a) ==
    /\ a \in approving
    /\ ~Guard(a.request.by, a.request.decision)
    /\ approving' = approving \ {a}
    /\ UNCHANGED <<caseVars, file, parked, trailVars>>

Next ==
    \/ \E p \in Analysts :
          \/ Claim(p) \/ Release(p)
          \/ \E why \in Reasons :
                \/ RequestInfo(p, why) \/ Escalate(p, why)
                \/ \E d \in Decisions, rating \in Ratings :
                      Decide(p, d, why, rating) \/ Park(p, d, why, rating)
    \/ \E o \in Officers, q \in parked : Approve(o, q) \/ Refuse(o, q)
    \/ \E a \in approving : Replay(a) \/ ReplayStale(a)

Spec == Init /\ [][Next]_vars

-----------------------------------------------------------------------------
(* Properties.                                                             *)

Requests == [by : Analysts, decision : Decisions, reason : Reasons]
Terminal == {"approved", "rejected"}

TypeOK ==
    /\ state \in {"new", "in_review", "info_requested", "escalated", "approved", "rejected"}
    /\ assignee \in Analysts \union {Nobody}
    /\ reason \in SUBSET Reasons
    /\ file \in [highRisk : BOOLEAN, identified : BOOLEAN]
    /\ parked \in SUBSET Requests
    /\ approving \in SUBSET [request : Requests, approver : Officers]
    /\ verdict \in SUBSET [by : Analysts, approver : Officers \union {Nobody},
                           decision : Decisions, reason : Reasons, rating : Ratings]
    /\ escalated \in BOOLEAN

(* "the claimable states are exactly the unassigned ones": claim needs no  *)
(* guard, since nobody can take a case somebody holds.                     *)
ClaimableIsUnassigned == state \in {"new", "info_requested"} <=> assignee = Nobody

(* A case is decided by the analyst who holds it, and is held by them ever *)
(* after: not by one whose parked decision outlived their hold on it.      *)
DecidedByHolder == \A v \in verdict : v.by = assignee

(* Refusing a customer took a second person, and so did accepting a risky  *)
(* one, unless the payload of that very decision rated the risk as low: a  *)
(* release, a late replay or a second decision opens no other way.         *)
SecondPerson ==
    \A v \in verdict :
        v.decision = "reject" \/ (file.highRisk /\ v.rating # "low")
            => v.approver \in Officers \ {v.by}

(* "approving a high-risk one does too", whatever the payload said.        *)
RiskyHasOfficer ==
    \A v \in verdict : file.highRisk => v.approver \in Officers \ {v.by}

(* A case is decided once: of an approval and a rejection that are both    *)
(* parked, approved and replayed, one takes effect, and what the case says *)
(* is what that one said, with its evidence on file.                       *)
DecidedOnce ==
    /\ \A v, w \in verdict : v = w
    /\ state \in Terminal <=> verdict # {}
    /\ \A v \in verdict :
          /\ state = Outcome[v.decision] /\ reason = {v.reason}
          /\ v.decision = "approve" => file.identified

(* A verdict is final: no claim, late replay or escalation changes the     *)
(* case, its holder or its reason after it, and no second one joins it.    *)
VerdictIsFinal == [][verdict # {} => UNCHANGED <<caseVars, file, verdict>>]_vars

(* "Approves KYC rejections and escalations": an escalated case is not     *)
(* approved without a compliance officer.                                  *)
EscalationsApproved == escalated => \A v \in verdict : v.approver \in Officers

(* The strengthening the proofs rest on: what is on its way to a replay    *)
(* was approved by an officer other than its requester.                    *)
KycInv ==
    /\ TypeOK
    /\ ClaimableIsUnassigned /\ DecidedByHolder /\ SecondPerson /\ DecidedOnce
    /\ \A a \in approving : a.approver # a.request.by
=============================================================================
