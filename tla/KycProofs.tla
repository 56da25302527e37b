----------------------------- MODULE KycProofs -----------------------------
(***************************************************************************)
(* Proofs about Kyc.  The four properties are one induction: what is in    *)
(* approving already has its second person, so the replay needs only the   *)
(* guard that the case is open and held by the requester, and that guard   *)
(* is what makes the first decision the last one.                          *)
(***************************************************************************)
EXTENDS Kyc, TLAPS

LEMMA TypeInit == Init => TypeOK
BY DEF Init, TypeOK

(* The deciding write, direct or replayed, keeps the types of the case.    *)
LEMMA CommitType ==
    ASSUME TypeOK, NEW p \in Analysts, NEW d \in Decisions, NEW why \in Reasons,
           NEW rating \in Ratings, NEW approver \in Officers \union {Nobody},
           Commit(p, d, why, rating, approver)
    PROVE  /\ state' \in Terminal /\ assignee' = assignee
           /\ reason' \in SUBSET Reasons /\ file' = file
           /\ verdict' \in SUBSET [by : Analysts, approver : Officers \union {Nobody},
                                   decision : Decisions, reason : Reasons, rating : Ratings]
           /\ escalated' = escalated
BY DEF TypeOK, Commit, Terminal, Outcome, Decisions

LEMMA TypeStep == TypeOK /\ [Next]_vars => TypeOK'
<1> SUFFICES ASSUME TypeOK, [Next]_vars PROVE TypeOK'
  OBVIOUS
<1>1. ASSUME NEW p \in Analysts, Claim(p) \/ Release(p) PROVE TypeOK'
  BY <1>1 DEF TypeOK, Claim, Release, approvalVars, trailVars
<1>2. ASSUME NEW p \in Analysts, NEW why \in Reasons,
             RequestInfo(p, why) \/ Escalate(p, why)
      PROVE TypeOK'
  BY <1>2 DEF TypeOK, RequestInfo, Escalate, approvalVars, trailVars
<1>3. ASSUME NEW p \in Analysts, NEW d \in Decisions, NEW why \in Reasons,
             NEW rating \in Ratings, Decide(p, d, why, rating)
      PROVE TypeOK'
  <2>1. Commit(p, d, why, rating, Nobody) /\ UNCHANGED approvalVars
    BY <1>3 DEF Decide
  <2> QED  BY <2>1, CommitType DEF TypeOK, Terminal, approvalVars
<1>4. ASSUME NEW p \in Analysts, NEW d \in Decisions, NEW why \in Reasons,
             NEW rating \in Ratings, Park(p, d, why, rating)
      PROVE TypeOK'
  BY <1>4 DEF TypeOK, Park, Requests, caseVars, trailVars
<1>5. ASSUME NEW o \in Officers, NEW q \in parked, Approve(o, q) \/ Refuse(o, q)
      PROVE TypeOK'
  BY <1>5 DEF TypeOK, Approve, Refuse, caseVars, trailVars
<1>6. ASSUME NEW a \in approving, Replay(a) PROVE TypeOK'
  <2>1. /\ a.request \in Requests /\ a.approver \in Officers
        /\ Commit(a.request.by, a.request.decision, a.request.reason, "none", a.approver)
        /\ parked' = parked /\ approving' = approving \ {a}
    BY <1>6 DEF TypeOK, Replay
  <2>2. /\ a.request.by \in Analysts /\ a.request.decision \in Decisions
        /\ a.request.reason \in Reasons /\ "none" \in Ratings
    BY <2>1 DEF Requests, Ratings
  <2> QED  BY <2>1, <2>2, CommitType DEF TypeOK, Terminal
<1>7. ASSUME NEW a \in approving, ReplayStale(a) PROVE TypeOK'
  BY <1>7 DEF TypeOK, ReplayStale, caseVars, trailVars
<1>8. CASE UNCHANGED vars
  BY <1>8 DEF TypeOK, vars, caseVars, approvalVars, trailVars
<1> QED
  BY <1>1, <1>2, <1>3, <1>4, <1>5, <1>6, <1>7, <1>8 DEF Next

-----------------------------------------------------------------------------

(* What holds of the case and its verdict, apart from what is in flight.   *)
CaseInv == ClaimableIsUnassigned /\ DecidedByHolder /\ SecondPerson /\ DecidedOnce

(* A deciding write by the holder of an open case, with its second person  *)
(* if it needs one, is the case's only verdict.                            *)
LEMMA CommitDecides ==
    ASSUME TypeOK, CaseInv,
           NEW p \in Analysts, NEW d \in Decisions, NEW why \in Reasons,
           NEW rating \in Ratings, NEW approver \in Officers \union {Nobody},
           NeedsApproval(d, rating) => approver \in Officers \ {p},
           Commit(p, d, why, rating, approver)
    PROVE  CaseInv'
<1> DEFINE new == [by |-> p, approver |-> approver, decision |-> d,
                   reason |-> why, rating |-> rating]
<1>1. /\ state \in {"in_review", "escalated"} /\ assignee = p
      /\ d = "approve" => file.identified
  BY DEF Commit, Guard, Decidable, HeldBy
<1>2. verdict = {}
  BY <1>1 DEF CaseInv, DecidedOnce, Terminal
<1>3. /\ verdict' = {new} /\ state' = Outcome[d] /\ reason' = {why}
      /\ assignee' = p /\ file' = file
  BY <1>1, <1>2 DEF Commit
<1>4. state' \in Terminal
  BY <1>3 DEF Outcome, Decisions, Terminal
<1>5. ClaimableIsUnassigned'
  BY <1>3, <1>4, NobodyAssumption DEF ClaimableIsUnassigned, Terminal
<1>6. DecidedByHolder'
  BY <1>3 DEF DecidedByHolder
<1>7. SecondPerson'
  BY <1>3 DEF SecondPerson, NeedsApproval, ReadAsRisky, Ratings
<1>8. DecidedOnce'
  BY <1>1, <1>3, <1>4 DEF DecidedOnce
<1> QED
  BY <1>5, <1>6, <1>7, <1>8 DEF CaseInv

(* An operation that decides nothing works on an open case.                *)
LEMMA OpenStep ==
    ASSUME TypeOK, CaseInv, state \notin Terminal,
           state' \notin Terminal, UNCHANGED <<file, verdict>>,
           ClaimableIsUnassigned'
    PROVE  CaseInv'
BY DEF CaseInv, DecidedByHolder, SecondPerson, DecidedOnce

LEMMA CaseStep == KycInv /\ [Next]_vars => CaseInv'
<1> SUFFICES ASSUME KycInv, [Next]_vars PROVE CaseInv'
  OBVIOUS
<1>0. TypeOK /\ CaseInv /\ \A a \in approving : a.approver # a.request.by
  BY DEF KycInv, CaseInv
<1>1. ASSUME NEW p \in Analysts, Claim(p) \/ Release(p) PROVE CaseInv'
  <2>1. ClaimableIsUnassigned'
    BY <1>1, NobodyAssumption DEF Claim, Release, ClaimableIsUnassigned
  <2> QED  BY <1>0, <1>1, <2>1, OpenStep DEF Claim, Release, Terminal, trailVars
<1>2. ASSUME NEW p \in Analysts, NEW why \in Reasons,
             RequestInfo(p, why) \/ Escalate(p, why)
      PROVE CaseInv'
  <2>1. ClaimableIsUnassigned'
    BY <1>2, NobodyAssumption DEF RequestInfo, Escalate, HeldBy, ClaimableIsUnassigned
  <2> QED  BY <1>0, <1>2, <2>1, OpenStep DEF RequestInfo, Escalate, Terminal, trailVars
<1>3. ASSUME NEW p \in Analysts, NEW d \in Decisions, NEW why \in Reasons,
             NEW rating \in Ratings, Decide(p, d, why, rating)
      PROVE CaseInv'
  BY <1>0, <1>3, CommitDecides DEF Decide
<1>4. ASSUME NEW a \in approving, Replay(a) PROVE CaseInv'
  <2>1. /\ a.request \in Requests /\ a.approver \in Officers \ {a.request.by}
        /\ Commit(a.request.by, a.request.decision, a.request.reason, "none", a.approver)
    BY <1>0, <1>4 DEF TypeOK, Replay
  <2>2. /\ a.request.by \in Analysts /\ a.request.decision \in Decisions
        /\ a.request.reason \in Reasons /\ "none" \in Ratings
    BY <2>1 DEF Requests, Ratings
  <2> QED  BY <1>0, <2>1, <2>2, CommitDecides
<1>5. CASE UNCHANGED <<caseVars, file, trailVars>>
  BY <1>0, <1>5 DEF caseVars, trailVars, CaseInv, ClaimableIsUnassigned, DecidedByHolder,
                    SecondPerson, DecidedOnce
<1>6. ASSUME NEW p \in Analysts, NEW d \in Decisions, NEW why \in Reasons,
             NEW rating \in Ratings, Park(p, d, why, rating)
      PROVE UNCHANGED <<caseVars, file, trailVars>>
  BY <1>6 DEF Park
<1>7. ASSUME NEW o \in Officers, NEW q \in parked, Approve(o, q) \/ Refuse(o, q)
      PROVE UNCHANGED <<caseVars, file, trailVars>>
  BY <1>7 DEF Approve, Refuse
<1>8. ASSUME NEW a \in approving, ReplayStale(a) PROVE UNCHANGED <<caseVars, file, trailVars>>
  BY <1>8 DEF ReplayStale
<1>9. ASSUME UNCHANGED vars PROVE UNCHANGED <<caseVars, file, trailVars>>
  BY <1>9 DEF vars
<1> QED
  BY <1>1, <1>2, <1>3, <1>4, <1>5, <1>6, <1>7, <1>8, <1>9 DEF Next

(* Only an approval by another officer adds to what is in flight.          *)
LEMMA ApproverStep ==
    KycInv /\ [Next]_vars => \A a \in approving' : a.approver # a.request.by
<1> SUFFICES ASSUME KycInv, [Next]_vars, NEW a \in approving' PROVE a.approver # a.request.by
  OBVIOUS
<1>1. CASE a \in approving
  BY <1>1 DEF KycInv
<1>2. CASE a \notin approving
  <2>1. PICK o \in Officers, q \in parked : Approve(o, q)
    BY <1>2 DEF Next, vars, approvalVars, Claim, Release, RequestInfo, Escalate, Decide, Park,
                Refuse, Replay, ReplayStale
  <2>2. a = [request |-> q, approver |-> o] /\ o # q.by
    BY <1>2, <2>1 DEF Approve, MayApprove
  <2> QED  BY <2>2
<1> QED  BY <1>1, <1>2

LEMMA InvStep == KycInv /\ [Next]_vars => KycInv'
<1> SUFFICES ASSUME KycInv, [Next]_vars PROVE KycInv'
  OBVIOUS
<1>1. TypeOK'
  BY TypeStep DEF KycInv
<1>2. CaseInv'
  BY CaseStep
<1>3. \A a \in approving' : a.approver # a.request.by
  BY ApproverStep
<1> QED
  BY <1>1, <1>2, <1>3 DEF KycInv, CaseInv

LEMMA InvInit == Init => KycInv
<1> SUFFICES ASSUME Init PROVE KycInv
  OBVIOUS
<1>1. TypeOK
  BY TypeInit
<1> QED
  BY <1>1 DEF Init, KycInv, ClaimableIsUnassigned, DecidedByHolder, SecondPerson, DecidedOnce,
              Terminal

(* The invariant of the KYC case holds for any analysts, officers and      *)
(* reasons, including people who are both.                                 *)
THEOREM InvHolds == Spec => []KycInv
BY InvInit, InvStep, PTL DEF Spec

(* The claimable cases are exactly the unassigned ones.                    *)
THEOREM ClaimableHolds == Spec => []ClaimableIsUnassigned
<1>1. KycInv => ClaimableIsUnassigned
  BY DEF KycInv
<1> QED  BY <1>1, InvHolds, PTL

(* No parked decision outlives its requester's hold on the case.           *)
THEOREM HolderHolds == Spec => []DecidedByHolder
<1>1. KycInv => DecidedByHolder
  BY DEF KycInv
<1> QED  BY <1>1, InvHolds, PTL

(* Every rejection, and every approval of a risky case whose own payload   *)
(* did not rate it as low, has its second person.                          *)
THEOREM SecondPersonHolds == Spec => []SecondPerson
<1>1. KycInv => SecondPerson
  BY DEF KycInv
<1> QED  BY <1>1, InvHolds, PTL

(* A case is decided once, and says what its one decision said.            *)
THEOREM DecidedOnceHolds == Spec => []DecidedOnce
<1>1. KycInv => DecidedOnce
  BY DEF KycInv
<1> QED  BY <1>1, InvHolds, PTL

(* Once a case has its verdict, every step leaves it, its holder, its      *)
(* reason and its verdict as they are: the operations of the case refuse a *)
(* decided one, an approval only moves requests, and a replay is stale.    *)
THEOREM VerdictIsFinalHolds == Spec => VerdictIsFinal
<1>1. KycInv /\ [Next]_vars => [verdict # {} => UNCHANGED <<caseVars, file, verdict>>]_vars
  <2> SUFFICES ASSUME KycInv, Next, verdict # {} PROVE UNCHANGED <<caseVars, file, verdict>>
    OBVIOUS
  <2>1. state \in Terminal
    BY DEF KycInv, DecidedOnce
  <2>2. /\ state \notin {"new", "info_requested"} /\ state # "in_review"
        /\ \A d \in Decisions : ~Decidable(d)
    BY <2>1 DEF Terminal, Decidable
  <2>3. ASSUME NEW p \in Analysts
        PROVE  /\ ~Claim(p) /\ ~Release(p)
               /\ \A why \in Reasons : ~RequestInfo(p, why) /\ ~Escalate(p, why)
    BY <2>2 DEF Claim, Release, RequestInfo, Escalate
  <2>4. ASSUME NEW p \in Analysts, NEW d \in Decisions, NEW why \in Reasons,
               NEW rating \in Ratings
        PROVE  ~Decide(p, d, why, rating) /\ ~Park(p, d, why, rating)
    BY <2>2 DEF Decide, Commit, Park, Guard
  <2>5. ASSUME NEW a \in approving PROVE ~Replay(a)
    <3>1. a.request.decision \in Decisions
      BY DEF KycInv, TypeOK, Requests
    <3> QED  BY <2>2, <3>1 DEF Replay, Commit, Guard
  <2>6. \/ \E o \in Officers, q \in parked : Approve(o, q) \/ Refuse(o, q)
        \/ \E a \in approving : ReplayStale(a)
    BY <2>3, <2>4, <2>5 DEF Next
  <2> QED  BY <2>6 DEF Approve, Refuse, ReplayStale, caseVars, trailVars
<1> QED  BY <1>1, InvHolds, PTL DEF Spec, VerdictIsFinal
=============================================================================
