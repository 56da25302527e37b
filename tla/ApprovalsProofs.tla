-------------------------- MODULE ApprovalsProofs --------------------------
(***************************************************************************)
(* Proofs about Approvals for every set of people, requests and calls.     *)
(***************************************************************************)
EXTENDS Approvals, TLAPS, FiniteSetTheorems

(* One more approval never makes a quorum smaller.                         *)
LEMMA EnoughGrows ==
    ASSUME NEW S \in SUBSET Principals, NEW p \in Principals, NEW r \in Requests,
           Cardinality(S) >= Required[r]
    PROVE  Cardinality(S \union {p}) >= Required[r]
  <1>1. IsFiniteSet(S)
    BY PrincipalsAssumption, FS_Subset
  <1>2. Cardinality(S) \in Nat
    BY <1>1, FS_CardinalityType
  <1>3. CASE p \in S
    <2>1. S \union {p} = S
      BY <1>3
    <2> QED
      BY <2>1
  <1>4. CASE p \notin S
    BY <1>1, <1>2, <1>4, FS_AddElement, RequiredAssumption
  <1> QED
    BY <1>3, <1>4

LEMMA TypeInit == Init => TypeOK
  <1>1. AnyRequest \in Requests /\ Anyone \in Principals
    BY RequestsAssumption, PrincipalsAssumption DEF AnyRequest, Anyone
  <1> QED
    BY <1>1 DEF Init, TypeOK

LEMMA TypeStep == TypeOK /\ [Next]_vars => TypeOK'
  <1> SUFFICES ASSUME TypeOK, [Next]_vars PROVE TypeOK'
    OBVIOUS
  <1> USE DEF TypeOK, requestVars, decisionVars, callVars
  <1>1. ASSUME NEW r \in Requests, NEW p \in Principals, Park(r, p) PROVE TypeOK'
    BY <1>1 DEF Park
  <1>2. CASE Write
    BY <1>2 DEF Write
  <1>3. ASSUME NEW c \in Calls, NEW p \in Principals, NEW r \in Requests,
               NEW d \in {"approving", "rejecting"}, Begin(c, p, r, d)
        PROVE  TypeOK'
    BY <1>3 DEF Begin
  <1>4. ASSUME NEW c \in Calls, Step(c) \/ RequesterGone(c) \/ Crash(c) PROVE TypeOK'
    <2>1. CASE Step(c)
      BY <2>1
         DEF Step, RecordApproval, RecordRejection, AlreadyDecided, MarkRejected, Count, Claim,
             Replay, ReplayInvalid, Resolve, Go, SetState
    <2>2. CASE RequesterGone(c) \/ Crash(c)
      BY <2>2 DEF RequesterGone, Crash, Hit, Go, SetState
    <2> QED
      BY <1>4, <2>1, <2>2
  <1>5. CASE UNCHANGED vars
    BY <1>5 DEF vars
  <1> QED
    BY <1>1, <1>2, <1>3, <1>4, <1>5 DEF Next

-----------------------------------------------------------------------------
(* The inductive invariant.                                                *)

LEMMA InvInit == Init => SafetyInv
  BY TypeInit
     DEF Init, SafetyInv, NothingYet, Decided, Entitled, Quorum, OneReplay, OneReplayer,
         Replaying, NotYetApplied, AppliesOnce

(* Parking touches a request nobody has anything to do with yet.           *)
LEMMA InvPark ==
    ASSUME SafetyInv, NEW r \in Requests, NEW p \in Principals, Park(r, p), TypeOK'
    PROVE  SafetyInv'
  <1> USE DEF SafetyInv, requestVars, decisionVars, callVars
  <1>1. /\ rstate[r] = "none" /\ rstate' = [rstate EXCEPT ![r] = "pending"]
        /\ \A s \in Requests \ {r} : requester'[s] = requester[s]
        /\ UNCHANGED <<approvedBy, rejectedBy, applied, version, pc, at, who>>
    BY DEF Park, TypeOK
  <1>2. approvedBy[r] = {} /\ rejectedBy[r] = {} /\ applied[r] = 0
    BY <1>1 DEF NothingYet, Decided
  <1>3. \A c \in Calls : at[c] = r => pc[c] = "idle"
    BY <1>1 DEF NothingYet
  <1>4. NothingYet'
    BY <1>1 DEF NothingYet, Decided, TypeOK
  <1>5. Entitled'
    BY <1>1, <1>2, <1>3 DEF Entitled, MayDecide, TypeOK
  <1>6. Quorum' /\ AppliesOnce'
    BY <1>1 DEF Quorum, Replaying, Enough, AppliesOnce
  <1>7. OneReplay' /\ NotYetApplied'
    BY <1>1, <1>2, <1>3 DEF OneReplay, OneReplayer, NotYetApplied, Replaying, TypeOK
  <1> QED
    BY <1>4, <1>5, <1>6, <1>7

(* An approval adds an eligible person who was not among the deciders.     *)
LEMMA InvRecordApproval ==
    ASSUME SafetyInv, NEW c \in Calls, RecordApproval(c), TypeOK'
    PROVE  SafetyInv'
  <1> USE DEF SafetyInv, requestVars, decisionVars, callVars
  <1> DEFINE r == at[c]
  <1>1. /\ pc[c] = "approving" /\ pc' = [pc EXCEPT ![c] = "count"]
        /\ who[c] \notin approvedBy[r] \union rejectedBy[r]
        /\ approvedBy' = [approvedBy EXCEPT ![r] = approvedBy[r] \union {who[c]}]
        /\ UNCHANGED <<rstate, requester, baseline, rejectedBy, applied, version, at, who>>
    BY DEF RecordApproval, Go, Decided
  <1>2. r \in Requests /\ who[c] \in Principals /\ rstate[r] # "none"
    BY <1>1 DEF TypeOK, NothingYet
  <1>3. MayDecide(who[c], r)
    BY <1>1 DEF Entitled
  <1>4. \A s \in Requests : Enough(s) => Enough(s)'
    BY <1>1, <1>2, EnoughGrows DEF Enough, TypeOK
  <1>5. NothingYet'
    BY <1>1, <1>2 DEF NothingYet, Decided, TypeOK
  <1>6. Entitled'
    BY <1>1, <1>2, <1>3 DEF Entitled, MayDecide, TypeOK
  <1>7. Quorum'
    BY <1>1, <1>4 DEF Quorum, Replaying, TypeOK
  <1>8. OneReplay' /\ NotYetApplied' /\ AppliesOnce'
    BY <1>1 DEF OneReplay, OneReplayer, NotYetApplied, Replaying, AppliesOnce, TypeOK
  <1> QED
    BY <1>5, <1>6, <1>7, <1>8

(* A step of one call that records no approval, applies nothing and goes   *)
(* to or stays at a place whose conditions it meets.                       *)
LEMMA InvCall ==
    ASSUME SafetyInv, NEW c \in Calls, TypeOK',
           UNCHANGED <<requester, approvedBy, applied>>,
           \A d \in Calls \ {c} : pc'[d] = pc[d] /\ at'[d] = at[d] /\ who'[d] = who[d],
           \A s \in Requests : rejectedBy'[s] \intersect approvedBy[s] = {},
           \A s \in Requests : rejectedBy'[s] # rejectedBy[s] => s = at[c] /\ pc[c] # "idle",
           \A s \in Requests : rstate'[s] # rstate[s] =>
              /\ s = at[c] /\ rstate[s] # "none" /\ rstate'[s] # "none"
              /\ rstate'[s] = "pending" => applied[s] = 0
              /\ rstate'[s] # "rejected" => \A d \in Calls \ {c} : ~(Replaying(d) /\ at[d] = s),
           rstate[at'[c]] # "none" \/ pc'[c] = "idle",
           pc'[c] \in {"approving", "rejecting"} => MayDecide(who'[c], at'[c]),
           pc'[c] = "claim" => Enough(at'[c]),
           Replaying(c)' =>
              /\ at'[c] = at[c] /\ Enough(at[c]) /\ rstate'[at[c]] \in {"applying", "rejected"}
              /\ \A d \in Calls \ {c} : ~(Replaying(d) /\ at[d] = at[c])
              /\ pc'[c] = "replay" => applied[at[c]] = 0
    PROVE  SafetyInv'
  <1> USE DEF SafetyInv
  <1>1. NothingYet'
    BY DEF NothingYet, Decided, TypeOK
  <1>2. Entitled'
    BY DEF Entitled, MayDecide, TypeOK
  <1>3. Quorum' /\ AppliesOnce'
    BY DEF Quorum, Replaying, Enough, AppliesOnce, TypeOK
  <1>4. OneReplay'
    <2>1. \A d, e \in Calls : Replaying(d)' /\ Replaying(e)' /\ at'[d] = at'[e] => d = e
      BY DEF OneReplay, OneReplayer, Replaying, TypeOK
    <2>2. \A d \in Calls : Replaying(d)' => rstate'[at'[d]] \in {"applying", "rejected"}
      BY DEF OneReplay, OneReplayer, Replaying, TypeOK
    <2> QED
      BY <2>1, <2>2 DEF OneReplay, OneReplayer, Replaying
  <1>5. NotYetApplied'
    BY DEF NotYetApplied, Replaying, TypeOK
  <1> QED
    BY <1>1, <1>2, <1>3, <1>4, <1>5

(* The replay applies the change: only its own call is replaying, so the   *)
(* count goes from 0 to 1.                                                 *)
LEMMA InvReplay ==
    ASSUME SafetyInv, NEW c \in Calls, Replay(c), TypeOK'
    PROVE  SafetyInv'
  <1> USE DEF SafetyInv, requestVars, decisionVars, callVars
  <1> DEFINE r == at[c]
  <1>1. /\ pc[c] = "replay" /\ pc'[c] \in {"approved", "stale"} /\ applied[r] = 0
        /\ \A d \in Calls \ {c} : pc'[d] = pc[d]
        /\ applied' = [applied EXCEPT ![r] = applied[r] + 1]
        /\ UNCHANGED <<rstate, requester, approvedBy, rejectedBy, at, who>>
    BY DEF Replay, Go, NotYetApplied, TypeOK
  <1>2. r \in Requests /\ Enough(r) /\ rstate[r] \in {"applying", "rejected"}
    BY <1>1 DEF TypeOK, Quorum, Replaying, OneReplay, OneReplayer
  <1>3. applied'[r] = 1 /\ \A s \in Requests \ {r} : applied'[s] = applied[s]
    BY <1>1, <1>2 DEF TypeOK
  <1>4. NothingYet'
    BY <1>1, <1>2, <1>3 DEF NothingYet, Decided
  <1>5. Entitled'
    BY <1>1 DEF Entitled, MayDecide
  <1>6. Quorum' /\ AppliesOnce'
    BY <1>1, <1>2, <1>3 DEF Quorum, Replaying, Enough, AppliesOnce
  <1>7. OneReplay'
    BY <1>1 DEF OneReplay, OneReplayer, Replaying
  <1>8. NotYetApplied'
    <2>1. \A d \in Calls \ {c} : pc[d] = "replay" => at[d] # r
      BY <1>1 DEF OneReplay, OneReplayer, Replaying
    <2> QED
      BY <1>1, <1>2, <1>3, <2>1 DEF NotYetApplied, TypeOK
  <1> QED
    BY <1>4, <1>5, <1>6, <1>7, <1>8

LEMMA InvStep == SafetyInv /\ [Next]_vars => SafetyInv'
  <1> SUFFICES ASSUME SafetyInv, [Next]_vars PROVE SafetyInv'
    OBVIOUS
  <1>0. TypeOK /\ TypeOK'
    BY TypeStep DEF SafetyInv
  <1> USE <1>0 DEF requestVars, decisionVars, callVars
  <1>1. ASSUME NEW r \in Requests, NEW p \in Principals, Park(r, p) PROVE SafetyInv'
    BY <1>1, InvPark
  <1>2. CASE Write \/ UNCHANGED vars
    BY <1>2
       DEF Write, vars, SafetyInv, NothingYet, Decided, Entitled, MayDecide, Quorum, Enough,
           OneReplay, OneReplayer, Replaying, NotYetApplied, AppliesOnce
  <1>3. ASSUME NEW c \in Calls, NEW p \in Principals, NEW r \in Requests,
               NEW d \in {"approving", "rejecting"}, Begin(c, p, r, d)
        PROVE  SafetyInv'
    <2>1. /\ pc'[c] = d /\ at'[c] = r /\ who'[c] = p /\ MayDecide(p, r) /\ rstate[r] = "pending"
          /\ UNCHANGED <<rstate, requester, approvedBy, rejectedBy, applied>>
          /\ \A e \in Calls \ {c} : pc'[e] = pc[e] /\ at'[e] = at[e] /\ who'[e] = who[e]
      BY <1>3 DEF Begin, TypeOK
    <2>2. ~Replaying(c)' /\ \A s \in Requests : rejectedBy'[s] \intersect approvedBy[s] = {}
      BY <2>1 DEF Replaying, SafetyInv, Entitled
    <2> QED
      BY <2>1, <2>2, InvCall
  <1>4. ASSUME NEW c \in Calls, Step(c) \/ RequesterGone(c) \/ Crash(c)
        PROVE  SafetyInv'
    <2> DEFINE r == at[c]
    <2>0. /\ r \in Requests
          /\ \A s \in Requests : rejectedBy[s] \intersect approvedBy[s] = {}
          /\ pc[c] # "idle" => rstate[r] # "none"
          /\ Replaying(c) => /\ rstate[r] \in {"applying", "rejected"}
                             /\ \A d \in Calls \ {c} : ~(Replaying(d) /\ at[d] = r)
      BY DEF SafetyInv, Entitled, NothingYet, OneReplay, OneReplayer, TypeOK
    <2>1. CASE RecordApproval(c)
      BY <2>1, InvRecordApproval
    <2>2. CASE RecordRejection(c)
      <3>1. /\ pc[c] = "rejecting" /\ pc'[c] = "reject" /\ who[c] \notin approvedBy[r]
            /\ rejectedBy' = [rejectedBy EXCEPT ![r] = rejectedBy[r] \union {who[c]}]
            /\ \A d \in Calls \ {c} : pc'[d] = pc[d]
            /\ UNCHANGED <<rstate, requester, approvedBy, applied, at, who>>
        BY <2>2 DEF RecordRejection, Go, Decided, TypeOK
      <3>2. \A s \in Requests : rejectedBy'[s] \intersect approvedBy[s] = {}
        BY <2>0, <3>1 DEF TypeOK
      <3>3. \A s \in Requests : rejectedBy'[s] # rejectedBy[s] => s = r
        BY <3>1 DEF TypeOK
      <3> QED
        BY <2>0, <3>1, <3>2, <3>3, InvCall DEF Replaying
    <2>3. CASE AlreadyDecided(c) \/ Crash(c)
      <3>1. /\ pc'[c] = "idle" /\ \A d \in Calls \ {c} : pc'[d] = pc[d]
            /\ UNCHANGED <<rstate, requester, approvedBy, rejectedBy, applied, at, who>>
        BY <2>3 DEF AlreadyDecided, Crash, Go, TypeOK
      <3> QED
        BY <2>0, <3>1, InvCall DEF Replaying
    <2>4. CASE MarkRejected(c)
      <3>1. /\ pc[c] = "reject" /\ pc'[c] = "idle" /\ \A d \in Calls \ {c} : pc'[d] = pc[d]
            /\ rstate' = [rstate EXCEPT ![r] = "rejected"]
            /\ UNCHANGED <<requester, approvedBy, rejectedBy, applied, at, who>>
        BY <2>4 DEF MarkRejected, Go, SetState, TypeOK
      <3> QED
        BY <2>0, <3>1, InvCall DEF Replaying, TypeOK
    <2>5. CASE Count(c)
      <3>1. /\ pc[c] = "count" /\ pc'[c] \in {"claim", "idle"} /\ (pc'[c] = "claim" => Enough(r))
            /\ \A d \in Calls \ {c} : pc'[d] = pc[d]
            /\ UNCHANGED <<rstate, requester, approvedBy, rejectedBy, applied, at, who>>
        BY <2>5 DEF Count, Go, TypeOK
      <3> QED
        BY <2>0, <3>1, InvCall DEF Replaying
    <2>6. CASE Claim(c)
      <3>1. /\ pc[c] = "claim" /\ Enough(r) /\ \A d \in Calls \ {c} : pc'[d] = pc[d]
            /\ UNCHANGED <<requester, approvedBy, rejectedBy, applied, at, who>>
        BY <2>6 DEF Claim, Go, TypeOK, SafetyInv, Quorum
      <3>2. CASE rstate[r] = "pending"
        <4>1. rstate' = [rstate EXCEPT ![r] = "applying"] /\ pc'[c] = "replay" /\ applied[r] = 0
          BY <2>6, <3>2 DEF Claim, Go, SetState, TypeOK, SafetyInv, NotYetApplied
        <4>2. \A d \in Calls : ~(Replaying(d) /\ at[d] = r)
          BY <3>2 DEF SafetyInv, OneReplay, OneReplayer
        <4> QED
          BY <2>0, <3>1, <3>2, <4>1, <4>2, InvCall DEF Replaying, TypeOK
      <3>3. CASE rstate[r] # "pending"
        <4>1. UNCHANGED rstate /\ pc'[c] = "idle"
          BY <2>6, <3>3 DEF Claim, Go, TypeOK
        <4> QED
          BY <2>0, <3>1, <4>1, InvCall DEF Replaying
      <3> QED
        BY <3>2, <3>3
    <2>7. CASE Replay(c)
      BY <2>7, InvReplay
    <2>8. CASE ReplayInvalid(c)
      <3>1. /\ pc[c] = "replay" /\ pc'[c] = "stale" /\ Enough(r)
            /\ \A d \in Calls \ {c} : pc'[d] = pc[d]
            /\ UNCHANGED <<rstate, requester, approvedBy, rejectedBy, applied, at, who>>
        BY <2>8 DEF ReplayInvalid, Go, TypeOK, SafetyInv, Quorum, Replaying
      <3> QED
        BY <2>0, <3>1, InvCall DEF Replaying
    <2>9. CASE Resolve(c) \/ RequesterGone(c)
      <3>1. /\ Replaying(c) /\ pc'[c] = "idle" /\ \A d \in Calls \ {c} : pc'[d] = pc[d]
            /\ \E s \in {"approved", "stale", "pending"} :
                  /\ rstate' = [rstate EXCEPT ![r] = s]
                  /\ s = "pending" => applied[r] = 0
            /\ UNCHANGED <<requester, approvedBy, rejectedBy, applied, at, who>>
        BY <2>9 DEF Resolve, RequesterGone, Go, SetState, TypeOK, Replaying, SafetyInv, NotYetApplied
      <3> QED
        BY <2>0, <3>1, InvCall DEF Replaying, TypeOK
    <2> QED
      BY <1>4, <2>1, <2>2, <2>3, <2>4, <2>5, <2>6, <2>7, <2>8, <2>9 DEF Step
  <1> QED
    BY <1>1, <1>2, <1>3, <1>4 DEF Next

LEMMA SafetyHolds == Spec => []SafetyInv
  BY InvInit, InvStep, PTL DEF Spec

-----------------------------------------------------------------------------
(* Nothing is left unattended.                                             *)

(* A step of one call keeps every request attended if the requests that    *)
(* are waiting after it either were waiting before, and not for this call, *)
(* or have this call now.                                                  *)
LEMMA AttendedMoves ==
    ASSUME Attended, NEW c \in Calls, hit \subseteq hit',
           \A d \in Calls \ {c} : pc'[d] = pc[d] /\ at'[d] = at[d],
           \A s \in Requests \ hit' : rstate'[s] = "applying" =>
                \/ rstate[s] = "applying" /\ ~(at[c] = s /\ Replaying(c))
                \/ at'[c] = s /\ Replaying(c)',
           \A s \in Requests \ hit' : rstate'[s] = "pending" /\ Enough(s)' =>
                \/ rstate[s] = "pending" /\ Enough(s) /\ ~(at[c] = s /\ pc[c] \in {"count", "claim"})
                \/ at'[c] = s /\ pc'[c] \in {"count", "claim"}
    PROVE  Attended'
  <1> SUFFICES ASSUME NEW s \in Requests \ hit'
               PROVE  /\ rstate'[s] = "applying" => \E d \in Calls : at'[d] = s /\ Replaying(d)'
                      /\ rstate'[s] = "pending" /\ Enough(s)'
                            => \E d \in Calls : at'[d] = s /\ pc'[d] \in {"count", "claim"}
    BY DEF Attended, Enough, Replaying
  <1>0. /\ rstate[s] = "applying" => \E d \in Calls : at[d] = s /\ Replaying(d)
        /\ rstate[s] = "pending" /\ Enough(s) => \E d \in Calls : at[d] = s /\ pc[d] \in {"count", "claim"}
    BY DEF Attended
  <1>1. ASSUME rstate'[s] = "applying" PROVE \E d \in Calls : at'[d] = s /\ Replaying(d)'
    BY <1>0, <1>1 DEF Replaying
  <1>2. ASSUME rstate'[s] = "pending", Enough(s)'
        PROVE  \E d \in Calls : at'[d] = s /\ pc'[d] \in {"count", "claim"}
    BY <1>0, <1>2
  <1> QED
    BY <1>1, <1>2

LEMMA AttendedStep == SafetyInv /\ Attended /\ [Next]_vars => Attended'
  <1> SUFFICES ASSUME SafetyInv, Attended, [Next]_vars PROVE Attended'
    OBVIOUS
  <1>0. TypeOK /\ NothingYet
    BY DEF SafetyInv
  <1> USE <1>0 DEF requestVars, decisionVars, callVars
  <1>1. ASSUME NEW r \in Requests, NEW p \in Principals, Park(r, p) PROVE Attended'
    <2>1. /\ rstate' = [rstate EXCEPT ![r] = "pending"] /\ rstate[r] = "none"
          /\ UNCHANGED <<approvedBy, pc, at, hit>>
      BY <1>1 DEF Park
    <2>2. ~Enough(r)
      <3>1. approvedBy[r] = {}
        BY <2>1 DEF NothingYet, Decided
      <3>2. Required[r] \in Nat \ {0}
        BY RequiredAssumption
      <3> QED
        BY <3>1, <3>2, FS_EmptySet DEF Enough
    <2> QED
      BY <2>1, <2>2 DEF Attended, Enough, Replaying, TypeOK
  <1>2. CASE Write \/ UNCHANGED vars
    BY <1>2 DEF Write, vars, Attended, Enough, Replaying
  <1>3. ASSUME NEW c \in Calls, NEW p \in Principals, NEW r \in Requests,
               NEW d \in {"approving", "rejecting"}, Begin(c, p, r, d)
        PROVE  Attended'
    <2>1. /\ pc[c] = "idle" /\ UNCHANGED <<rstate, approvedBy, hit>>
          /\ \A e \in Calls \ {c} : pc'[e] = pc[e] /\ at'[e] = at[e]
      BY <1>3 DEF Begin, TypeOK
    <2> QED
      BY <2>1, AttendedMoves DEF Enough, Replaying
  <1>4. ASSUME NEW c \in Calls, Step(c) \/ RequesterGone(c) \/ Crash(c)
        PROVE  Attended'
    <2> DEFINE r == at[c]
    <2>0. r \in Requests
      BY DEF TypeOK
    <2>1. UNCHANGED at /\ \A d \in Calls \ {c} : pc'[d] = pc[d]
      BY <1>4 DEF Step, RecordApproval, RecordRejection, AlreadyDecided, MarkRejected, Count, Claim,
                  Replay, ReplayInvalid, Resolve, RequesterGone, Crash, Go, TypeOK
    <2>2. CASE RecordApproval(c)
      <3>1. /\ pc'[c] = "count" /\ UNCHANGED <<rstate, hit>> /\ ~Replaying(c)
            /\ pc[c] \notin {"count", "claim"}
            /\ \A s \in Requests \ {r} : Enough(s)' <=> Enough(s)
        BY <2>2 DEF RecordApproval, Go, Enough, Replaying, TypeOK
      <3> QED
        BY <2>1, <3>1, AttendedMoves
    <2>3. CASE RecordRejection(c) \/ AlreadyDecided(c) \/ Replay(c) \/ ReplayInvalid(c)
      <3>1. /\ UNCHANGED <<rstate, approvedBy, hit>> /\ pc[c] \notin {"count", "claim"}
            /\ Replaying(c) => Replaying(c)'
        BY <2>3 DEF RecordRejection, AlreadyDecided, Replay, ReplayInvalid, Go, Replaying, TypeOK
      <3> QED
        BY <2>1, <3>1, AttendedMoves DEF Enough
    <2>4. CASE MarkRejected(c) \/ Resolve(c)
      <3>1. /\ \E s \in {"rejected", "approved", "stale"} : rstate' = [rstate EXCEPT ![r] = s]
            /\ UNCHANGED <<approvedBy, hit>>
        BY <2>4 DEF MarkRejected, Resolve, SetState
      <3>2. rstate'[r] \notin {"applying", "pending"} /\ \A s \in Requests \ {r} : rstate'[s] = rstate[s]
        BY <2>0, <3>1 DEF TypeOK
      <3> QED
        BY <2>1, <3>1, <3>2, AttendedMoves DEF Enough
    <2>5. CASE Count(c)
      <3>1. /\ UNCHANGED <<rstate, approvedBy, hit>> /\ ~Replaying(c)
            /\ Enough(r) => pc'[c] = "claim"
        BY <2>5 DEF Count, Go, Replaying, TypeOK
      <3> QED
        BY <2>1, <3>1, AttendedMoves DEF Enough
    <2>6. CASE Claim(c)
      <3>1. pc[c] = "claim" /\ UNCHANGED <<approvedBy, hit>>
        BY <2>6 DEF Claim
      <3>2. CASE rstate[r] = "pending"
        <4>1. rstate' = [rstate EXCEPT ![r] = "applying"] /\ pc'[c] = "replay"
          BY <2>6, <3>2 DEF Claim, Go, SetState, TypeOK
        <4> QED
          BY <2>0, <2>1, <3>1, <4>1, AttendedMoves DEF Enough, Replaying, TypeOK
      <3>3. CASE rstate[r] # "pending"
        <4>1. UNCHANGED rstate
          BY <2>6, <3>3 DEF Claim
        <4> QED
          BY <2>1, <3>1, <3>3, <4>1, AttendedMoves DEF Enough, Replaying
      <3> QED
        BY <3>2, <3>3
    <2>7. CASE RequesterGone(c) \/ Crash(c)
      <3>1. /\ hit' = hit \union {r} /\ UNCHANGED approvedBy
            /\ \A s \in Requests \ {r} : rstate'[s] = rstate[s]
        BY <2>7 DEF RequesterGone, Crash, Hit, SetState, TypeOK
      <3> QED
        BY <2>1, <3>1, AttendedMoves DEF Enough
    <2> QED
      BY <1>4, <2>2, <2>3, <2>4, <2>5, <2>6, <2>7 DEF Step
  <1> QED
    BY <1>1, <1>2, <1>3, <1>4 DEF Next

(* The inductive invariant holds under crashes and vanishing requesters.   *)
THEOREM InvHolds == Spec => []Inv
  <1>1. Init => SafetyInv /\ Attended
    BY InvInit DEF Init, Attended, Enough
  <1>2. SafetyInv /\ Attended /\ [Next]_vars => (SafetyInv /\ Attended)'
    BY InvStep, AttendedStep
  <1> QED
    BY <1>1, <1>2, PTL DEF Spec, Inv

(* No request that is claimed, or pending with its quorum, is without a    *)
(* call that moves it on, unless a fault hit the request itself.           *)
THEOREM AttendedHolds == Spec => []Attended
  <1>1. Inv => Attended
    BY DEF Inv
  <1> QED
    BY <1>1, InvHolds, PTL

-----------------------------------------------------------------------------
(* What follows from it.                                                   *)

(* Concurrent approvers, crashed calls and reopened requests included, a   *)
(* parked change is applied at most once.                                  *)
THEOREM AppliesOnceHolds == Spec => []AppliesOnce
  <1>1. SafetyInv => AppliesOnce
    BY DEF SafetyInv
  <1> QED
    BY <1>1, SafetyHolds, PTL

(* At most one call is between winning the claim and resolving it.         *)
THEOREM OneReplayerHolds == Spec => []OneReplayer
  <1>1. SafetyInv => OneReplayer
    BY DEF SafetyInv, OneReplay
  <1> QED
    BY <1>1, SafetyHolds, PTL

(* Every applied change has its quorum of eligible people other than its   *)
(* requester.                                                              *)
THEOREM FourEyesHolds == Spec => []FourEyesOnApplied
  <1>1. SafetyInv => FourEyesOnApplied
    BY DEF SafetyInv, FourEyesOnApplied, Quorum, Enough, Entitled
  <1> QED
    BY <1>1, SafetyHolds, PTL

(* A rejection no replay had overtaken is never undone.                    *)
THEOREM RejectionHolds == Spec => RejectionStands
  <1>1. TypeOK /\ [Next]_vars =>
          [\A r \in Requests :
             rstate[r] = "rejected" /\ ~(\E c \in Calls : at[c] = r /\ Replaying(c))
                => rstate'[r] = "rejected" /\ applied'[r] = applied[r]]_vars
    <2> SUFFICES ASSUME TypeOK, Next, NEW r \in Requests, rstate[r] = "rejected",
                        \A c \in Calls : at[c] = r => ~Replaying(c)
                 PROVE  rstate'[r] = "rejected" /\ applied'[r] = applied[r]
      OBVIOUS
    <2> USE DEF TypeOK, requestVars, decisionVars, callVars, Replaying
    <2>1. ASSUME NEW s \in Requests, NEW p \in Principals, Park(s, p)
          PROVE  rstate'[r] = "rejected" /\ applied'[r] = applied[r]
      BY <2>1 DEF Park
    <2>2. ASSUME NEW c \in Calls, NEW p \in Principals, NEW s \in Requests,
                 NEW d \in {"approving", "rejecting"}, Begin(c, p, s, d)
          PROVE  rstate'[r] = "rejected" /\ applied'[r] = applied[r]
      BY <2>2 DEF Begin
    <2>3. ASSUME NEW c \in Calls, Step(c) \/ RequesterGone(c) \/ Crash(c)
          PROVE  rstate'[r] = "rejected" /\ applied'[r] = applied[r]
      BY <2>3
         DEF Step, RecordApproval, RecordRejection, AlreadyDecided, MarkRejected, Count, Claim,
             Replay, ReplayInvalid, Resolve, RequesterGone, Crash, SetState
    <2>4. CASE Write
      BY <2>4 DEF Write
    <2> QED
      BY <2>1, <2>2, <2>3, <2>4 DEF Next
  <1>2. SafetyInv => TypeOK
    BY DEF SafetyInv
  <1> QED
    BY <1>1, <1>2, SafetyHolds, PTL DEF Spec, RejectionStands

(* Only a replay applies, and only on the version that was parked.         *)
THEOREM ReviewedHolds == Spec => AppliedAsReviewed
  <1>1. TypeOK /\ [Next]_vars =>
          [\A r \in Requests : applied'[r] # applied[r] => version = baseline[r]]_vars
    <2> SUFFICES ASSUME TypeOK, Next, NEW r \in Requests, applied'[r] # applied[r]
                 PROVE  version = baseline[r]
      OBVIOUS
    <2> USE DEF requestVars, decisionVars, callVars
    <2>1. PICK c \in Calls : Replay(c)
      BY DEF Next, Step, Park, Write, Begin, RecordApproval, RecordRejection, AlreadyDecided,
             MarkRejected, Count, Claim, ReplayInvalid, Resolve, RequesterGone, Crash
    <2>2. at[c] = r
      BY <2>1 DEF Replay, TypeOK
    <2> QED
      BY <2>1, <2>2 DEF Replay, BaselineHolds
  <1>2. SafetyInv => TypeOK
    BY DEF SafetyInv
  <1> QED
    BY <1>1, <1>2, SafetyHolds, PTL DEF Spec, AppliedAsReviewed

(* No record has two requests pending, but for one a vanished requester    *)
(* has reopened.                                                           *)
THEOREM OnePendingHolds == Spec => []OnePending
  <1>1. Init => OnePending
    BY DEF Init, OnePending
  <1>2. TypeOK /\ OnePending /\ [Next]_vars => OnePending'
    <2> SUFFICES ASSUME TypeOK, OnePending, [Next]_vars PROVE OnePending'
      OBVIOUS
    <2> USE DEF requestVars, decisionVars, callVars
    <2>1. ASSUME NEW s \in Requests, NEW p \in Principals, Park(s, p) PROVE OnePending'
      BY <2>1 DEF Park, NonePending, OnePending, TypeOK
    <2>2. ASSUME hit \subseteq hit',
                 \A s \in Requests \ hit' : rstate'[s] = "pending" => rstate[s] = "pending"
          PROVE  OnePending'
      BY <2>2 DEF OnePending
    <2>3. ASSUME NEW c \in Calls, Step(c) PROVE OnePending'
      BY <2>2, <2>3
         DEF Step, RecordApproval, RecordRejection, AlreadyDecided, MarkRejected, Count, Claim,
             Replay, ReplayInvalid, Resolve, SetState, TypeOK
    <2>4. ASSUME NEW c \in Calls, RequesterGone(c) \/ Crash(c) PROVE OnePending'
      BY <2>2, <2>4 DEF RequesterGone, Crash, Hit, SetState, TypeOK
    <2>5. ASSUME NEW c \in Calls, NEW p \in Principals, NEW s \in Requests,
                 NEW d \in {"approving", "rejecting"}, Begin(c, p, s, d)
          PROVE  OnePending'
      BY <2>2, <2>5 DEF Begin
    <2>6. CASE Write \/ UNCHANGED vars
      BY <2>2, <2>6 DEF Write, vars
    <2> QED
      BY <2>1, <2>3, <2>4, <2>5, <2>6 DEF Next
  <1>3. SafetyInv => TypeOK
    BY DEF SafetyInv
  <1> QED
    BY <1>1, <1>2, <1>3, SafetyHolds, PTL DEF Spec

-----------------------------------------------------------------------------
(* Approvals implements FourEyes.                                          *)

LEMMA FourEyesInit == Init => F!Init
  BY DEF Init, F!Init

LEMMA FourEyesStep == SafetyInv /\ [Next]_vars => [F!Next]_(F!fvars)
  <1> SUFFICES ASSUME SafetyInv, [Next]_vars PROVE F!Next \/ UNCHANGED F!fvars
    OBVIOUS
  <1> DEFINE Proposal == [r \in Requests |-> IF rstate[r] = "none" THEN {}
                                             ELSE {[by |-> requester[r], baseline |-> baseline[r]]}]
  <1> USE DEF requestVars, decisionVars, callVars
  <1>0. TypeOK /\ NothingYet
    BY DEF SafetyInv
  <1>1. ASSUME NEW r \in Requests, NEW p \in Principals, Park(r, p)
        PROVE  F!Propose(r, p)
    <2>1. Proposal' = [Proposal EXCEPT ![r] = {[by |-> p, baseline |-> version]}]
      BY <1>0, <1>1 DEF Park, TypeOK
    <2> QED
      BY <1>1, <2>1 DEF Park, F!Propose
  <1>2. CASE Write
    BY <1>2 DEF Write, F!Next, F!Other
  <1>3. ASSUME NEW c \in Calls, RecordApproval(c)
        PROVE  F!Endorse(at[c], who[c])
    <2>1. at[c] \in Requests /\ MayDecide(who[c], at[c]) /\ rstate[at[c]] # "none"
      BY <1>0, <1>3 DEF RecordApproval, SafetyInv, Entitled, NothingYet, TypeOK
    <2>2. UNCHANGED Proposal
      BY <1>3 DEF RecordApproval
    <2> QED
      BY <1>3, <2>1, <2>2 DEF RecordApproval, F!Endorse, MayDecide
  <1>4. ASSUME NEW c \in Calls, Replay(c)
        PROVE  F!Apply(at[c])
    <2>1. at[c] \in Requests /\ Enough(at[c]) /\ rstate[at[c]] # "none" /\ applied[at[c]] = 0
      BY <1>0, <1>4 DEF Replay, SafetyInv, Quorum, Replaying, NotYetApplied, OneReplay, OneReplayer, TypeOK
    <2>2. applied' = [applied EXCEPT ![at[c]] = 1]
      BY <1>4, <2>1 DEF Replay
    <2>3. UNCHANGED Proposal
      BY <1>4 DEF Replay
    <2>4. \E d \in Proposal[at[c]] : d.baseline = version
      BY <1>4, <2>1 DEF Replay, BaselineHolds
    <2>5. version' = version + 1 /\ UNCHANGED approvedBy
      BY <1>4 DEF Replay
    <2>6. approvedBy[at[c]] \in {S \in SUBSET Principals : Cardinality(S) >= Required[at[c]]}
      BY <1>0, <2>1 DEF Enough, TypeOK
    <2> QED
      BY <2>1, <2>2, <2>3, <2>4, <2>5, <2>6 DEF F!Apply
  <1>5. ASSUME UNCHANGED <<requester, baseline, approvedBy, applied, version>>,
               \A r \in Requests : rstate[r] = "none" <=> rstate'[r] = "none"
        PROVE  UNCHANGED F!fvars
    <2>1. UNCHANGED Proposal
      BY <1>5
    <2> QED
      BY <1>5, <2>1 DEF F!fvars
  <1>6. ASSUME NEW c \in Calls,
               \/ RecordRejection(c) \/ AlreadyDecided(c) \/ MarkRejected(c) \/ Count(c)
               \/ Claim(c) \/ ReplayInvalid(c) \/ Resolve(c) \/ RequesterGone(c) \/ Crash(c)
        PROVE  UNCHANGED F!fvars
    <2>1. at[c] \in Requests /\ (pc[c] # "idle" => rstate[at[c]] # "none")
      BY <1>0 DEF TypeOK, NothingYet
    <2> QED
      BY <1>0, <1>5, <1>6, <2>1
         DEF RecordRejection, AlreadyDecided, MarkRejected, Count, Claim, ReplayInvalid, Resolve,
             RequesterGone, Crash, SetState, TypeOK
  <1>7. ASSUME NEW c \in Calls, NEW p \in Principals, NEW r \in Requests,
               NEW d \in {"approving", "rejecting"}, Begin(c, p, r, d)
        PROVE  UNCHANGED F!fvars
    BY <1>5, <1>7 DEF Begin
  <1>8. CASE UNCHANGED vars
    BY <1>5, <1>8 DEF vars
  <1>9. \A c \in Calls : at[c] \in Requests /\ who[c] \in Principals
    BY <1>0 DEF TypeOK
  <1> QED
    BY <1>1, <1>2, <1>3, <1>4, <1>6, <1>7, <1>8, <1>9 DEF Next, Step, F!Next

(* The approval engine implements the abstract four-eyes promise: at most  *)
(* once, with a quorum, against the version that was reviewed.             *)
THEOREM ImplementsFourEyes == Spec => FourEyesSpec
  BY InvInit, InvStep, FourEyesInit, FourEyesStep, PTL DEF Spec, FourEyesSpec, F!Spec
=============================================================================
