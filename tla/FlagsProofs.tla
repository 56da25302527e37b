---------------------------- MODULE FlagsProofs ----------------------------
(***************************************************************************)
(* Proofs about Flags for every number of versions, attempts and faults.   *)
(***************************************************************************)
EXTENDS Flags, TLAPS

USE DEF configVars, approvalVars, serviceVars

LEMMA TypeInit == Init => TypeOK
  BY PercentagesAssumption, BoundsAssumption DEF Init, TypeOK, Versions, Changes, Off

(* A write: only version + 1 gets a config, an origin and a queued row.    *)
LEMMA CommitType ==
    ASSUME TypeOK, NEW c \in Changes, NEW by \in Writers,
           NEW expected \in Versions, Commit(c, by, expected)
    PROVE  /\ version + 1 \in Versions /\ version' = version + 1 /\ state' = "publishing"
           /\ change' = [change EXCEPT ![version + 1] = c] /\ change' \in [Versions -> Changes]
           /\ origin' = [origin EXCEPT ![version + 1] = [by |-> by, baseline |-> expected]]
           /\ origin' \in [Versions -> [by : {"seed"} \union Writers, baseline : 0..MaxVersion]]
           /\ publish' = [publish EXCEPT ![version + 1] = "queued"]
           /\ publish' \in [Versions -> Running \union {"none", "queued", "orphan",
                                                        "succeeded", "failed", "unknown"}]
           /\ UNCHANGED <<publishedVersion, answer, attempts, served, accepted, faults>>
  <1>1. version + 1 \in Versions /\ expected \in 0..MaxVersion
    BY BoundsAssumption DEF TypeOK, Versions, Commit
  <1> QED
    BY <1>1 DEF Commit, TypeOK, Running

(* The writes are an update nobody has to approve, the replay of one that  *)
(* was approved, and a rollback; each is on the version it names.          *)
Written(c, by, expected) ==
    /\ Commit(c, by, expected)
    /\ expected = version
    /\ c.rolloutPct > ApprovalPct => by \in {"approved", "elsewhere"}
    /\ by # "rollback" => MonotonicRollout(c)

LEMMA UpdateWrites ==
    ASSUME NEW c \in Changes, NEW expected \in Versions, NEW environment \in Environments,
           Update(c, expected, environment)
    PROVE  /\ LetThroughBy(c, environment) \in Writers
           /\ Written(c, LetThroughBy(c, environment), expected)
  <1>1. c.rolloutPct \in 0..100 /\ ApprovalPct \in 0..100
    BY PercentagesAssumption DEF Changes
  <1>2. c.rolloutPct > ApprovalPct => environment # "production"
    BY DEF Update, NeedsApproval
  <1> QED
    BY <1>1, <1>2 DEF Update, MayUpdate, ReviewedBaseline, Written, LetThroughBy, Writers

LEMMA ReplayWrites ==
    ASSUME TypeOK, NEW q \in approving, Replay(q)
    PROVE  q.change \in Changes /\ q.expected \in Versions /\ "approved" \in Writers
           /\ Written(q.change, "approved", q.expected)
  BY DEF Replay, MayUpdate, ReviewedBaseline, Written, TypeOK, Writers

LEMMA RollbackWrites ==
    ASSUME Rollback
    PROVE  Off \in Changes /\ "rollback" \in Writers /\ Written(Off, "rollback", version)
  BY PercentagesAssumption DEF Rollback, Written, Off, Changes, Writers

LEMMA TypeStep == TypeOK /\ [Next]_vars => TypeOK'
  <1> SUFFICES ASSUME TypeOK, [Next]_vars PROVE TypeOK'
    OBVIOUS
  <1>1. ASSUME NEW c \in Changes, NEW by \in Writers,
               NEW expected \in Versions, Commit(c, by, expected),
               parked' \in SUBSET [change : Changes, expected : Versions],
               approving' \in SUBSET [change : Changes, expected : Versions]
        PROVE  TypeOK'
    BY <1>1, CommitType DEF TypeOK
  <1>2. ASSUME NEW c \in Changes, NEW expected \in Versions, NEW environment \in Environments,
               Update(c, expected, environment) PROVE TypeOK'
    <2>1. /\ parked' \in SUBSET [change : Changes, expected : Versions]
          /\ approving' \in SUBSET [change : Changes, expected : Versions]
      BY <1>2 DEF Update, TypeOK
    <2> QED
      BY <1>1, <1>2, <2>1, UpdateWrites DEF Written
  <1>3. ASSUME NEW c \in Changes, NEW expected \in Versions, NEW environment \in Environments,
               Park(c, expected, environment) PROVE TypeOK'
    BY <1>3 DEF Park, TypeOK
  <1>4. ASSUME NEW q \in parked, Approve(q) PROVE TypeOK'
    BY <1>4 DEF Approve, TypeOK
  <1>5. ASSUME NEW q \in approving, Replay(q) PROVE TypeOK'
    <2>1. parked' \in SUBSET [change : Changes, expected : Versions]
          /\ approving' \in SUBSET [change : Changes, expected : Versions]
      BY <1>5 DEF Replay, TypeOK
    <2> QED
      BY <1>1, <1>5, <2>1, ReplayWrites DEF Written
  <1>6. ASSUME NEW q \in approving, ReplayStale(q) PROVE TypeOK'
    BY <1>6 DEF ReplayStale, TypeOK
  <1>7. CASE Refuse
    BY <1>7 DEF Refuse, TypeOK
  <1>8. CASE Rollback
    <2>1. version \in Versions
      BY DEF TypeOK
    <2>2. parked' \in SUBSET [change : Changes, expected : Versions]
          /\ approving' \in SUBSET [change : Changes, expected : Versions]
      BY <1>8 DEF Rollback, TypeOK
    <2> QED
      BY <1>1, <1>8, <2>1, <2>2, RollbackWrites DEF Written
  <1>9. ASSUME NEW v \in Versions,
               Work(v) \/ CallThrows(v) \/ SettleThrows(v) \/ Crash(v)
        PROVE  TypeOK'
    <2>1. CASE Claim(v) \/ Requeue(v) \/ Finish(v) \/ Crash(v)
      <3>1. CASE Finish(v)
        BY <3>1 DEF Finish, Answered, Goto, Running, TypeOK
      <3>2. CASE Claim(v)
        BY <3>2 DEF Claim, Goto, Running, TypeOK
      <3>3. CASE Requeue(v)
        BY <3>3 DEF Requeue, Answered, Goto, Running, TypeOK
      <3>4. CASE Crash(v)
        BY <3>4 DEF Crash, Answered, Goto, Fault, Running, TypeOK
      <3> QED
        BY <2>1, <3>1, <3>2, <3>3, <3>4
    <2>2. CASE CallSucceeds(v) \/ CallFails(v) \/ CallThrows(v)
      <3>1. \E a \in {"succeeded", "failed", "unknown"}, step \in {"settle", "requeue"} :
               Answered(v, a, step)
        BY <2>2 DEF CallSucceeds, CallFails, CallThrows
      <3>2. publish' \in [Versions -> Running \union {"none", "queued", "orphan",
                                                     "succeeded", "failed", "unknown"}]
            /\ answer' \in [Versions -> {"none", "succeeded", "failed", "unknown"}]
        BY <3>1 DEF Answered, Goto, Running, TypeOK
      <3>3. served' \in Versions /\ accepted' \in SUBSET Versions /\ faults' \in Nat
            /\ UNCHANGED <<configVars, approvalVars, attempts>>
        BY <2>2 DEF CallSucceeds, CallFails, CallThrows, Serve, Fault, TypeOK
      <3> QED
        BY <3>2, <3>3 DEF TypeOK
    <2>3. CASE Settle(v) \/ SettleThrows(v)
      BY <2>3
         DEF Settle, SettleThrows, Settlement, ConfirmationIsCurrent, Goto, Fault, Running, TypeOK
    <2> QED
      BY <1>9, <2>1, <2>2, <2>3 DEF Work
  <1>10. CASE UNCHANGED vars
    BY <1>10 DEF vars, TypeOK
  <1> QED
    BY <1>2, <1>3, <1>4, <1>5, <1>6, <1>7, <1>8, <1>9, <1>10 DEF Next

-----------------------------------------------------------------------------
(* The inductive invariant.                                                *)

LEMMA SafetyInit == Init => SafetyInv
  BY TypeInit, BoundsAssumption, PercentagesAssumption
     DEF Init, SafetyInv, LiveIsConfirmed, PublishedWasAccepted, RowsOfVersions, SuccessAccepted,
         WrittenOnApproval, ApprovedOnReviewed, Versions, Off

(* A write makes the config 'publishing' and touches one version nobody    *)
(* has seen yet.                                                           *)
LEMMA SafetyWrite ==
    ASSUME SafetyInv, TypeOK', NEW c \in Changes, NEW by \in Writers,
           NEW expected \in Versions, Written(c, by, expected)
    PROVE  SafetyInv'
  <1>1. /\ version + 1 \in Versions /\ version' = version + 1 /\ state' = "publishing"
        /\ change' = [change EXCEPT ![version + 1] = c]
        /\ origin' = [origin EXCEPT ![version + 1] = [by |-> by, baseline |-> expected]]
        /\ publish' = [publish EXCEPT ![version + 1] = "queued"]
        /\ UNCHANGED <<publishedVersion, answer, served, accepted>>
    BY CommitType DEF Written, SafetyInv
  <1>2. version \in Nat /\ publishedVersion \in Nat /\ Versions \subseteq Nat
    BY DEF SafetyInv, TypeOK, Versions
  <1>3. LiveIsConfirmed' /\ PublishedWasAccepted' /\ (publishedVersion <= version)'
    BY <1>1, <1>2 DEF SafetyInv, LiveIsConfirmed, PublishedWasAccepted
  <1>4. RowsOfVersions' /\ SuccessAccepted'
    BY <1>1, <1>2 DEF SafetyInv, TypeOK, RowsOfVersions, SuccessAccepted
  <1>5. WrittenOnApproval'
    BY <1>1, <1>2 DEF SafetyInv, TypeOK, WrittenOnApproval, Written
  <1>6. ApprovedOnReviewed'
    <2>1. origin'[version + 1].baseline = version
      BY <1>1 DEF SafetyInv, TypeOK, Written
    <2>2. ASSUME NEW v \in Versions, v # version + 1 PROVE origin'[v] = origin[v]
      BY <1>1, <2>2 DEF SafetyInv, TypeOK
    <2>3. ASSUME NEW v \in Versions, origin'[v].by = "approved" PROVE origin'[v].baseline = v - 1
      <3>1. CASE v = version + 1
        BY <1>2, <2>1, <3>1
      <3>2. CASE v # version + 1
        BY <2>2, <2>3, <3>2 DEF SafetyInv, ApprovedOnReviewed
      <3> QED
        BY <3>1, <3>2
    <2> QED
      BY <2>3 DEF ApprovedOnReviewed, Versions
  <1> QED
    BY <1>3, <1>4, <1>5, <1>6 DEF SafetyInv

(* A settlement that applies is of the current version: 'live' is reached  *)
(* with publishedVersion = version, by an answer the service gave.         *)
LEMMA SafetySettlement ==
    ASSUME SafetyInv, TypeOK', NEW v \in Versions, publish[v] = "settle",
           Settlement(v) \/ UNCHANGED <<state, publishedVersion>>,
           \E step \in {"finish", "requeue"} : Goto(v, step),
           UNCHANGED <<version, change, origin, answer, served, accepted>>
    PROVE  SafetyInv'
  <1>1. LiveIsConfirmed' /\ PublishedWasAccepted' /\ (publishedVersion <= version)'
    BY DEF Settlement, ConfirmationIsCurrent, SafetyInv, LiveIsConfirmed, PublishedWasAccepted,
           SuccessAccepted, TypeOK, Versions
  <1>2. RowsOfVersions' /\ SuccessAccepted'
    BY DEF Goto, SafetyInv, TypeOK, RowsOfVersions, SuccessAccepted
  <1>3. WrittenOnApproval' /\ ApprovedOnReviewed'
    BY DEF SafetyInv, WrittenOnApproval, ApprovedOnReviewed
  <1> QED
    BY <1>1, <1>2, <1>3 DEF SafetyInv

LEMMA SafetyStep == SafetyInv /\ [Next]_vars => SafetyInv'
  <1> SUFFICES ASSUME SafetyInv, [Next]_vars PROVE SafetyInv'
    OBVIOUS
  <1>0. TypeOK /\ TypeOK'
    BY TypeStep DEF SafetyInv
  <1>1. ASSUME UNCHANGED <<configVars, publish, answer, serviceVars>> PROVE SafetyInv'
    BY <1>0, <1>1
       DEF SafetyInv, LiveIsConfirmed, PublishedWasAccepted, RowsOfVersions, SuccessAccepted,
           WrittenOnApproval, ApprovedOnReviewed
  <1>2. ASSUME NEW c \in Changes, NEW expected \in Versions, NEW environment \in Environments,
               Update(c, expected, environment) PROVE SafetyInv'
    BY <1>0, <1>2, UpdateWrites, SafetyWrite
  <1>3. ASSUME NEW q \in approving, Replay(q) PROVE SafetyInv'
    BY <1>0, <1>3, ReplayWrites, SafetyWrite
  <1>4. CASE Rollback
    <2>1. version \in Versions
      BY <1>0 DEF TypeOK
    <2> QED
      BY <1>0, <1>4, <2>1, RollbackWrites, SafetyWrite
  <1>5. CASE \/ \E c \in Changes, expected \in Versions, environment \in Environments :
                   Park(c, expected, environment)
             \/ \E q \in parked : Approve(q)
             \/ \E q \in approving : ReplayStale(q)
             \/ Refuse \/ UNCHANGED vars
    BY <1>1, <1>5 DEF Park, Approve, ReplayStale, Refuse, vars
  <1>6. ASSUME NEW v \in Versions, Settle(v) \/ SettleThrows(v) PROVE SafetyInv'
    BY <1>0, <1>6, SafetySettlement DEF Settle, SettleThrows
  <1>7. ASSUME NEW v \in Versions,
               \/ Claim(v) \/ CallSucceeds(v) \/ CallFails(v) \/ CallThrows(v)
               \/ Requeue(v) \/ Finish(v) \/ Crash(v)
        PROVE  SafetyInv'
    <2>1. /\ UNCHANGED <<configVars>> /\ publish[v] # "none"
          /\ accepted \subseteq accepted' /\ served' \in accepted' \union {served}
      BY <1>0, <1>7
         DEF Claim, CallSucceeds, CallFails, CallThrows, Requeue, Finish, Crash, Serve, Running
    <2>2. LiveIsConfirmed' /\ PublishedWasAccepted' /\ (publishedVersion <= version)'
      BY <2>1 DEF SafetyInv, LiveIsConfirmed, PublishedWasAccepted
    <2>3. RowsOfVersions'
      BY <1>0, <1>7, <2>1
         DEF Claim, CallSucceeds, CallFails, CallThrows, Requeue, Finish, Crash, Goto, Answered,
             SafetyInv, TypeOK, RowsOfVersions
    <2>4. SuccessAccepted'
      BY <1>0, <1>7, <2>1
         DEF Claim, CallSucceeds, CallFails, CallThrows, Requeue, Finish, Crash, Goto, Answered,
             Serve, SafetyInv, TypeOK, SuccessAccepted
    <2>5. WrittenOnApproval' /\ ApprovedOnReviewed'
      BY <2>1 DEF SafetyInv, WrittenOnApproval, ApprovedOnReviewed
    <2> QED
      BY <1>0, <2>2, <2>3, <2>4, <2>5 DEF SafetyInv
  <1> QED
    BY <1>2, <1>3, <1>4, <1>5, <1>6, <1>7 DEF Next, Work

(* The publish of the current version is queued, in somebody's hands, or   *)
(* one of the two no sweep takes up: a write queues its own row, and a     *)
(* settlement that leaves the config 'publishing' had no answer to apply.  *)
LEMMA AttendedStep == TypeOK /\ PublishAttended /\ [Next]_vars => PublishAttended'
  <1> SUFFICES ASSUME TypeOK, PublishAttended, [Next]_vars PROVE PublishAttended'
    OBVIOUS
  <1>1. ASSUME UNCHANGED <<configVars, publish, answer>> PROVE PublishAttended'
    BY <1>1 DEF PublishAttended
  <1>2. ASSUME NEW c \in Changes, NEW by \in Writers,
               NEW expected \in Versions, Written(c, by, expected)
        PROVE  PublishAttended'
    <2>1. /\ version + 1 \in Versions /\ version' = version + 1
          /\ publish' = [publish EXCEPT ![version + 1] = "queued"]
      BY <1>2, CommitType DEF Written
    <2>2. publish'[version'] = "queued"
      BY <2>1 DEF TypeOK
    <2> QED
      BY <2>2 DEF PublishAttended
  <1>3. ASSUME NEW c \in Changes, NEW expected \in Versions, NEW environment \in Environments,
               Update(c, expected, environment)
        PROVE  PublishAttended'
    BY <1>2, <1>3, UpdateWrites
  <1>4. ASSUME NEW q \in approving, Replay(q) PROVE PublishAttended'
    BY <1>2, <1>4, ReplayWrites
  <1>5. CASE Rollback
    <2>1. version \in Versions
      BY DEF TypeOK
    <2> QED
      BY <1>2, <1>5, <2>1, RollbackWrites
  <1>6. CASE \/ \E c \in Changes, expected \in Versions, environment \in Environments :
                   Park(c, expected, environment)
             \/ \E q \in parked : Approve(q)
             \/ \E q \in approving : ReplayStale(q)
             \/ Refuse \/ UNCHANGED vars
    BY <1>1, <1>6 DEF Park, Approve, ReplayStale, Refuse, vars
  <1>7. ASSUME NEW v \in Versions, Settle(v) \/ SettleThrows(v) PROVE PublishAttended'
    <2>1. UNCHANGED <<version, answer>> /\ publish[v] = "settle" /\ version \in Versions
      BY <1>7 DEF Settle, SettleThrows, TypeOK
    <2>2. CASE v = version
      BY <1>7, <2>1, <2>2
         DEF Settle, SettleThrows, Settlement, ConfirmationIsCurrent, Goto, PublishAttended, TypeOK
    <2>3. CASE v # version
      <3>1. publish'[version] = publish[version]
        BY <1>7, <2>1, <2>3 DEF Settle, SettleThrows, Goto, TypeOK
      <3>2. state' = state
        BY <1>7, <2>3 DEF Settle, SettleThrows, Settlement, ConfirmationIsCurrent
      <3> QED
        BY <2>1, <3>1, <3>2 DEF PublishAttended
    <2> QED
      BY <2>2, <2>3
  <1>8. ASSUME NEW v \in Versions,
               \/ Claim(v) \/ CallSucceeds(v) \/ CallFails(v) \/ CallThrows(v)
               \/ Requeue(v) \/ Finish(v) \/ Crash(v)
        PROVE  PublishAttended'
    <2>1. UNCHANGED configVars /\ version \in Versions
      BY <1>8
         DEF Claim, CallSucceeds, CallFails, CallThrows, Requeue, Finish, Crash, TypeOK
    <2>2. CASE v = version
      BY <1>8, <2>1, <2>2
         DEF Claim, CallSucceeds, CallFails, CallThrows, Requeue, Finish, Crash, Goto, Answered,
             PublishAttended, TypeOK
    <2>3. CASE v # version
      <3>1. publish'[version] = publish[version] /\ answer'[version] = answer[version]
        BY <1>8, <2>1, <2>3
           DEF Claim, CallSucceeds, CallFails, CallThrows, Requeue, Finish, Crash, Goto, Answered,
               TypeOK
      <3> QED
        BY <2>1, <3>1 DEF PublishAttended
    <2> QED
      BY <2>2, <2>3
  <1> QED
    BY <1>3, <1>4, <1>5, <1>6, <1>7, <1>8 DEF Next, Work

LEMMA InvInit == Init => Inv
  BY SafetyInit DEF Init, Inv, PublishAttended

LEMMA InvStep == Inv /\ [Next]_vars => Inv'
  <1>1. SafetyInv => TypeOK
    BY DEF SafetyInv
  <1> QED
    BY <1>1, SafetyStep, AttendedStep DEF Inv

(* The inductive invariant holds whatever publishes throw, crash or come   *)
(* late.                                                                   *)
THEOREM InvHolds == Spec => []Inv
  BY InvInit, InvStep, PTL DEF Spec

(* 'live' means that the current version was confirmed, not an older one.  *)
THEOREM LiveHolds == Spec => []LiveIsConfirmed
  <1>1. Inv => LiveIsConfirmed
    BY DEF Inv, SafetyInv
  <1> QED
    BY <1>1, InvHolds, PTL

(* The published version was taken by the flag service.                    *)
THEOREM PublishedHolds == Spec => []PublishedWasAccepted
  <1>1. Inv => PublishedWasAccepted
    BY DEF Inv, SafetyInv
  <1> QED
    BY <1>1, InvHolds, PTL

(* What production serves above the threshold was approved, or its own     *)
(* payload named another environment.                                      *)
THEOREM LargeRolloutHolds == Spec => []LargeRolloutApproved
  <1>1. Inv => LargeRolloutApproved
    BY DEF Inv, SafetyInv, WrittenOnApproval, LargeRolloutApproved, TypeOK
  <1> QED
    BY <1>1, InvHolds, PTL

(* What was approved was written on the version it was reviewed against.   *)
THEOREM ReviewedHolds == Spec => []ApprovedOnReviewed
  <1>1. Inv => ApprovedOnReviewed
    BY DEF Inv, SafetyInv
  <1> QED
    BY <1>1, InvHolds, PTL

(* A rollout comes down by a rollback only.                                *)
THEOREM RampsUpHolds == Spec => RampsUp
  <1> DEFINE Ramps(v) ==
         version = v /\ version' = v + 1 /\ change[v].enabled =>
            \/ origin'[v + 1].by = "rollback"
            \/ change'[v + 1].enabled /\ change'[v + 1].rolloutPct >= change[v].rolloutPct
  <1>1. TypeOK /\ [Next]_vars => [\A v \in Versions : Ramps(v)]_vars
    <2> SUFFICES ASSUME TypeOK, Next, NEW v \in Versions PROVE Ramps(v)
      OBVIOUS
    <2>1. ASSUME NEW c \in Changes, NEW by \in Writers,
                 NEW expected \in Versions, Written(c, by, expected)
          PROVE  Ramps(v)
      <3>0. /\ version + 1 \in Versions
            /\ change' = [change EXCEPT ![version + 1] = c]
            /\ origin' = [origin EXCEPT ![version + 1] = [by |-> by, baseline |-> expected]]
        BY <2>1, CommitType DEF Written
      <3>1. version = v => change'[v + 1] = c /\ origin'[v + 1].by = by
        BY <3>0 DEF TypeOK
      <3>2. by # "rollback" =>
               (change[version].enabled => c.enabled /\ c.rolloutPct >= change[version].rolloutPct)
        BY <2>1 DEF Written, MonotonicRollout
      <3> QED
        BY <3>1, <3>2, Zenon
    <2>2. ASSUME version' = version PROVE Ramps(v)
      BY <2>2 DEF TypeOK, Versions
    <2>3. ASSUME NEW c \in Changes, NEW expected \in Versions, NEW environment \in Environments,
               Update(c, expected, environment)
          PROVE  Ramps(v)
      BY <2>1, <2>3, UpdateWrites
    <2>4. ASSUME NEW q \in approving, Replay(q) PROVE Ramps(v)
      BY <2>1, <2>4, ReplayWrites
    <2>5. CASE Rollback
      <3>1. version \in Versions
        BY DEF TypeOK
      <3> QED
        BY <2>1, <2>5, <3>1, RollbackWrites
    <2>6. CASE \/ \E c \in Changes, expected \in Versions, environment \in Environments :
                   Park(c, expected, environment)
               \/ \E q \in parked : Approve(q)
               \/ \E q \in approving : ReplayStale(q)
               \/ Refuse
      BY <2>2, <2>6 DEF Park, Approve, ReplayStale, Refuse
    <2>7. ASSUME NEW w \in Versions,
                 Work(w) \/ CallThrows(w) \/ SettleThrows(w) \/ Crash(w)
          PROVE  Ramps(v)
      BY <2>2, <2>7
         DEF Work, Claim, CallSucceeds, CallFails, CallThrows, Settle, SettleThrows, Requeue,
             Finish, Crash
    <2> QED
      BY <2>3, <2>4, <2>5, <2>6, <2>7 DEF Next
  <1>2. Inv => TypeOK
    BY DEF Inv, SafetyInv
  <1> QED
    BY <1>1, <1>2, InvHolds, PTL DEF Spec, RampsUp

(* A config that is 'publishing' has somebody to bring it out of there, or *)
(* a row left by a dead runner or an undetermined call: never a row that   *)
(* was settled, refused or not written.                                    *)
THEOREM PublishAttendedHolds == Spec => []PublishAttended
  <1>1. Inv => PublishAttended
    BY DEF Inv
  <1> QED
    BY <1>1, InvHolds, PTL

-----------------------------------------------------------------------------
(* The refinement.                                                         *)

LEMMA RolloutInit == Init => R!Init
  BY DEF Init, R!Init

(* Every step is a write, the service taking a version that was written,   *)
(* the confirmation of the current version, or a stutter.                  *)
LEMMA RolloutStep == Inv /\ [Next]_vars => [R!Next]_(R!rvars)
  <1> SUFFICES ASSUME Inv, [Next]_vars PROVE R!Next \/ UNCHANGED R!rvars
    OBVIOUS
  <1>0. TypeOK /\ SafetyInv
    BY DEF Inv, SafetyInv
  <1>1. ASSUME NEW c \in Changes, NEW by \in Writers,
               NEW expected \in Versions, Written(c, by, expected)
        PROVE  R!Write
    BY <1>0, <1>1, CommitType DEF Written, R!Write
  <1>2. ASSUME NEW c \in Changes, NEW expected \in Versions, NEW environment \in Environments,
               Update(c, expected, environment)
        PROVE  R!Write
    BY <1>1, <1>2, UpdateWrites
  <1>3. ASSUME NEW q \in approving, Replay(q) PROVE R!Write
    BY <1>0, <1>1, <1>3, ReplayWrites
  <1>4. CASE Rollback
    <2>1. version \in Versions
      BY <1>0 DEF TypeOK
    <2>2. R!Write
      BY <1>1, <1>4, <2>1, RollbackWrites
    <2> QED
      BY <2>2 DEF R!Next
  <1>5. ASSUME UNCHANGED <<configVars, serviceVars>> PROVE UNCHANGED R!rvars
    BY <1>5 DEF R!rvars
  <1>6. CASE \/ \E c \in Changes, expected \in Versions, environment \in Environments :
                   Park(c, expected, environment)
             \/ \E q \in parked : Approve(q)
             \/ \E q \in approving : ReplayStale(q)
             \/ Refuse \/ UNCHANGED vars
    BY <1>5, <1>6 DEF Park, Approve, ReplayStale, Refuse, vars
  <1>7. ASSUME NEW v \in Versions, Settle(v) \/ SettleThrows(v)
        PROVE  R!Confirm \/ UNCHANGED R!rvars
    <2>1. /\ publish[v] = "settle" /\ UNCHANGED <<version, accepted>>
          /\ Settlement(v) \/ UNCHANGED <<state, publishedVersion>>
      BY <1>7 DEF Settle, SettleThrows
    <2>2. CASE state = "publishing" /\ v = version /\ answer[v] = "succeeded" /\ Settlement(v)
      <3>1. version \in accepted
        BY <1>0, <2>1, <2>2 DEF SafetyInv, SuccessAccepted
      <3>2. state' = "live" /\ publishedVersion' = version
        BY <2>2 DEF Settlement, ConfirmationIsCurrent
      <3> QED
        BY <2>1, <2>2, <3>1, <3>2 DEF R!Confirm
    <2>3. CASE ~(state = "publishing" /\ v = version /\ answer[v] = "succeeded" /\ Settlement(v))
      <3>1. (state' = "live") = (state = "live") /\ publishedVersion' = publishedVersion
        BY <2>1, <2>3 DEF Settlement, ConfirmationIsCurrent
      <3> QED
        BY <2>1, <3>1 DEF R!rvars
    <2> QED
      BY <2>2, <2>3
  <1>8. ASSUME NEW v \in Versions,
               \/ Claim(v) \/ CallSucceeds(v) \/ CallFails(v) \/ CallThrows(v)
               \/ Requeue(v) \/ Finish(v) \/ Crash(v)
        PROVE  R!Take(v) \/ UNCHANGED R!rvars
    <2>1. CASE UNCHANGED <<configVars, serviceVars>>
      BY <1>5, <2>1
    <2>2. CASE (CallSucceeds(v) \/ CallThrows(v)) /\ Serve(v)
      <3>1. publish[v] = "call" /\ UNCHANGED configVars
        BY <2>2 DEF CallSucceeds, CallThrows
      <3>2. ~(v > version)
        BY <1>0, <3>1 DEF SafetyInv, RowsOfVersions
      <3>3. v <= version
        BY <1>0, <3>2 DEF TypeOK, Versions
      <3> QED
        BY <2>2, <3>1, <3>3 DEF Serve, R!Take
    <2> QED
      BY <1>8, <2>1, <2>2
         DEF Claim, CallSucceeds, CallFails, CallThrows, Requeue, Finish, Crash
  <1> QED
    BY <1>2, <1>3, <1>4, <1>5, <1>6, <1>7, <1>8 DEF Next, Work, R!Next

(* The flag app implements the rollout it stands for: 'live' comes back    *)
(* only with the confirmation of the current version, which the service    *)
(* took, whatever is superseded, retried, thrown or crashed on the way.    *)
THEOREM ImplementsRollout == Spec => RolloutSpec
  BY RolloutInit, RolloutStep, InvHolds, PTL DEF Spec, RolloutSpec, R!Spec
=============================================================================
