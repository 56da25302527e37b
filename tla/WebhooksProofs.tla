--------------------------- MODULE WebhooksProofs ---------------------------
(***************************************************************************)
(* Proofs about Webhooks, and about the keyed calls it rests on, for every *)
(* set of calls, intents and events and every machine whose actions move   *)
(* on or stay where they are.                                              *)
(***************************************************************************)
EXTENDS Webhooks, TLAPS

LEMMA TypeInit == Init => TypeOK
  <1>1. AnyIntent \in Intents
    BY IntentsAssumption DEF AnyIntent
  <1> QED
    BY <1>1, MachineAssumption DEF Init, KeyInit, TypeOK, KeyTypeOK

LEMMA EnterType ==
    ASSUME TypeOK, NEW c \in Calls, NEW k \in Intents, Enter(c, k)
    PROVE  /\ KeyTypeOK' /\ answer' = answer
           /\ pc' \in [Calls -> {"idle", "lookup", "commit", "effect", "record", "answered"}]
  BY DEF Enter, Goto, TypeOK, KeyTypeOK

LEMMA LeaveType ==
    ASSUME TypeOK, NEW c \in Calls, Leave(c), failures' \in Nat,
           book' \in [Events \union Strays -> {"none", "applied", "converged", "unmatched"}]
    PROVE  TypeOK'
  <1>1. AnyIntent \in Intents
    BY IntentsAssumption DEF AnyIntent
  <1> QED
    BY <1>1 DEF Leave, Goto, Answer, TypeOK, KeyTypeOK

LEMMA TypeStep == TypeOK /\ [Next]_vars => TypeOK'
  <1> SUFFICES ASSUME TypeOK, [Next]_vars PROVE TypeOK'
    OBVIOUS
  <1> USE DEF callVars, historyVars, bookVars
  <1>0. Events \subseteq Intents
    BY EventsAssumption DEF Closing
  <1>1. ASSUME NEW c \in Calls, NEW k \in Intents \ Events, Ask(c, k) PROVE TypeOK'
    BY <1>1, EnterType DEF Ask, TypeOK
  <1>2. ASSUME NEW c \in Calls, NEW e \in Events \union Strays, Receive(c, e) PROVE TypeOK'
    <2>1. delivery' \in [Calls -> Events \union Strays \union {NoEvent}] /\ book' = book
      BY <1>2 DEF Receive, TypeOK
    <2>2. CASE e \in Events
      BY <1>0, <1>2, <2>1, <2>2, EnterType DEF Receive, TypeOK
    <2>3. CASE e \notin Events
      BY <1>2, <2>1, <2>3 DEF Receive, Goto, TypeOK, KeyTypeOK
    <2> QED
      BY <2>2, <2>3
  <1>3. ASSUME NEW c \in Calls, KeyStep(c), UNCHANGED bookVars PROVE TypeOK'
    <2>1. intent[c] \in Intents
      BY DEF TypeOK, KeyTypeOK
    <2>2. CASE Lookup(c)
      BY <2>1, <2>2, <1>3 DEF Lookup, Goto, Answer, TypeOK, KeyTypeOK
    <2>3. CASE Commit(c)
      <3>1. state' \in States
        BY <2>1, <2>3, MachineAssumption DEF Commit, TypeOK, KeyTypeOK
      <3>2. AfterCommit(intent[c]) \in {"effect", "record"}
        BY DEF AfterCommit
      <3> QED
        BY <1>3, <2>1, <2>3, <3>1, <3>2 DEF Commit, Goto, Answer, TypeOK, KeyTypeOK
    <2>4. CASE Invalid(c) \/ Refuse(c) \/ RunEffect(c)
      BY <1>3, <2>4 DEF Invalid, Refuse, RunEffect, Goto, Answer, TypeOK, KeyTypeOK
    <2>5. CASE Record(c)
      BY <1>3, <2>1, <2>5 DEF Record, Goto, Answer, TypeOK, KeyTypeOK
    <2> QED
      BY <1>3, <2>2, <2>3, <2>4, <2>5 DEF KeyStep
  <1>4. ASSUME NEW c \in Calls, Return(c) \/ Drop(c) PROVE TypeOK'
    BY <1>4, LeaveType DEF Return, Drop, TypeOK, KeyTypeOK
  <1>5. ASSUME NEW c \in Calls, Book(c) PROVE TypeOK'
    <2>1. Disposition(c) \in {"applied", "converged", "unmatched"}
      BY DEF Disposition
    <2>2. book' \in [Events \union Strays -> {"none", "applied", "converged", "unmatched"}]
      BY <1>5, <2>1 DEF Book, ToBook, TypeOK
    <2> QED
      BY <1>5, <2>2, LeaveType DEF Book, TypeOK, KeyTypeOK
  <1>6. ASSUME NEW c \in Calls, Fail(c), UNCHANGED bookVars PROVE TypeOK'
    BY <1>6 DEF Fail, Goto, Answer, TypeOK, KeyTypeOK
  <1>7. CASE UNCHANGED vars
    BY <1>7 DEF vars, keyVars, TypeOK, KeyTypeOK
  <1> QED
    BY <1>1, <1>2, <1>3, <1>4, <1>5, <1>6, <1>7 DEF Next, Step

-----------------------------------------------------------------------------
(* The keyed calls.                                                        *)

Keyed == OncePerKey /\ MovedOn /\ AnswersTrue /\ Alone /\ RecordedDone

LEMMA KeyedInit == Init => Keyed
  BY DEF Init, KeyInit, Keyed, OncePerKey, MovedOn, AnswersTrue, Alone, RecordedDone, InFlight,
         Succeeded

(* A call that is out of flight after the step: it was answered, refused,  *)
(* has failed, or has gone.                                                *)
LEMMA KeyedOut ==
    ASSUME Keyed, NEW c \in Calls,
           pc'[c] \in {"answered", "idle"},
           \A d \in Calls \ {c} :
              pc'[d] = pc[d] /\ intent'[d] = intent[d] /\ answer'[d] = answer[d],
           UNCHANGED <<state, done, records>>,
           disturbed \subseteq disturbed',
           pc[c] \in {"effect", "record"} => intent[c] \in disturbed',
           pc'[c] = "answered" /\ answer'[c] \in Succeeded => done[intent'[c]] > 0
    PROVE  Keyed'
  <1>1. OncePerKey' /\ MovedOn'
    BY DEF Keyed, OncePerKey, MovedOn
  <1>2. AnswersTrue'
    BY DEF Keyed, AnswersTrue, Succeeded
  <1>3. Alone'
    BY DEF Keyed, Alone, InFlight
  <1>4. RecordedDone'
    BY DEF Keyed, RecordedDone
  <1> QED
    BY <1>1, <1>2, <1>3, <1>4 DEF Keyed

(* A second call of an intent in flight disturbs it.                       *)
LEMMA KeyedEnter ==
    ASSUME TypeOK, Keyed, NEW c \in Calls, NEW k \in Intents, pc[c] = "idle", Enter(c, k)
    PROVE  Keyed'
  <1>1. /\ pc'[c] = "lookup" /\ intent'[c] = k
        /\ \A d \in Calls \ {c} : pc'[d] = pc[d] /\ intent'[d] = intent[d]
        /\ UNCHANGED <<state, done, records, answer>>
        /\ disturbed \subseteq disturbed'
        /\ \A d \in Calls \ {c} : InFlight(d) /\ intent[d] = k => k \in disturbed'
    BY DEF Enter, Goto, TypeOK, KeyTypeOK
  <1>2. OncePerKey' /\ MovedOn' /\ AnswersTrue'
    BY <1>1 DEF Keyed, OncePerKey, MovedOn, AnswersTrue
  <1>3. Alone'
    BY <1>1 DEF Keyed, Alone, InFlight
  <1>4. RecordedDone'
    BY <1>1 DEF Keyed, RecordedDone
  <1> QED
    BY <1>2, <1>3, <1>4 DEF Keyed

(* A call in flight goes on without touching the record or the store: from *)
(* the lookup to the transaction, from it or from the effect to the store. *)
LEMMA KeyedOn ==
    ASSUME TypeOK, Keyed, NEW c \in Calls, InFlight(c),
           \/ /\ pc[c] = "lookup" /\ pc'[c] = "commit" /\ records[intent[c]] = "none"
              /\ answer' = answer
           \/ pc[c] = "commit" /\ pc'[c] = "record" /\ answer'[c] = "invalid"
           \/ pc[c] = "effect" /\ pc'[c] = "record" /\ answer'[c] \in Succeeded,
           \A d \in Calls \ {c} : pc'[d] = pc[d] /\ answer'[d] = answer[d],
           UNCHANGED <<state, done, records, intent, disturbed>>
    PROVE  Keyed'
  <1>1. OncePerKey' /\ MovedOn'
    BY DEF Keyed, OncePerKey, MovedOn
  <1>2. AnswersTrue'
    BY DEF Keyed, AnswersTrue, Succeeded
  <1>3. ASSUME intent[c] \notin disturbed, pc[c] = "lookup", pc'[c] = "commit",
               records[intent[c]] = "none"
        PROVE  done[intent[c]] = 0
    <2>1. intent[c] \in Intents /\ done[intent[c]] \in Nat
      BY DEF TypeOK, KeyTypeOK
    <2>2. ~(done[intent[c]] > 0)
      BY <1>3, <2>1 DEF Keyed, RecordedDone, Alone, InFlight, Succeeded
    <2> QED
      BY <2>1, <2>2
  <1>4. Alone'
    BY <1>3 DEF Keyed, Alone, InFlight, Succeeded
  <1>5. RecordedDone'
    BY DEF Keyed, RecordedDone
  <1> QED
    BY <1>1, <1>2, <1>4, <1>5 DEF Keyed

LEMMA KeyedCommit ==
    ASSUME TypeOK, Keyed, NEW c \in Calls, Commit(c)
    PROVE  Keyed'
  <1> DEFINE k == intent[c]
  <1>1. /\ k \in Intents /\ pc[c] = "commit" /\ pc'[c] \in {"effect", "record"}
        /\ answer'[c] = "ok" /\ done[k] \in Nat /\ done'[k] = done[k] + 1
        /\ \A d \in Calls \ {c} : pc'[d] = pc[d] /\ answer'[d] = answer[d]
        /\ \A l \in Intents \ {k} : done'[l] = done[l]
        /\ state' = IF k \in Creations THEN state ELSE To[k]
        /\ UNCHANGED <<records, intent, disturbed>>
    BY DEF Commit, Goto, Answer, AfterCommit, historyVars, TypeOK, KeyTypeOK
  <1>2. /\ state \in States /\ Rank[state] \in Nat
        /\ \A l \in Intents : To[l] \in States /\ Rank[To[l]] \in Nat
    BY MachineAssumption DEF TypeOK, KeyTypeOK
  <1>3. k \notin Repeatable => k \notin Creations /\ Rank[state] < Rank[To[k]] /\ done[k] = 0
    <2>1. k \notin Repeatable => k \notin Creations /\ Rank[state] < Rank[To[k]]
      BY <1>1, MachineAssumption DEF Commit, Applies, Repeatable
    <2> QED
      BY <1>1, <1>2, <2>1 DEF Keyed, MovedOn
  <1>4. k \in Repeatable => state' = state
    BY <1>1, MachineAssumption DEF Commit, Applies
  <1>5. OncePerKey'
    <2>1. k \in Repeatable \ disturbed => done[k] = 0
      BY <1>1 DEF Keyed, Alone, InFlight
    <2> QED
      BY <1>1, <1>3, <2>1 DEF Keyed, OncePerKey
  <1>6. MovedOn'
    BY <1>1, <1>2, <1>3, <1>4 DEF Keyed, MovedOn
  <1>7. AnswersTrue'
    BY <1>1 DEF Keyed, AnswersTrue, TypeOK, KeyTypeOK
  <1>8. Alone'
    <2>1. \A d \in Calls : intent[d] \in Intents
      BY DEF TypeOK, KeyTypeOK
    <2>2. InFlight(c)
      BY <1>1 DEF InFlight
    <2>3. \A d \in Calls : InFlight(d)' => InFlight(d)
      BY <1>1, <2>2 DEF InFlight
    <2>4. \A d \in Calls \ {c} : InFlight(d) /\ intent[d] \notin disturbed => intent[d] # k
      BY <2>2 DEF Keyed, Alone
    <2> QED
      BY <1>1, <2>1, <2>2, <2>3, <2>4 DEF Keyed, Alone
  <1>9. RecordedDone'
    BY <1>1 DEF Keyed, RecordedDone
  <1> QED
    BY <1>5, <1>6, <1>7, <1>8, <1>9 DEF Keyed

LEMMA KeyedRecord ==
    ASSUME TypeOK, Keyed, NEW c \in Calls, Record(c)
    PROVE  Keyed'
  <1> DEFINE k == intent[c]
  <1>1. /\ k \in Intents /\ pc[c] = "record" /\ pc'[c] = "answered"
        /\ answer[c] \in Succeeded \union {"invalid"}
        /\ \A d \in Calls \ {c} : pc'[d] = pc[d] /\ answer'[d] = answer[d]
        /\ UNCHANGED <<state, done, intent, disturbed>>
    BY DEF Record, Goto, Answer, Succeeded, historyVars, TypeOK, KeyTypeOK
  <1>2. CASE records[k] = "none"
    <2>1. /\ answer' = answer /\ records'[k] = answer[c]
          /\ \A l \in Intents \ {k} : records'[l] = records[l]
      BY <1>1, <1>2 DEF Record, TypeOK, KeyTypeOK
    <2>2. OncePerKey' /\ MovedOn'
      BY <1>1 DEF Keyed, OncePerKey, MovedOn
    <2>3. AnswersTrue'
      BY <1>1, <2>1 DEF Keyed, AnswersTrue, Succeeded, TypeOK, KeyTypeOK
    <2>4. Alone'
      BY <1>1, <2>1 DEF Keyed, Alone, InFlight, TypeOK, KeyTypeOK
    <2>5. RecordedDone'
      <3>1. k \notin disturbed /\ done[k] > 0 => answer[c] \in Succeeded
        BY <1>1 DEF Keyed, Alone, InFlight
      <3> QED
        BY <1>1, <2>1, <3>1 DEF Keyed, RecordedDone
    <2> QED
      BY <2>2, <2>3, <2>4, <2>5 DEF Keyed
  <1>3. CASE records[k] # "none"
    <2>1. k \in disturbed
      BY <1>1, <1>3 DEF Keyed, Alone, InFlight
    <2>2. UNCHANGED records /\ answer'[c] \notin Succeeded
      BY <1>1, <1>3 DEF Record, Answer, Succeeded, TypeOK
    <2> QED
      BY <1>1, <2>1, <2>2, KeyedOut
  <1> QED
    BY <1>2, <1>3

LEMMA LeaveOut ==
    ASSUME TypeOK, Keyed, NEW c \in Calls, pc[c] = "answered", Leave(c)
    PROVE  Keyed'
  <1>1. /\ pc'[c] = "idle"
        /\ \A d \in Calls \ {c} :
              pc'[d] = pc[d] /\ intent'[d] = intent[d] /\ answer'[d] = answer[d]
    BY DEF Leave, Goto, Answer, TypeOK, KeyTypeOK
  <1> QED
    BY <1>1, KeyedOut DEF Leave

LEMMA KeyedStep == TypeOK /\ Keyed /\ Delivering /\ [Next]_vars => Keyed'
  <1> SUFFICES ASSUME TypeOK, Keyed, Delivering, [Next]_vars PROVE Keyed'
    OBVIOUS
  <1> USE DEF callVars, historyVars
  <1>0. Events \subseteq Intents
    BY EventsAssumption DEF Closing
  <1>1. ASSUME NEW c \in Calls, NEW k \in Intents \ Events, Ask(c, k) PROVE Keyed'
    BY <1>1, KeyedEnter DEF Ask
  <1>2. ASSUME NEW c \in Calls, NEW e \in Events \union Strays, Receive(c, e) PROVE Keyed'
    <2>1. CASE e \in Events
      BY <1>0, <1>2, <2>1, KeyedEnter DEF Receive
    <2>2. CASE e \notin Events
      <3>1. /\ pc[c] = "idle" /\ pc'[c] = "answered" /\ answer[c] = "none"
            /\ \A d \in Calls \ {c} : pc'[d] = pc[d]
            /\ UNCHANGED <<state, done, records, intent, answer, disturbed>>
        BY <1>2, <2>2 DEF Receive, Goto, TypeOK, Delivering, Delivers
      <3> QED
        BY <3>1, KeyedOut DEF Succeeded
    <2> QED
      BY <2>1, <2>2
  <1>3. ASSUME NEW c \in Calls, KeyStep(c) PROVE Keyed'
    <2>1. CASE Lookup(c)
      <3>1. /\ pc[c] = "lookup" /\ intent[c] \in Intents
            /\ \A d \in Calls \ {c} : pc'[d] = pc[d] /\ answer'[d] = answer[d]
            /\ UNCHANGED <<state, done, records, intent, disturbed>>
        BY <2>1 DEF Lookup, Goto, Answer, TypeOK, KeyTypeOK
      <3>2. CASE records[intent[c]] = "none"
        <4>1. pc'[c] = "commit" /\ answer' = answer
          BY <2>1, <3>2 DEF Lookup, Goto, TypeOK
        <4> QED
          BY <3>1, <3>2, <4>1, KeyedOn DEF InFlight
      <3>3. CASE records[intent[c]] # "none"
        <4>1. pc'[c] = "answered" /\ answer'[c] = records[intent[c]]
          BY <2>1, <3>3 DEF Lookup, Goto, Answer, TypeOK
        <4>2. records[intent[c]] \in Succeeded => done[intent[c]] > 0
          BY <3>1 DEF Keyed, AnswersTrue
        <4> QED
          BY <3>1, <4>1, <4>2, KeyedOut
      <3> QED
        BY <3>2, <3>3
    <2>2. CASE Commit(c)
      BY <2>2, KeyedCommit
    <2>3. CASE Invalid(c) \/ RunEffect(c)
      <3>1. /\ \/ pc[c] = "commit" /\ pc'[c] = "record" /\ answer'[c] = "invalid"
               \/ pc[c] = "effect" /\ pc'[c] = "record" /\ answer'[c] \in Succeeded
            /\ \A d \in Calls \ {c} : pc'[d] = pc[d] /\ answer'[d] = answer[d]
            /\ UNCHANGED <<state, done, records, intent, disturbed>>
        BY <2>3 DEF Invalid, RunEffect, Goto, Answer, Succeeded, TypeOK
      <3> QED
        BY <3>1, KeyedOn DEF InFlight
    <2>4. CASE Refuse(c)
      <3>1. /\ pc[c] = "commit" /\ pc'[c] = "answered" /\ answer'[c] = "invalid"
            /\ \A d \in Calls \ {c} : pc'[d] = pc[d] /\ answer'[d] = answer[d]
            /\ UNCHANGED <<state, done, records, intent, disturbed>>
        BY <2>4 DEF Refuse, Goto, Answer, TypeOK
      <3> QED
        BY <3>1, KeyedOut DEF Succeeded
    <2>5. CASE Record(c)
      BY <2>5, KeyedRecord
    <2> QED
      BY <1>3, <2>1, <2>2, <2>3, <2>4, <2>5 DEF KeyStep
  <1>4. ASSUME NEW c \in Calls, Return(c) \/ Book(c) \/ Drop(c) PROVE Keyed'
    BY <1>4, LeaveOut DEF Return, Book, Drop
  <1>5. ASSUME NEW c \in Calls, Fail(c) PROVE Keyed'
    <2>1. /\ InFlight(c) /\ pc'[c] = "answered" /\ answer'[c] = "error"
          /\ \A d \in Calls \ {c} : pc'[d] = pc[d] /\ answer'[d] = answer[d]
          /\ UNCHANGED <<state, done, records, intent>>
          /\ disturbed \subseteq disturbed'
          /\ pc[c] \in {"effect", "record"} => intent[c] \in disturbed'
      BY <1>5 DEF Fail, Goto, Answer, TypeOK
    <2> QED
      BY <2>1, KeyedOut DEF Succeeded
  <1>6. CASE UNCHANGED vars
    BY <1>6 DEF vars, keyVars, Keyed, OncePerKey, MovedOn, AnswersTrue, Alone, RecordedDone, InFlight
  <1> QED
    BY <1>1, <1>2, <1>3, <1>4, <1>5, <1>6 DEF Next, Step

-----------------------------------------------------------------------------
(* The intake of webhooks on top of them.                                  *)

LEMMA IntakeInit == Init => VerdictOnce /\ Delivering /\ RefusalTrue
  BY EventsAssumption
     DEF Init, KeyInit, VerdictOnce, Verdict, Closing, Delivering, Delivers, RefusalTrue

(* The refund leaves no final state, and only a closing intent takes it    *)
(* there.                                                                  *)
LEMMA CommitVerdict ==
    ASSUME TypeOK, VerdictOnce, NEW c \in Calls, Commit(c)
    PROVE  /\ VerdictOnce'
           /\ \A e \in Events : Sent(e) => Sent(e)'
           /\ \A e \in Events : Refused(e) => Refused(e)'
  <1> DEFINE k == intent[c]
  <1>1. /\ k \in Intents /\ done[k] \in Nat /\ done'[k] = done[k] + 1
        /\ \A l \in Intents \ {k} : done'[l] = done[l]
        /\ state' = IF k \in Creations THEN state ELSE To[k]
        /\ k \in Creations \/ state \in From[k]
        /\ UNCHANGED disturbed
    BY DEF Commit, Applies, historyVars, TypeOK, KeyTypeOK
  <1>2. Events \subseteq Closing /\ Closing \subseteq Intents \ Creations
    BY EventsAssumption DEF Closing
  <1>3. CASE k \in Creations
    <2>1. UNCHANGED state /\ \A l \in Closing : done'[l] = done[l]
      BY <1>1, <1>2, <1>3
    <2> QED
      BY <1>1, <1>2, <2>1 DEF VerdictOnce, Verdict, Sent, Refused
  <1>4. CASE k \notin Creations
    <2>1. state \notin Final /\ state' = To[k] /\ To[k] \in States
      BY <1>1, <1>4, MachineAssumption DEF Final
    <2>2. Verdict = {}
      BY <2>1 DEF VerdictOnce
    <2>3. Verdict' = IF k \in Closing THEN {k} ELSE {}
      BY <1>1, <1>2, <2>2 DEF Verdict
    <2>4. k \in Closing <=> state' \in Final
      BY <1>1, <1>4, <2>1 DEF Closing
    <2>5. VerdictOnce'
      BY <2>3, <2>4 DEF VerdictOnce
    <2>6. ASSUME NEW e \in Events, Sent(e) PROVE Sent(e)'
      <3>1. state \in From[e] /\ state \in From[k]
        BY <1>1, <1>4, <2>1, <2>6 DEF Sent
      <3>2. To[k] \in From[e] \union Final
        BY <1>1, <1>4, <3>1, EventsAssumption
      <3> QED
        BY <2>1, <3>2 DEF Sent
    <2> QED
      BY <2>1, <2>5, <2>6 DEF Refused
  <1> QED
    BY <1>3, <1>4

(* What a step of one call has to establish.                               *)
LEMMA IntakeStep ==
    ASSUME Delivering, RefusalTrue, NEW c \in Calls,
           \A d \in Calls \ {c} : /\ pc'[d] = pc[d] /\ intent'[d] = intent[d]
                                  /\ answer'[d] = answer[d] /\ delivery'[d] = delivery[d],
           \A e \in Events : Sent(e) => Sent(e)',
           \A e \in Events : Refused(e) => Refused(e)',
           \A e \in Events :
              /\ records'[e] \in {records[e], "ok"} \/ (records'[e] = "invalid" /\ Refused(e)')
              /\ book'[e] = "converged" => book[e] = "converged" \/ Refused(e)',
           Delivers(c)'
    PROVE  Delivering' /\ RefusalTrue'
  <1>1. \A d \in Calls \ {c} : Delivers(d)'
    BY DEF Delivering, Delivers
  <1>2. RefusalTrue'
    BY DEF RefusalTrue
  <1> QED
    BY <1>1, <1>2 DEF Delivering

(* Steps of a call inside execute() or create().                           *)
LEMMA IntakeKeyStep ==
    ASSUME TypeOK, Keyed, VerdictOnce, Delivering, RefusalTrue,
           NEW c \in Calls, KeyStep(c), UNCHANGED bookVars
    PROVE  VerdictOnce' /\ Delivering' /\ RefusalTrue'
  <1> USE DEF historyVars, bookVars
  <1>0. /\ Events \subseteq Closing \ (Guarded \union Effectful)
        /\ Closing \subseteq Intents \ Creations
        /\ Events \intersect Strays = {} /\ NoEvent \notin Events \union Strays
    BY EventsAssumption DEF Closing
  <1>1. /\ Delivers(c) /\ pc[c] \notin {"idle", "answered"}
        /\ intent[c] \in Intents /\ delivery[c] \in Events \union {NoEvent}
        /\ delivery[c] \in Events <=> intent[c] \in Events
    <2>1. Delivers(c) /\ pc[c] \notin {"idle", "answered"}
      BY DEF Delivering, KeyStep, Lookup, Commit, Invalid, Refuse, RunEffect, Record
    <2>2. intent[c] \in Intents /\ delivery[c] \in Events \union Strays \union {NoEvent}
      BY DEF TypeOK, KeyTypeOK
    <2> QED
      BY <1>0, <2>1, <2>2 DEF Delivers
  <1>2. ASSUME UNCHANGED <<state, done, disturbed>>
        PROVE  /\ VerdictOnce'
               /\ \A e \in Events : Sent(e) => Sent(e)'
               /\ \A e \in Events : Refused(e) => Refused(e)'
    BY <1>2 DEF VerdictOnce, Verdict, Sent, Refused
  <1>3. CASE Lookup(c)
    <2>1. /\ UNCHANGED <<state, done, disturbed, records, intent, delivery, book>>
          /\ \A d \in Calls \ {c} : pc'[d] = pc[d] /\ answer'[d] = answer[d]
      BY <1>3 DEF Lookup, Goto, Answer, TypeOK
    <2>2. CASE records[intent[c]] = "none"
      <3>1. pc'[c] = "commit" /\ answer' = answer
        BY <1>3, <2>2 DEF Lookup, Goto, TypeOK
      <3>2. Delivers(c)'
        BY <1>0, <1>1, <1>2, <2>1, <3>1 DEF Delivers
      <3> QED
        BY <1>2, <2>1, <3>1, <3>2, IntakeStep
    <2>3. CASE records[intent[c]] # "none"
      <3>1. pc'[c] = "answered" /\ answer'[c] = records[intent[c]]
        BY <1>3, <2>3 DEF Lookup, Goto, Answer, TypeOK
      <3>2. Delivers(c)'
        BY <1>0, <1>1, <1>2, <2>1, <2>3, <3>1 DEF Delivers, RefusalTrue
      <3> QED
        BY <1>2, <2>1, <3>1, <3>2, IntakeStep
    <2> QED
      BY <2>2, <2>3
  <1>4. CASE Commit(c)
    <2>1. /\ UNCHANGED <<records, intent, delivery, book>>
          /\ pc'[c] = AfterCommit(intent[c]) /\ answer'[c] = "ok"
          /\ \A d \in Calls \ {c} : pc'[d] = pc[d] /\ answer'[d] = answer[d]
      BY <1>4 DEF Commit, Goto, Answer, TypeOK
    <2>2. Delivers(c)'
      BY <1>0, <1>1, <1>4, <2>1, CommitVerdict DEF Delivers, AfterCommit
    <2> QED
      BY <1>4, <2>1, <2>2, CommitVerdict, IntakeStep
  <1>5. CASE Invalid(c)
    <2>1. /\ UNCHANGED <<state, done, disturbed, records, intent, delivery, book>>
          /\ pc[c] = "commit" /\ pc'[c] = "record" /\ answer'[c] = "invalid"
          /\ \A d \in Calls \ {c} : pc'[d] = pc[d] /\ answer'[d] = answer[d]
      BY <1>5 DEF Invalid, Goto, Answer, TypeOK
    <2>2. ASSUME delivery[c] \in Events PROVE Refused(delivery[c])
      <3>1. state \in Final
        BY <1>0, <1>1, <1>5, <2>2 DEF Invalid, Applies, Delivers, Sent
      <3>2. intent[c] \notin disturbed => done[intent[c]] = 0
        BY <2>1 DEF Keyed, Alone, InFlight
      <3> QED
        BY <1>1, <2>2, <3>1, <3>2 DEF Refused, Delivers
    <2>3. Delivers(c)'
      BY <1>0, <1>1, <1>2, <2>1, <2>2 DEF Delivers
    <2> QED
      BY <1>2, <2>1, <2>3, IntakeStep
  <1>6. CASE Refuse(c) \/ RunEffect(c)
    <2>1. /\ UNCHANGED <<state, done, disturbed, records, intent, delivery, book>>
          /\ pc'[c] \in {"record", "answered"} /\ delivery[c] \notin Events
          /\ \A d \in Calls \ {c} : pc'[d] = pc[d] /\ answer'[d] = answer[d]
      BY <1>0, <1>1, <1>6 DEF Refuse, RunEffect, Goto, Answer, TypeOK, Delivers
    <2>2. Delivers(c)'
      BY <1>0, <1>1, <2>1 DEF Delivers
    <2> QED
      BY <1>2, <2>1, <2>2, IntakeStep
  <1>7. CASE Record(c)
    <2>1. /\ UNCHANGED <<state, done, disturbed, intent, delivery, book>>
          /\ pc[c] = "record" /\ pc'[c] = "answered"
          /\ answer'[c] \in {answer[c], "error"}
          /\ answer[c] \in {"ok", "unknown", "invalid"}
          /\ \A d \in Calls \ {c} : pc'[d] = pc[d] /\ answer'[d] = answer[d]
          /\ \A k \in Intents : records'[k] = records[k] \/ (k = intent[c] /\ records'[k] = answer[c])
      BY <1>1, <1>7 DEF Record, Goto, Answer, TypeOK, KeyTypeOK
    <2>2. Delivers(c)'
      BY <1>0, <1>1, <1>2, <2>1 DEF Delivers
    <2>3. ASSUME NEW e \in Events, records'[e] # records[e]
          PROVE  records'[e] = "ok" \/ (records'[e] = "invalid" /\ Refused(e)')
      BY <1>0, <1>1, <1>2, <2>1, <2>3 DEF Delivers
    <2> QED
      BY <1>2, <2>1, <2>2, <2>3, IntakeStep
  <1> QED
    BY <1>3, <1>4, <1>5, <1>6, <1>7 DEF KeyStep

LEMMA IntakeNext ==
    TypeOK /\ Keyed /\ VerdictOnce /\ Delivering /\ RefusalTrue /\ [Next]_vars
        => VerdictOnce' /\ Delivering' /\ RefusalTrue'
  <1> SUFFICES ASSUME TypeOK, Keyed, VerdictOnce, Delivering, RefusalTrue, [Next]_vars
               PROVE  VerdictOnce' /\ Delivering' /\ RefusalTrue'
    OBVIOUS
  <1> USE DEF callVars, historyVars, bookVars
  <1>0. /\ Events \subseteq Intents
        /\ Events \intersect Strays = {} /\ NoEvent \notin Events \union Strays
    BY EventsAssumption DEF Closing
  <1>1. ASSUME UNCHANGED <<state, done>>, disturbed \subseteq disturbed'
        PROVE  /\ VerdictOnce'
               /\ \A e \in Events : Sent(e) => Sent(e)'
               /\ \A e \in Events : Refused(e) => Refused(e)'
    BY <1>1 DEF VerdictOnce, Verdict, Sent, Refused
  <1>2. ASSUME NEW c \in Calls, NEW k \in Intents \ Events, Ask(c, k)
        PROVE  VerdictOnce' /\ Delivering' /\ RefusalTrue'
    <2>1. /\ UNCHANGED <<state, done, records, answer, delivery, book>>
          /\ disturbed \subseteq disturbed' /\ delivery[c] = NoEvent
          /\ pc'[c] = "lookup" /\ intent'[c] = k
          /\ \A d \in Calls \ {c} : pc'[d] = pc[d] /\ intent'[d] = intent[d]
      BY <1>2 DEF Ask, Enter, Goto, TypeOK, KeyTypeOK, Delivering, Delivers
    <2>2. Delivers(c)'
      BY <1>0, <2>1 DEF Delivers
    <2> QED
      BY <1>1, <2>1, <2>2, IntakeStep
  <1>3. ASSUME NEW c \in Calls, NEW e \in Events \union Strays, Receive(c, e)
        PROVE  VerdictOnce' /\ Delivering' /\ RefusalTrue'
    <2>1. /\ UNCHANGED <<state, done, records, answer, book>>
          /\ disturbed \subseteq disturbed' /\ answer[c] = "none"
          /\ delivery'[c] = e /\ Sent(e)
          /\ IF e \in Events THEN pc'[c] = "lookup" /\ intent'[c] = e
             ELSE pc'[c] = "answered" /\ intent' = intent
          /\ \A d \in Calls \ {c} :
                pc'[d] = pc[d] /\ intent'[d] = intent[d] /\ delivery'[d] = delivery[d]
      BY <1>3 DEF Receive, Enter, Goto, TypeOK, KeyTypeOK, Delivering, Delivers
    <2>2. Delivers(c)'
      BY <1>0, <1>1, <2>1 DEF Delivers
    <2> QED
      BY <1>1, <2>1, <2>2, IntakeStep
  <1>4. ASSUME NEW c \in Calls, Return(c) \/ Book(c) \/ Drop(c)
        PROVE  VerdictOnce' /\ Delivering' /\ RefusalTrue'
    <2>1. /\ UNCHANGED <<state, done, records, disturbed>>
          /\ pc'[c] = "idle" /\ delivery'[c] = NoEvent /\ answer'[c] = "none"
          /\ \A d \in Calls \ {c} : /\ pc'[d] = pc[d] /\ intent'[d] = intent[d]
                                 /\ answer'[d] = answer[d] /\ delivery'[d] = delivery[d]
      BY <1>4 DEF Return, Book, Drop, Leave, Goto, Answer, TypeOK, KeyTypeOK
    <2>2. Delivers(c)'
      BY <1>0, <2>1 DEF Delivers
    <2>3. ASSUME NEW e \in Events, book'[e] = "converged", book[e] # "converged"
          PROVE  Refused(e)'
      <3>1. Book(c) /\ book' # book
        BY <1>4, <2>3 DEF Return, Drop
      <3>2. delivery[c] = e /\ Disposition(c) = "converged" /\ ToBook(c) /\ pc[c] = "answered"
        BY <2>3, <3>1 DEF Book, TypeOK
      <3>3. answer[c] \in {"none", "unknown", "invalid"}
        BY <1>0, <3>2 DEF Disposition, ToBook, TypeOK
      <3> QED
        BY <1>1, <2>1, <3>2, <3>3 DEF Delivering, Delivers
    <2> QED
      BY <1>1, <2>1, <2>2, <2>3, IntakeStep
  <1>5. ASSUME NEW c \in Calls, Fail(c), UNCHANGED bookVars
        PROVE  VerdictOnce' /\ Delivering' /\ RefusalTrue'
    <2>1. /\ UNCHANGED <<state, done, records, intent, delivery, book>>
          /\ disturbed \subseteq disturbed' /\ pc[c] # "idle"
          /\ pc'[c] = "answered" /\ answer'[c] = "error"
          /\ \A d \in Calls \ {c} : pc'[d] = pc[d] /\ answer'[d] = answer[d]
      BY <1>5 DEF Fail, InFlight, Goto, Answer, TypeOK
    <2>2. Delivers(c)'
      BY <1>1, <2>1 DEF Delivering, Delivers
    <2> QED
      BY <1>1, <2>1, <2>2, IntakeStep
  <1>6. CASE UNCHANGED vars
    BY <1>1, <1>6 DEF vars, keyVars, Delivering, Delivers, RefusalTrue
  <1> QED
    BY <1>2, <1>3, <1>4, <1>5, <1>6, IntakeKeyStep DEF Next, Step

-----------------------------------------------------------------------------
(* The theorems.                                                           *)

LEMMA InvInit == Init => Inv
  BY TypeInit, KeyedInit, IntakeInit DEF Inv, KeyInv, Keyed, TypeOK

LEMMA InvStep == Inv /\ [Next]_vars => Inv'
  BY TypeStep, KeyedStep, IntakeNext DEF Inv, KeyInv, Keyed, TypeOK

(* The inductive invariant of keyed calls and of the intake on top.        *)
THEOREM InvHolds == Spec => []Inv
  BY InvInit, InvStep, PTL DEF Spec

(* One key, one execution, however its calls overlap, fail and come again. *)
THEOREM OncePerKeyHolds == Spec => []OncePerKey
  <1>1. Inv => OncePerKey
    BY DEF Inv, KeyInv
  <1> QED
    BY <1>1, InvHolds, PTL

(* What an undisturbed key did is what its record and the book say.        *)
THEOREM BookedHolds == Spec => []BookedAsDone
  <1>1. Inv => BookedAsDone
    <2> SUFFICES ASSUME Inv, NEW k \in Intents \ disturbed, done[k] > 0
                 PROVE  records[k] # "invalid" /\ (k \in Events => book[k] # "converged")
      BY DEF BookedAsDone
    <2>1. records[k] # "invalid"
      BY DEF Inv, KeyInv, RecordedDone, Alone, InFlight, Succeeded
    <2>2. k \in Events => book[k] # "converged"
      BY DEF Inv, RefusalTrue, Refused
    <2> QED
      BY <2>1, <2>2
  <1> QED
    BY <1>1, InvHolds, PTL

-----------------------------------------------------------------------------
(* Webhooks implements Inbox.                                              *)

LEMMA InboxInit == Init => I!Init
  BY DEF Init, KeyInit, I!Init, Verdict, Closing

LEMMA InboxStep == Inv /\ [Next]_vars => [I!Next]_(I!ivars)
  <1> SUFFICES ASSUME Inv, [Next]_vars PROVE I!Next \/ UNCHANGED I!ivars
    OBVIOUS
  <1> USE DEF callVars, historyVars, bookVars
  <1>0. TypeOK /\ VerdictOnce /\ Delivering /\ RefusalTrue /\ AnswersTrue
    BY DEF Inv, KeyInv
  <1>1. ASSUME UNCHANGED <<done, book>> PROVE UNCHANGED I!ivars
    BY <1>1 DEF I!ivars, Verdict
  <1>2. ASSUME NEW c \in Calls, Commit(c), UNCHANGED bookVars
        PROVE  I!Next \/ UNCHANGED I!ivars
    <2> DEFINE k == intent[c]
    <2>1. /\ k \in Intents /\ done[k] \in Nat /\ done'[k] = done[k] + 1
          /\ \A l \in Intents \ {k} : done'[l] = done[l]
          /\ k \in Creations \/ state \in From[k]
      BY <1>0, <1>2 DEF Commit, Applies, TypeOK, KeyTypeOK
    <2>2. CASE k \in Closing
      <3>1. state \notin Final
        BY <2>1, <2>2 DEF Closing, Final
      <3>2. Verdict = {}
        BY <1>0, <3>1 DEF VerdictOnce
      <3>3. Verdict' = {k}
        BY <2>1, <2>2, <3>2 DEF Verdict, Closing
      <3> QED
        BY <1>2, <2>2, <3>2, <3>3 DEF I!Next, I!Decide
    <2>3. CASE k \notin Closing
      <3>1. Verdict' = Verdict
        BY <2>1, <2>3 DEF Verdict, Closing
      <3> QED
        BY <1>2, <3>1 DEF I!ivars
    <2> QED
      BY <2>2, <2>3
  <1>3. ASSUME NEW c \in Calls, Book(c)
        PROVE  I!Next \/ UNCHANGED I!ivars
    <2> DEFINE e == delivery[c]
    <2>1. /\ e \in Events \union Strays /\ Delivers(c) /\ pc[c] = "answered"
          /\ answer[c] # "error" /\ Verdict' = Verdict /\ c \in Calls
      BY <1>0, <1>3 DEF Book, ToBook, Leave, TypeOK, Delivering, Verdict
    <2>2. CASE book[e] # "none"
      BY <1>1, <1>3, <2>2 DEF Book, Leave
    <2>3. CASE book[e] = "none"
      <3>1. I!Enter(e, Disposition(c))
        BY <1>3, <2>1, <2>3 DEF Book, I!Enter
      <3>2. CASE e \in Strays
        BY <2>1, <3>1, <3>2 DEF Disposition, I!Next
      <3>3. CASE e \in Events /\ answer[c] = "ok"
        <4>1. e \notin Strays /\ e \in Closing
          BY <3>3, EventsAssumption
        <4>2. e \in Verdict
          BY <1>0, <2>1, <3>3, <4>1 DEF AnswersTrue, Succeeded, Delivers, Verdict
        <4>3. Verdict = {e}
          BY <1>0, <4>2 DEF VerdictOnce
        <4> QED
          BY <3>1, <3>3, <4>1, <4>3 DEF Disposition, I!Next
      <3>4. CASE e \in Events /\ answer[c] # "ok"
        <4>1. e \notin Strays
          BY <3>4, EventsAssumption
        <4>2. answer[c] = "invalid"
          BY <1>0, <2>1, <3>4 DEF Delivers, TypeOK
        <4>3. Verdict # {}
          BY <1>0, <2>1, <3>4, <4>2 DEF Delivers, Refused, VerdictOnce
        <4> QED
          BY <3>1, <3>4, <4>1, <4>3 DEF Disposition, I!Next
      <3> QED
        BY <2>1, <3>2, <3>3, <3>4
    <2> QED
      BY <2>2, <2>3
  <1>4. ASSUME NEW c \in Calls, NEW k \in Intents, Ask(c, k) PROVE UNCHANGED I!ivars
    BY <1>1, <1>4 DEF Ask, Enter
  <1>5. ASSUME NEW c \in Calls, NEW e \in Events \union Strays, Receive(c, e)
        PROVE  UNCHANGED I!ivars
    BY <1>1, <1>5 DEF Receive, Enter
  <1>6. ASSUME NEW c \in Calls, UNCHANGED bookVars,
               Lookup(c) \/ Invalid(c) \/ Refuse(c) \/ RunEffect(c) \/ Record(c) \/ Fail(c)
        PROVE  UNCHANGED I!ivars
    BY <1>1, <1>6 DEF Lookup, Invalid, Refuse, RunEffect, Record, Fail
  <1>7. ASSUME NEW c \in Calls, Return(c) \/ Drop(c) PROVE UNCHANGED I!ivars
    BY <1>1, <1>7 DEF Return, Drop, Leave
  <1>8. CASE UNCHANGED vars
    BY <1>1, <1>8 DEF vars, keyVars
  <1> QED
    BY <1>2, <1>3, <1>4, <1>5, <1>6, <1>7, <1>8 DEF Next, Step, KeyStep

(* The intake implements its abstract promise: one verdict, and a book     *)
(* that agrees with it, whatever the deliveries' order and failures.       *)
THEOREM ImplementsInbox == Spec => InboxSpec
  BY InvInit, InvStep, InboxInit, InboxStep, PTL DEF Spec, InboxSpec, I!Spec
=============================================================================
