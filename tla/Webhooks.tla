------------------------------ MODULE Webhooks ------------------------------
(***************************************************************************)
(* receiveWebhook() on top of the keyed execute(): the event is looked up  *)
(* in processor_events, applied as a settlement of the refund under a key  *)
(* of its own, and entered in processor_events with its disposition.  The  *)
(* processor delivers at least once, so deliveries of one event overlap,   *)
(* fail and come again, beside the other callers of execute().             *)
(***************************************************************************)
EXTENDS Idempotency

CONSTANTS
    Events,     \* externalIds of events about the refund; webhook:<id> is
                \* their key, so they are intents
    Strays,     \* externalIds of events about a refund that is not there
    NoEvent     \* a call that is not a delivery

Final == {s \in States : \A k \in Intents \ Creations : s \notin From[k]}
Closing == {k \in Intents \ Creations : To[k] \in Final}

(* settle and fail start from every state a submitted refund goes through  *)
(* and end it; they have no guard and no external call of their own.       *)
ASSUME EventsAssumption ==
    /\ Events \subseteq Closing \ (Guarded \union Effectful)
    /\ Events \intersect Strays = {}
    /\ NoEvent \notin Events \union Strays
    /\ Initial \notin Final
    /\ \A e \in Events : \A k \in Intents \ Creations :
          From[k] \intersect From[e] # {} => To[k] \in From[e] \union Final

VARIABLES
    book,       \* processor_events.disposition per event, "none" before
    delivery    \* per call: the event it delivers

bookVars == <<book, delivery>>
vars == <<keyVars, bookVars>>

Init ==
    /\ KeyInit
    /\ book = [e \in Events \union Strays |-> "none"]
    /\ delivery = [c \in Calls |-> NoEvent]

(* The other callers: form resubmits, the settlement of an effect.         *)
Ask(c, k) ==
    /\ pc[c] = "idle"
    /\ Enter(c, k)
    /\ UNCHANGED bookVars

(* An event tells of a call the processor has had, that is, of a refund    *)
(* that was submitted.                                                     *)
Sent(e) == e \in Events => state \in From[e] \union Final

(* if (existing) return 'duplicate': nothing changes.  Otherwise the refund *)
(* is there and execute() starts, or it is not.                            *)
Receive(c, e) ==
    /\ pc[c] = "idle"
    /\ Sent(e)
    /\ book[e] = "none"
    /\ delivery' = [delivery EXCEPT ![c] = e]
    /\ IF e \in Events
       THEN Enter(c, e)
       ELSE Goto(c, "answered")
            /\ UNCHANGED <<state, done, records, intent, answer, historyVars>>
    /\ UNCHANGED book

Leave(c) ==
    /\ Goto(c, "idle")
    /\ intent' = [intent EXCEPT ![c] = AnyIntent]
    /\ Answer(c, "none")
    /\ delivery' = [delivery EXCEPT ![c] = NoEvent]
    /\ UNCHANGED <<state, done, records, disturbed>>

\* Mutant: an event about a refund that is not there is dropped.
ToBookIfKnown(c) == delivery[c] \in Events /\ answer[c] # "error"

(* A delivery goes on to the book unless execute() threw.                  *)
ToBook(c) == delivery[c] # NoEvent /\ answer[c] # "error"

(* A caller of execute() has its answer, or receiveWebhook throws.         *)
Return(c) ==
    /\ pc[c] = "answered"
    /\ ~ToBook(c)
    /\ Leave(c)
    /\ UNCHANGED <<failures, book>>

\* Mutant: whatever execute() answered, the event is taken for applied.
AlwaysApplied(c) == IF delivery[c] \in Strays THEN "unmatched" ELSE "applied"

(* 'applied' if the result is ok, 'out_of_order_converged' if it is not.   *)
Disposition(c) ==
    IF delivery[c] \in Strays THEN "unmatched"
    ELSE IF answer[c] = "ok" THEN "applied" ELSE "converged"

(* processorEvent.create; a second insert throws, and the answer is lost.  *)
Book(c) ==
    /\ pc[c] = "answered"
    /\ ToBook(c)
    /\ book' = IF book[delivery[c]] = "none"
               THEN [book EXCEPT ![delivery[c]] = Disposition(c)] ELSE book
    /\ Leave(c)
    /\ UNCHANGED failures

(* A failure after execute() has returned.                                 *)
Drop(c) ==
    /\ pc[c] = "answered"
    /\ ToBook(c)
    /\ failures < MaxFailures
    /\ failures' = failures + 1
    /\ Leave(c)
    /\ UNCHANGED book

Step(c) ==
    \/ KeyStep(c) /\ UNCHANGED bookVars
    \/ Return(c) \/ Book(c)

Next ==
    \/ \E c \in Calls, k \in Intents \ Events : Ask(c, k)
    \/ \E c \in Calls, e \in Events \union Strays : Receive(c, e)
    \/ \E c \in Calls : Step(c) \/ Drop(c)
    \/ \E c \in Calls : Fail(c) /\ UNCHANGED bookVars

Spec == Init /\ [][Next]_vars

(* "Delivery is at-least-once": the processor delivers until the event was *)
(* taken.  Strong fairness, because Calls bounds what the server does not: *)
(* a delivery finds the model's calls busy now and then.                   *)
FairSpec ==
    /\ Spec
    /\ \A c \in Calls : WF_vars(Step(c))
    /\ \A e \in Events \union Strays : SF_vars(\E c \in Calls : Receive(c, e))

-----------------------------------------------------------------------------
(* Properties.                                                             *)

TypeOK ==
    /\ KeyTypeOK
    /\ pc \in [Calls -> {"idle", "lookup", "commit", "effect", "record", "answered"}]
    /\ answer \in [Calls -> {"none", "ok", "unknown", "invalid", "error"}]
    /\ book \in [Events \union Strays -> {"none", "applied", "converged", "unmatched"}]
    /\ delivery \in [Calls -> Events \union Strays \union {NoEvent}]

(* "applied once": redelivered one after the other, failing before their   *)
(* commit or after their record, the deliveries of an event agree: the one *)
(* that settled the refund is in the book as applied, and its key answers  *)
(* with a success.                                                         *)
BookedAsDone ==
    \A k \in Intents \ disturbed : done[k] > 0 =>
        /\ records[k] # "invalid"
        /\ k \in Events => book[k] # "converged"

(* "recorded once", "kept, not dropped": every event that was sent is      *)
(* entered in the book, whatever failed on the way.                        *)
EventRecorded == \A e \in Events \union Strays : Sent(e) ~> book[e] # "none"

(* Strengthening.                                                          *)
Verdict == {k \in Closing : done[k] > 0}

VerdictOnce ==
    /\ state \in Final <=> Verdict # {}
    /\ \A k, l \in Verdict : k = l

(* What refuses an event's key is the verdict; and if nothing disturbed    *)
(* the key, it is another's.                                               *)
Refused(e) == state \in Final /\ (e \in disturbed \/ done[e] = 0)

Delivers(c) ==
    /\ pc[c] = "idle" => delivery[c] = NoEvent /\ answer[c] = "none"
    /\ delivery[c] = NoEvent /\ pc[c] # "idle" => intent[c] \notin Events
    /\ delivery[c] \in Strays => pc[c] = "answered"
    /\ delivery[c] \in Events =>
          /\ intent[c] = delivery[c] /\ Sent(delivery[c]) /\ pc[c] # "effect"
          /\ answer[c] # "unknown"
          /\ answer[c] = "invalid" => Refused(delivery[c])
          /\ pc[c] = "answered" => answer[c] # "none"

Delivering == \A c \in Calls : Delivers(c)

RefusalTrue ==
    \A e \in Events :
        /\ records[e] # "unknown"
        /\ records[e] = "invalid" \/ book[e] = "converged" => Refused(e)

Inv == TypeOK /\ KeyInv /\ VerdictOnce /\ Delivering /\ RefusalTrue

I == INSTANCE Inbox WITH verdict <- Verdict

(* Webhooks implements the inbox.                                          *)
InboxSpec == I!Spec
=============================================================================
