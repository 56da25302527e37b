------------------------------ MODULE Console ------------------------------
(***************************************************************************)
(* A person at the generated console: they open one record, ask to see     *)
(* some of its masked fields, and press the buttons the page offers them,  *)
(* while other people change the record under the page.                    *)
(*                                                                         *)
(* The page is what detailView() answers; pressing a button is execute()   *)
(* or decide().  Each await on the audit trail is a step of its own, since *)
(* it can fail.  The guards of the transitions are taken to hold, except   *)
(* for the one availableWhen announces: that the person holds the record.  *)
(***************************************************************************)
EXTENDS Catalog, Naturals

CONSTANTS
    Viewers,     \* the people who may be at the console
    Records,     \* the records they may open: [resource, scopeValue]
    Reveals,     \* the sets of fields they may ask to see
    Nothing,     \* no page, no answer
    MaxCalls     \* bound: how many calls they make

ASSUME NothingAssumption == Nothing \notin {"ok", "denied", "invalid"}

(* "System principals ... hold permissions no human has."                  *)
ASSUME ViewersAssumption ==
    \A v \in Viewers :
        /\ v = [kind |-> v.kind, roles |-> v.roles, scopes |-> v.scopes]
        /\ v.kind = "human" => "system_effects" \notin v.roles

VARIABLES
    viewer, record,   \* who is at the console, and the record they opened
    row,              \* its state, whether its assigneeId is the viewer, and
                      \* whose approval request is pending: none, own, other
    pc,               \* where the server is with the viewer's call
    draft,            \* the page it is making
    page,             \* the page the browser shows
    pressed,          \* the call: its action, and whether the page offered it
    answer,           \* how the call ended: ok, denied, invalid
    moved,            \* whether the record changed since the page was made
    trail,            \* the audit rows the viewer's calls wrote
    calls             \* how many calls were made

vars == <<viewer, record, row, pc, draft, page, pressed, answer, moved, trail, calls>>

Table == Transitions[record.resource]

(* A KYC case nobody has claimed is held by nobody.                        *)
MayHold(s) == record.resource = "kyc_case" /\ s \notin {"new", "info_requested"}

Rows ==
    {x \in [state : States(record.resource), holds : BOOLEAN,
            request : IF Table = {} THEN {"none"} ELSE {"none", "own", "other"}] :
        x.holds => MayHold(x.state)}

Init ==
    /\ viewer \in Viewers /\ record \in Records
    /\ row \in Rows
    /\ pc = "idle" /\ draft = Nothing /\ page = Nothing
    /\ pressed = Nothing /\ answer = Nothing
    /\ moved = FALSE /\ trail = {} /\ calls = 0

(* What other people's operations may make of the record meanwhile.        *)
Move ==
    /\ row' \in Rows
    /\ moved' = TRUE
    /\ UNCHANGED <<viewer, record, pc, draft, page, pressed, answer, trail, calls>>

-----------------------------------------------------------------------------
(* The page.                                                               *)

\* Mutants: the page offers what the roles allow, wherever the record is;
\* it does not ask whether the person holds the record.
OfferedByRole ==
    {t \in Table : /\ HasPermission(viewer, record.resource, t.permission)
                   /\ row.state \in t.from
                   /\ t.held => row.holds}
OfferedToAll ==
    {t \in Table : Authorized(viewer, t.permission, record) /\ row.state \in t.from}

(* availableActions                                                        *)
Offered ==
    {t \in Table : /\ Authorized(viewer, t.permission, record)
                   /\ row.state \in t.from
                   /\ t.held => row.holds}

(* project(): the raw fields among those that were asked for.              *)
Revealed(fields) ==
    {f \in fields \intersect SensitiveFields[record.resource] :
        Authorized(viewer, "reveal_pii", record)}

Call(action, offered) ==
    /\ calls < MaxCalls
    /\ calls' = calls + 1
    /\ pressed' = [action |-> action, offered |-> offered]

(* detailView up to its first await on the trail.                          *)
Open(fields) ==
    /\ pc = "idle"
    /\ page' = Nothing /\ answer' = Nothing
    /\ Call("read", FALSE)
    /\ IF Authorized(viewer, "read", record)
       THEN /\ draft' = [shown |-> Revealed(fields), actions |-> Offered,
                         request |-> "none", decidable |-> FALSE]
            /\ pc' = "recording" /\ moved' = FALSE
       ELSE pc' = "denying" /\ UNCHANGED <<draft, moved>>
    /\ UNCHANGED <<viewer, record, row, trail>>

\* Mutant: the page leaves before its reading is on the trail.
RecordNothing ==
    /\ pc = "recording"
    /\ pc' = "answering"
    /\ UNCHANGED <<viewer, record, row, draft, page, pressed, answer, moved, trail, calls>>

(* recordRead: nothing to record when nothing is revealed.                 *)
RecordRead ==
    /\ pc = "recording"
    /\ trail' = IF draft.shown = {} THEN trail
                ELSE trail \union {[kind |-> "read", fields |-> draft.shown]}
    /\ pc' = "answering"
    /\ UNCHANGED <<viewer, record, row, draft, page, pressed, answer, moved, calls>>

(* The pending request is read after the trail was written.                *)
Respond ==
    /\ pc = "answering"
    /\ page' = [draft EXCEPT
                  !.request = row.request,
                  !.decidable = /\ row.request # "none"
                                /\ ~ApprovalRefused(viewer, record.resource, row.request = "own")]
    /\ pc' = "idle"
    /\ draft' = Nothing
    /\ UNCHANGED <<viewer, record, row, pressed, answer, moved, trail, calls>>

-----------------------------------------------------------------------------
(* The buttons.  A stale page, or a form sent without one, names any       *)
(* action of the resource; the page only says what was offered.            *)

Answer(result) == answer' = result /\ pc' = "idle"

(* The row after a transition, and what is pending then.                   *)
Take(t, pending) ==
    row' = [state |-> t.to,
            holds |-> t.action = "claim" \/ (row.holds /\ MayHold(t.to)),
            request |-> pending]

Press(t) ==
    /\ pc = "idle" /\ page # Nothing
    /\ t \in Table
    /\ Call(t.action, t \in page.actions)
    /\ UNCHANGED <<viewer, record, draft, page, trail>>

(* execute(): authorize, then the state check and the guard on the row;    *)
(* "ok" stands for every answer that is neither denied nor invalid.        *)
PressRefused(t) ==
    /\ Press(t)
    /\ ~Authorized(viewer, t.permission, record)
    /\ pc' = "denying" /\ answer' = Nothing
    /\ UNCHANGED <<row, moved>>

PressInvalid(t) ==
    /\ Press(t)
    /\ Authorized(viewer, t.permission, record)
    /\ row.state \in t.from => t.held /\ ~row.holds
    /\ Answer("invalid")
    /\ UNCHANGED <<row, moved>>

PressTaken(t) ==
    /\ Press(t)
    /\ Authorized(viewer, t.permission, record)
    /\ row.state \in t.from /\ (t.held => row.holds)
    /\ \/ Take(t, row.request)
       \/ t.parks /\ row' = [row EXCEPT !.request = IF @ = "none" THEN "own" ELSE @]
    /\ Answer("ok") /\ moved' = TRUE

PressDecide ==
    /\ pc = "idle" /\ page # Nothing
    /\ page.request # "none"
    /\ Call("decide", page.decidable)
    /\ UNCHANGED <<viewer, record, draft, page, trail>>

(* decide() on the request the page shows: still pending, then eligible.   *)
DecideLate ==
    /\ PressDecide
    /\ row.request # page.request
    /\ Answer("invalid")
    /\ UNCHANGED <<row, moved>>

DecideRefused ==
    /\ PressDecide
    /\ row.request = page.request
    /\ ~MayDecide(viewer, record, row.request = "own")
    /\ pc' = "denying" /\ answer' = Nothing
    /\ UNCHANGED <<row, moved>>

DecideTaken ==
    /\ PressDecide
    /\ row.request = page.request
    /\ MayDecide(viewer, record, row.request = "own")
    /\ \/ row' = [row EXCEPT !.request = "none"]
       \/ \E t \in Table : t.parks /\ row.state \in t.from /\ Take(t, "none")
    /\ Answer("ok") /\ moved' = TRUE

(* recordDenial, and only then the answer.                                 *)
RecordDenial ==
    /\ pc = "denying"
    /\ trail' = trail \union {[kind |-> "auth_denied", action |-> pressed.action]}
    /\ Answer("denied")
    /\ UNCHANGED <<viewer, record, row, draft, page, pressed, moved, calls>>

(* The trail cannot be written: the call throws.                           *)
TrailFails ==
    /\ pc \in {"recording", "denying"}
    /\ pc' = "idle" /\ page' = Nothing
    /\ UNCHANGED <<viewer, record, row, draft, pressed, answer, moved, trail, calls>>

Next ==
    \/ Move
    \/ \E fields \in Reveals : Open(fields)
    \/ \E t \in Table : PressRefused(t) \/ PressInvalid(t) \/ PressTaken(t)
    \/ DecideLate \/ DecideRefused \/ DecideTaken
    \/ RecordRead \/ Respond \/ RecordDenial \/ TrailFails

Spec == Init /\ [][Next]_vars

-----------------------------------------------------------------------------
(* Properties.                                                             *)

(* The scope predicate of the list and authorize() on the one record are   *)
(* two programs that agree: a record is listed to whom it opens for.       *)
ListMatchesDetail == Listed(viewer, record) <=> Authorized(viewer, "read", record)

(* Roles add up one by one: nobody may do with several roles what none of  *)
(* them allows, so a role that reads everywhere does not lift the scope of *)
(* a role that writes.                                                     *)
RolesDoNotMix ==
    \A action \in {t.permission : t \in Table} \union {"read", "approve", "reveal_pii"} :
        Authorized(viewer, action, record)
            => \E r \in viewer.roles : Authorized([viewer EXCEPT !.roles = {r}], action, record)

(* The trail comes first: no raw value is on a page, and no refusal is     *)
(* shown, that the trail does not have already, even when it failed once.  *)
TrailFirst ==
    /\ page # Nothing /\ page.shown # {} =>
          [kind |-> "read", fields |-> page.shown] \in trail
    /\ answer = "denied" => [kind |-> "auth_denied", action |-> pressed.action] \in trail

(* An auditor sees no raw value, whatever other roles they hold.           *)
AuditorsSeeNoPii == page # Nothing /\ "auditor" \in viewer.roles => page.shown = {}

(* A button is never offered to be refused: not for want of authority,     *)
(* however the record moved, and for its state or its holder only if it    *)
(* moved.                                                                  *)
OfferedIsTaken ==
    pressed # Nothing /\ pressed.offered /\ pressed.action # "decide" =>
        /\ answer # "denied"
        /\ answer = "invalid" => moved

(* "the buttons rendered on a record, and decide() itself cannot disagree  *)
(* about who may approve": an offered decision is not denied.              *)
DecidableIsTaken ==
    pressed # Nothing /\ pressed.offered /\ pressed.action = "decide" => answer # "denied"

(* What is true of it: an offered decision is denied to somebody with an   *)
(* eligible role only if approving this record is not theirs, for its      *)
(* scope or a deny rule; never for a request that was theirs all along.    *)
DecidableUnlessOutOfScope ==
    pressed # Nothing /\ pressed.offered /\ pressed.action = "decide" /\ answer = "denied"
        => ~Authorized(viewer, "approve", record)

(* The strengthening the proofs rest on: the page being made, and the page *)
(* shown, offer what may be taken; the page about to leave is on the trail *)
(* already; and a button that was offered is not on its way to a denial.   *)
Sound(p) ==
    /\ \A t \in p.actions :
          /\ Authorized(viewer, t.permission, record)
          /\ ~moved => row.state \in t.from /\ (t.held => row.holds)
    /\ "auditor" \in viewer.roles => p.shown = {}

Recorded(p) == p.shown # {} => [kind |-> "read", fields |-> p.shown] \in trail

Making == pc \in {"recording", "answering"}

PageInv ==
    /\ Making =>
          /\ draft = [shown |-> draft.shown, actions |-> draft.actions,
                      request |-> "none", decidable |-> FALSE]
          /\ Sound(draft)
          /\ page = Nothing /\ answer = Nothing
    /\ pc = "answering" => Recorded(draft)
    /\ page # Nothing => Sound(page) /\ Recorded(page)
    /\ pc = "denying" /\ pressed.offered => pressed.action = "decide"

DecidableInv ==
    /\ page # Nothing /\ page.decidable
           => ~ApprovalRefused(viewer, record.resource, page.request = "own")
    /\ pc = "denying" /\ pressed.offered => ~Authorized(viewer, "approve", record)
    /\ DecidableUnlessOutOfScope

PressInv == PageInv /\ TrailFirst /\ OfferedIsTaken /\ moved \in BOOLEAN

ConsoleInv == PressInv /\ DecidableInv
=============================================================================
