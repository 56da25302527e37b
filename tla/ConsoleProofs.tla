--------------------------- MODULE ConsoleProofs ---------------------------
(***************************************************************************)
(* Proofs about Console, for any people, records and reveals.  That lists  *)
(* and details agree needs no induction: it follows from what the two      *)
(* functions of Policy are, and from no deny rule being about a read.  The *)
(* rest is one induction over the page: what it offers stays authorized    *)
(* (nothing changes a record's scope or a person's roles under it), and    *)
(* stays possible until the record moves.                                  *)
(***************************************************************************)
EXTENDS Console, TLAPS

(* scopeFilter selects exactly the records authorize() allows to read.     *)
LEMMA SelectionIsAuthorization ==
    ASSUME NEW p, NEW rec
    PROVE  Listed(p, rec) <=> Authorized(p, "read", rec)
<1> DEFINE granting == Granting(p, rec.resource, "read")
           granted == p.scopes[Dimension[rec.resource]]
<1>1. ~Denied(p, "read", rec)
  BY DEF Denied
<1>2. Authorized(p, "read", rec) <=>
        granting # {} /\ (Global(granting) \/ GlobalScope \in granted \/ rec.scopeValue \in granted)
  BY <1>1 DEF Authorized, InScope
<1>3. Listed(p, rec) <=>
        /\ granting # {}
        /\ \/ ScopeAccess(p, rec.resource, "read").mode = "global"
           \/ rec.scopeValue \in ScopeAccess(p, rec.resource, "read").values
  BY DEF Listed, HasPermission, Selected
<1>4. ASSUME granting # {}
      PROVE  ScopeAccess(p, rec.resource, "read") =
               IF Global(granting) \/ GlobalScope \in granted
               THEN [mode |-> "global", values |-> {}]
               ELSE IF granted = {} THEN [mode |-> "none", values |-> {}]
               ELSE [mode |-> "scoped", values |-> granted]
  BY <1>4 DEF ScopeAccess
<1> HIDE DEF granting, granted
<1> QED
  BY <1>2, <1>3, <1>4

(* A record is listed exactly to the people it opens for, whoever they are *)
(* and whatever record it is.                                              *)
THEOREM ListMatchesDetailHolds == Spec => []ListMatchesDetail
<1>1. ListMatchesDetail
  BY SelectionIsAuthorization DEF ListMatchesDetail
<1> QED  BY <1>1, PTL

-----------------------------------------------------------------------------

LEMMA ConsoleInit == Init => PressInv
BY NothingAssumption
   DEF Init, PressInv, PageInv, Making, TrailFirst, OfferedIsTaken

(* An auditor's reveal is denied last, after any role that grants it.      *)
LEMMA MadeSound ==
    ASSUME NEW fields
    PROVE  /\ \A t \in Offered : Authorized(viewer, t.permission, record)
                                   /\ row.state \in t.from /\ (t.held => row.holds)
           /\ "auditor" \in viewer.roles => Revealed(fields) = {}
<1>1. "auditor" \in viewer.roles => ~Authorized(viewer, "reveal_pii", record)
  BY DEF Authorized, Denied
<1> QED
  BY <1>1 DEF Offered, Revealed

(* Nothing but the opening of a page forgets that the record has moved,    *)
(* and nothing takes a row from the trail.                                 *)
Keeps ==
    /\ UNCHANGED <<viewer, record>>
    /\ moved => moved'
    /\ ~moved' => row' = row
    /\ trail \subseteq trail'
    /\ moved' \in BOOLEAN

LEMMA SoundStays ==
    ASSUME Keeps, moved \in BOOLEAN
    PROVE  /\ page' = page /\ Sound(page) => Sound(page)'
           /\ draft' = draft /\ Sound(draft) => Sound(draft)'
           /\ page' = page /\ Recorded(page) => Recorded(page)'
           /\ draft' = draft /\ Recorded(draft) => Recorded(draft)'
<1>1. \A t : Authorized(viewer, t.permission, record)' <=> Authorized(viewer, t.permission, record)
  BY DEF Keeps, Authorized, Granting, Global, InScope, Denied
<1>2. page' = page /\ Sound(page) => Sound(page)'
  BY <1>1 DEF Keeps, Sound
<1>3. draft' = draft /\ Sound(draft) => Sound(draft)'
  BY <1>1 DEF Keeps, Sound
<1>4. page' = page /\ Recorded(page) => Recorded(page)'
  BY DEF Keeps, Recorded
<1>5. draft' = draft /\ Recorded(draft) => Recorded(draft)'
  BY DEF Keeps, Recorded
<1> QED
  BY <1>2, <1>3, <1>4, <1>5

(* Everybody else's operations.                                            *)
LEMMA MoveStep == PressInv /\ Move => PressInv'
<1> SUFFICES ASSUME PressInv, Move PROVE PressInv'
  OBVIOUS
<1>1. Keeps /\ draft' = draft /\ page' = page /\ moved'
  BY DEF Move, Keeps, PressInv
<1>2. PageInv'
  BY <1>1, SoundStays DEF PressInv, PageInv, Making, Move
<1>3. TrailFirst' /\ OfferedIsTaken'
  BY DEF Move, PressInv, TrailFirst, OfferedIsTaken
<1> QED
  BY <1>1, <1>2, <1>3 DEF PressInv

(* A page is made from the record as it is.                                *)
LEMMA OpenStep == ASSUME NEW fields, PressInv, Open(fields) PROVE PressInv'
<1>1. CASE Authorized(viewer, "read", record)
  <2>1. /\ draft' = [shown |-> Revealed(fields), actions |-> Offered,
                     request |-> "none", decidable |-> FALSE]
        /\ page' = Nothing /\ answer' = Nothing /\ pc' = "recording" /\ moved' = FALSE
        /\ pressed' = [action |-> "read", offered |-> FALSE]
        /\ UNCHANGED <<viewer, record, row, trail>>
    BY <1>1 DEF Open, Call
  <2>2. draft'.shown = Revealed(fields) /\ draft'.actions = Offered
    BY <2>1
  <2>3. \A t : Authorized(viewer, t.permission, record)' <=> Authorized(viewer, t.permission, record)
    BY <2>1 DEF Authorized, Granting, Global, InScope, Denied
  <2>4. Sound(draft)'
    BY <2>1, <2>2, <2>3, MadeSound DEF Sound
  <2>5. PageInv'
    BY <2>1, <2>2, <2>4 DEF PageInv, Making
  <2>6. TrailFirst' /\ OfferedIsTaken'
    BY <2>1, NothingAssumption DEF TrailFirst, OfferedIsTaken
  <2> QED  BY <2>1, <2>5, <2>6 DEF PressInv
<1>2. CASE ~Authorized(viewer, "read", record)
  <2>1. /\ page' = Nothing /\ answer' = Nothing /\ pc' = "denying" /\ moved' = moved
        /\ pressed' = [action |-> "read", offered |-> FALSE]
    BY <1>2 DEF Open, Call
  <2>2. PageInv'
    BY <2>1 DEF PageInv, Making
  <2>3. TrailFirst' /\ OfferedIsTaken'
    BY <2>1, NothingAssumption DEF TrailFirst, OfferedIsTaken
  <2> QED  BY <2>1, <2>2, <2>3 DEF PressInv
<1> QED  BY <1>1, <1>2

LEMMA RecordReadStep == PressInv /\ RecordRead => PressInv'
<1> SUFFICES ASSUME PressInv, RecordRead PROVE PressInv'
  OBVIOUS
<1>1. Keeps /\ draft' = draft /\ page' = page /\ pc = "recording" /\ pc' = "answering"
  BY DEF RecordRead, Keeps, PressInv
<1>2. Recorded(draft)'
  BY <1>1 DEF RecordRead, Recorded
<1>3. PageInv'
  BY <1>1, <1>2, SoundStays DEF PressInv, PageInv, Making, RecordRead
<1>4. TrailFirst' /\ OfferedIsTaken'
  BY <1>1, NothingAssumption DEF PressInv, PageInv, Making, RecordRead, TrailFirst, OfferedIsTaken
<1> QED
  BY <1>1, <1>3, <1>4 DEF PressInv, Keeps

LEMMA RespondStep == PressInv /\ Respond => PressInv'
<1> SUFFICES ASSUME PressInv, Respond PROVE PressInv'
  OBVIOUS
<1>1. Keeps /\ pc = "answering" /\ pc' = "idle" /\ moved' = moved /\ trail' = trail /\ row' = row
  BY DEF Respond, Keeps, PressInv
<1>2. /\ Sound(draft) /\ Recorded(draft) /\ answer = Nothing
      /\ draft = [shown |-> draft.shown, actions |-> draft.actions,
                  request |-> "none", decidable |-> FALSE]
  BY <1>1 DEF PressInv, PageInv, Making
<1>3. page'.shown = draft.shown /\ page'.actions = draft.actions
  BY <1>2 DEF Respond
<1>4. \A t : Authorized(viewer, t.permission, record)' <=> Authorized(viewer, t.permission, record)
  BY <1>1 DEF Keeps, Authorized, Granting, Global, InScope, Denied
<1>5. Sound(page)' /\ Recorded(page)'
  BY <1>1, <1>2, <1>3, <1>4 DEF Keeps, Sound, Recorded
<1>6. PageInv'
  BY <1>1, <1>2, <1>5 DEF PressInv, PageInv, Making, Respond
<1>7. TrailFirst' /\ OfferedIsTaken'
  BY <1>1, <1>2, <1>5, NothingAssumption DEF Recorded, TrailFirst, OfferedIsTaken, Respond
<1> QED
  BY <1>1, <1>6, <1>7 DEF PressInv, Keeps

(* What every press of a button leaves alone, and what it says.            *)
LEMMA PressKeeps ==
    ASSUME NEW t, PressInv, Press(t)
    PROVE  /\ pc = "idle" /\ page # Nothing /\ Sound(page) /\ Recorded(page)
           /\ t \in Table
           /\ pressed' = [action |-> t.action, offered |-> t \in page.actions]
           /\ pressed'.action = t.action /\ (pressed'.offered <=> t \in page.actions)
           /\ UNCHANGED <<viewer, record, draft, page, trail>>
BY DEF Press, Call, PressInv, PageInv

(* A press that is refused was not offered: what a page offers is          *)
(* authorized, and no authority is lost while it is open.                  *)
LEMMA PressRefusedStep == ASSUME NEW t, PressInv, PressRefused(t) PROVE PressInv'
<1>1. Press(t) /\ ~Authorized(viewer, t.permission, record)
      /\ pc' = "denying" /\ answer' = Nothing /\ UNCHANGED <<row, moved>>
  BY DEF PressRefused
<1>2. /\ t \notin page.actions
      /\ Keeps /\ page' = page /\ ~pressed'.offered
  BY <1>1, PressKeeps DEF Keeps, Sound, PressInv
<1>3. PageInv'
  BY <1>1, <1>2, PressKeeps, SoundStays DEF PressInv, PageInv, Making
<1>4. TrailFirst' /\ OfferedIsTaken'
  BY <1>1, <1>2, PressKeeps, NothingAssumption DEF TrailFirst, OfferedIsTaken, Recorded
<1> QED
  BY <1>2, <1>3, <1>4 DEF PressInv, Keeps

(* An offered press found invalid is one the record moved under.           *)
LEMMA PressInvalidStep == ASSUME NEW t, PressInv, PressInvalid(t) PROVE PressInv'
<1>1. /\ Press(t)
      /\ row.state \in t.from => t.held /\ ~row.holds
      /\ pc' = "idle" /\ answer' = "invalid" /\ UNCHANGED <<row, moved>>
  BY DEF PressInvalid, Answer
<1>2. Keeps /\ page' = page /\ moved' = moved
  BY <1>1, PressKeeps DEF Keeps, PressInv
<1>3. t \in page.actions => moved
  BY <1>1, PressKeeps DEF Sound, PressInv
<1>4. PageInv'
  BY <1>1, <1>2, PressKeeps, SoundStays, NothingAssumption DEF PressInv, PageInv, Making
<1>5. TrailFirst' /\ OfferedIsTaken'
  BY <1>1, <1>2, <1>3, PressKeeps DEF TrailFirst, OfferedIsTaken, Recorded
<1> QED
  BY <1>2, <1>4, <1>5 DEF PressInv, Keeps

(* A transition moves the record under its own page.                       *)
LEMMA PressTakenStep == ASSUME NEW t, PressInv, PressTaken(t) PROVE PressInv'
<1>1. Press(t) /\ pc' = "idle" /\ answer' = "ok" /\ moved' = TRUE
  BY DEF PressTaken, Answer
<1>2. Keeps /\ page' = page
  BY <1>1, PressKeeps DEF Keeps, PressInv
<1>3. PageInv'
  BY <1>1, <1>2, PressKeeps, SoundStays DEF PressInv, PageInv, Making
<1>4. TrailFirst' /\ OfferedIsTaken'
  BY <1>1, <1>2, PressKeeps DEF TrailFirst, OfferedIsTaken, Recorded
<1> QED
  BY <1>1, <1>2, <1>3, <1>4 DEF PressInv, Keeps

(* Decisions: the page says nothing of who will be let through.            *)
LEMMA DecideStep ==
    ASSUME PressInv, DecideLate \/ DecideRefused \/ DecideTaken
    PROVE  PressInv'
<1>1. /\ pc = "idle" /\ page # Nothing
      /\ pressed'.action = "decide" /\ pressed' = [action |-> "decide", offered |-> page.decidable]
      /\ UNCHANGED <<viewer, record, draft, page, trail>>
  BY DEF DecideLate, DecideRefused, DecideTaken, PressDecide, Call
<1>2. /\ moved' = TRUE \/ UNCHANGED <<row, moved>>
      /\ \/ pc' = "idle" /\ answer' \in {"invalid", "ok"}
         \/ pc' = "denying" /\ answer' = Nothing
  BY DEF DecideLate, DecideRefused, DecideTaken, Answer
<1>3. Keeps /\ page' = page
  <2>1. CASE moved' = TRUE
    BY <1>1, <2>1 DEF Keeps
  <2>2. CASE UNCHANGED <<row, moved>>
    BY <1>1, <2>2 DEF Keeps, PressInv
  <2> QED  BY <1>2, <2>1, <2>2
<1>4. Sound(page) /\ Recorded(page)
  BY <1>1 DEF PressInv, PageInv
<1>5. Sound(page)' /\ Recorded(page)'
  <2>1. moved \in BOOLEAN
    BY DEF PressInv
  <2> QED  BY <1>3, <1>4, <2>1, SoundStays
<1>6. PageInv'
  <2>1. ~Making' /\ pc' # "answering"
    BY <1>2 DEF Making
  <2> QED  BY <1>1, <1>5, <2>1 DEF PageInv
<1>7. TrailFirst' /\ OfferedIsTaken'
  BY <1>1, <1>2, <1>3, <1>4, NothingAssumption DEF TrailFirst, OfferedIsTaken, Recorded
<1> QED
  BY <1>3, <1>6, <1>7 DEF PressInv, Keeps

(* The denial is on the trail before it is the answer, and only decisions  *)
(* are denied that were offered.                                           *)
LEMMA RecordDenialStep == PressInv /\ RecordDenial => PressInv'
<1> SUFFICES ASSUME PressInv, RecordDenial PROVE PressInv'
  OBVIOUS
<1>1. Keeps /\ page' = page /\ pressed' = pressed /\ pc = "denying" /\ pc' = "idle"
      /\ answer' = "denied" /\ [kind |-> "auth_denied", action |-> pressed.action] \in trail'
  BY DEF RecordDenial, Answer, Keeps, PressInv
<1>2. PageInv'
  BY <1>1, SoundStays DEF PressInv, PageInv, Making
<1>3. TrailFirst' /\ OfferedIsTaken'
  BY <1>1, NothingAssumption DEF PressInv, PageInv, Keeps, TrailFirst, OfferedIsTaken
<1> QED
  BY <1>1, <1>2, <1>3 DEF PressInv, Keeps

(* A call whose trail row cannot be written answers nothing.               *)
LEMMA TrailFailsStep == PressInv /\ TrailFails => PressInv'
BY NothingAssumption
   DEF TrailFails, PressInv, PageInv, Making, TrailFirst, OfferedIsTaken

LEMMA StutterStep == PressInv /\ UNCHANGED vars => PressInv'
<1> SUFFICES ASSUME PressInv, UNCHANGED vars PROVE PressInv'
  OBVIOUS
<1>1. Keeps /\ page' = page /\ draft' = draft
  BY DEF vars, Keeps, PressInv
<1>2. PageInv'
  BY <1>1, SoundStays DEF PressInv, PageInv, Making, vars
<1> QED
  BY <1>2 DEF PressInv, TrailFirst, OfferedIsTaken, vars

LEMMA PressStep == PressInv /\ [Next]_vars => PressInv'
BY MoveStep, OpenStep, PressRefusedStep, PressInvalidStep, PressTakenStep, DecideStep,
   RecordReadStep, RespondStep, RecordDenialStep, TrailFailsStep, StutterStep
   DEF Next

(* The decision.  The page does not offer a request's own requester, or    *)
(* somebody without an eligible role, to decide; what decide() holds       *)
(* against somebody it was offered to is authorize()'s answer.             *)
LEMMA DecidableStep == PressInv /\ DecidableInv /\ [Next]_vars => DecidableInv'
<1> SUFFICES ASSUME PressInv, DecidableInv, [Next]_vars PROVE DecidableInv'
  OBVIOUS
<1> DEFINE May == Authorized(viewer, "approve", record)
           Refused(p) == ApprovalRefused(viewer, record.resource, p.request = "own")
<1>0. UNCHANGED <<viewer, record>>
  BY DEF Next, vars, Move, Open, RecordRead, Respond, PressRefused, PressInvalid, PressTaken, Press,
         DecideLate, DecideRefused, DecideTaken, PressDecide, RecordDenial, TrailFails
<1>1. /\ May' <=> May
      /\ page' = page => (Refused(page)' <=> Refused(page))
  BY <1>0 DEF Authorized, ApprovalRefused, Granting, Global, InScope, Denied
<1>2. CASE UNCHANGED vars \/ Move \/ RecordRead
  <2>1. UNCHANGED <<page, pressed, answer>> /\ (pc' = "denying" => pc = "denying")
    BY <1>2 DEF vars, Move, RecordRead
  <2> QED
    BY <1>1, <2>1 DEF DecidableInv, DecidableUnlessOutOfScope
<1>3. ASSUME NEW fields, Open(fields) PROVE DecidableInv'
  BY <1>3, NothingAssumption DEF Open, Call, DecidableInv, DecidableUnlessOutOfScope
<1>4. CASE Respond
  <2>1. /\ page' = [draft EXCEPT
                      !.request = row.request,
                      !.decidable = /\ row.request # "none"
                                    /\ ~ApprovalRefused(viewer, record.resource, row.request = "own")]
        /\ draft = [shown |-> draft.shown, actions |-> draft.actions,
                    request |-> "none", decidable |-> FALSE]
        /\ pc' = "idle" /\ UNCHANGED <<pressed, answer>>
    BY <1>4 DEF Respond, PressInv, PageInv, Making
  <2>2. page'.request = row.request
        /\ (page'.decidable => ~ApprovalRefused(viewer, record.resource, row.request = "own"))
    BY <2>1
  <2>3. page'.decidable => ~Refused(page)'
    BY <1>0, <2>2 DEF ApprovalRefused
  <2> QED
    BY <1>1, <2>1, <2>3 DEF DecidableInv, DecidableUnlessOutOfScope
<1>5. ASSUME NEW t, PressRefused(t) PROVE DecidableInv'
  <2>1. /\ Press(t) /\ ~Authorized(viewer, t.permission, record)
        /\ answer' = Nothing /\ page' = page
    BY <1>5 DEF PressRefused, Press
  <2>2. ~pressed'.offered
    BY <2>1, PressKeeps DEF Sound
  <2> QED
    BY <1>1, <2>1, <2>2 DEF DecidableInv, DecidableUnlessOutOfScope
<1>6. ASSUME NEW t, PressInvalid(t) \/ PressTaken(t) PROVE DecidableInv'
  BY <1>1, <1>6 DEF PressInvalid, PressTaken, Press, Answer, DecidableInv, DecidableUnlessOutOfScope
<1>7. CASE DecideLate \/ DecideTaken
  BY <1>1, <1>7
     DEF DecideLate, DecideTaken, PressDecide, Answer, DecidableInv, DecidableUnlessOutOfScope
<1>8. CASE DecideRefused
  <2>1. /\ page # Nothing /\ page' = page /\ row.request = page.request
        /\ ~MayDecide(viewer, record, row.request = "own")
        /\ pressed' = [action |-> "decide", offered |-> page.decidable]
        /\ answer' = Nothing
    BY <1>8 DEF DecideRefused, PressDecide, Call
  <2>2. pressed'.offered => ~May
    BY <2>1 DEF DecidableInv, MayDecide
  <2> QED
    BY <1>1, <2>1, <2>2, NothingAssumption DEF DecidableInv, DecidableUnlessOutOfScope
<1>9. CASE RecordDenial \/ TrailFails
  <2>1. /\ page' = page \/ page' = Nothing
        /\ pressed' = pressed /\ pc' = "idle"
        /\ (answer' = "denied" => pc = "denying" \/ answer = "denied")
    BY <1>9 DEF RecordDenial, TrailFails, Answer
  <2> QED
    BY <1>1, <2>1 DEF DecidableInv, DecidableUnlessOutOfScope
<1> QED
  BY <1>2, <1>3, <1>4, <1>5, <1>6, <1>7, <1>8, <1>9 DEF Next

(* Type and strengthening: a page is sound while it is made and while it   *)
(* is shown, and what it says of a decision stays true.                    *)
THEOREM ConsoleInvHolds == Spec => []ConsoleInv
<1>1. Init => ConsoleInv
  BY ConsoleInit DEF Init, ConsoleInv, DecidableInv, DecidableUnlessOutOfScope
<1>2. ConsoleInv /\ [Next]_vars => ConsoleInv'
  BY PressStep, DecidableStep DEF ConsoleInv
<1> QED  BY <1>1, <1>2, PTL DEF Spec

(* No raw value is shown and no refusal answered that is not on the trail. *)
THEOREM TrailFirstHolds == Spec => []TrailFirst
<1>1. ConsoleInv => TrailFirst
  BY DEF ConsoleInv, PressInv
<1> QED  BY <1>1, ConsoleInvHolds, PTL

(* A button the page offered is never denied, and is invalid only if the   *)
(* record moved under the page.                                            *)
THEOREM OfferedHolds == Spec => []OfferedIsTaken
<1>1. ConsoleInv => OfferedIsTaken
  BY DEF ConsoleInv, PressInv
<1> QED  BY <1>1, ConsoleInvHolds, PTL

(* No page an auditor sees holds a raw value, whatever else they are.      *)
THEOREM AuditorsHold == Spec => []AuditorsSeeNoPii
<1>1. ConsoleInv => AuditorsSeeNoPii
  BY DEF ConsoleInv, PressInv, PageInv, Sound, AuditorsSeeNoPii
<1> QED  BY <1>1, ConsoleInvHolds, PTL
-----------------------------------------------------------------------------
(* Roles add up one by one.                                                *)

(* What the catalog grants on flags: whatever a person's role allows, a    *)
(* release manager's does too; and an auditor's reveals nothing.           *)
LEMMA CatalogGrants ==
    ASSUME NEW r \in Roles, NEW action
    PROVE  /\ <<"flag_config", action>> \in Permissions[r] =>
                 \/ action = "read" \/ r = "system_effects"
                 \/ <<"flag_config", action>> \in Permissions["release_manager"]
           /\ <<"flag_config", action>> \in Permissions[r] /\ Grant[r] = "global" =>
                 action = "read" \/ r = "system_effects"
           /\ \A resource : <<resource, "reveal_pii">> \notin Permissions["auditor"]
           /\ "release_manager" \in Roles
<1>1. Roles = {"kyc_analyst", "compliance_officer", "auditor", "support_agent",
               "finance_manager", "engineer", "system_effects", "release_manager"}
  BY DEF Roles, Permissions
<1>2. \A resource : <<resource, "reveal_pii">> \notin Permissions["auditor"]
  BY DEF Permissions
<1>3. <<"flag_config", action>> \in Permissions[r] =>
         \/ action = "read" \/ r = "system_effects"
         \/ <<"flag_config", action>> \in Permissions["release_manager"]
  BY <1>1 DEF Permissions
<1>4. <<"flag_config", action>> \in Permissions[r] /\ Grant[r] = "global" =>
         action = "read" \/ r = "system_effects"
  BY <1>1 DEF Grant, Permissions
<1> QED
  BY <1>1, <1>2, <1>3, <1>4

(* One of the roles somebody holds suffices for whatever they may do: on a *)
(* production flag the release manager's, elsewhere the widest that grants *)
(* it; no deny rule but these two looks at roles.                          *)
LEMMA OneRoleSuffices ==
    ASSUME NEW p, p = [kind |-> p.kind, roles |-> p.roles, scopes |-> p.scopes],
           p.kind = "human" => "system_effects" \notin p.roles,
           NEW action, NEW rec, Authorized(p, action, rec)
    PROVE  \E r \in p.roles : Authorized([p EXCEPT !.roles = {r}], action, rec)
<1> DEFINE Only(r) == [p EXCEPT !.roles = {r}]
           granting == Granting(p, rec.resource, action)
           guarded == /\ p.kind = "human" /\ rec.resource = "flag_config"
                      /\ rec.scopeValue = "production" /\ action # "read"
<1> SUFFICES \E s \in p.roles : Authorized(Only(s), action, rec)
  OBVIOUS
<1>1. \A r : Only(r).kind = p.kind /\ Only(r).roles = {r} /\ Only(r).scopes = p.scopes
  OBVIOUS
<1> HIDE DEF Only
<1>2. \A r \in granting : r \in p.roles \intersect Roles /\ Granting(Only(r), rec.resource, action) = {r}
  BY <1>1 DEF Granting
<1>3. \A r : InScope(Only(r), rec) <=> InScope(p, rec)
  BY <1>1 DEF InScope
<1>4. /\ granting # {} /\ (Global(granting) \/ InScope(p, rec)) /\ ~Denied(p, action, rec)
      /\ \A r \in granting : <<rec.resource, action>> \in Permissions[r]
  BY DEF Authorized, Granting
<1>5. ASSUME NEW r \in granting, Grant[r] = "global" \/ InScope(p, rec), ~Denied(Only(r), action, rec)
      PROVE  \E s \in p.roles : Authorized(Only(s), action, rec)
  <2>1. Global({r}) \/ InScope(Only(r), rec)
    BY <1>3, <1>5 DEF Global
  <2> QED
    BY <1>2, <1>5, <2>1 DEF Authorized
<1>6. CASE guarded
  <2>1. "release_manager" \in p.roles
    BY <1>4, <1>6 DEF Denied
  <2>2. \A r \in granting : Grant[r] # "global"
    BY <1>2, <1>4, <1>6, CatalogGrants
  <2>3. "release_manager" \in granting
    BY <1>2, <1>4, <1>6, <2>1, CatalogGrants DEF Granting
  <2>4. ~Denied(Only("release_manager"), action, rec)
    BY <1>1 DEF Denied
  <2> QED
    BY <1>4, <1>5, <2>2, <2>3, <2>4 DEF Global
<1>7. CASE ~guarded
  <2>1. PICK r \in granting : Grant[r] = "global" \/ InScope(p, rec)
    BY <1>4 DEF Global
  <2>2. ~(r = "auditor" /\ action = "reveal_pii")
    BY <1>2, <1>4, <2>1, CatalogGrants
  <2>3. ~Denied(Only(r), action, rec)
    BY <1>1, <1>7, <2>2 DEF Denied
  <2> QED
    BY <1>5, <2>1, <2>3
<1> QED
  BY <1>6, <1>7

(* Nobody may do with several roles what none of them allows.              *)
THEOREM RolesDoNotMixHolds == Spec => []RolesDoNotMix
<1>1. Init => viewer \in Viewers
  BY DEF Init
<1>2. viewer \in Viewers /\ [Next]_vars => (viewer \in Viewers)'
  BY DEF Next, vars, Move, Open, RecordRead, Respond, PressRefused, PressInvalid, PressTaken, Press,
         DecideLate, DecideRefused, DecideTaken, PressDecide, RecordDenial, TrailFails
<1>3. viewer \in Viewers => RolesDoNotMix
  <2>1. ASSUME viewer \in Viewers PROVE RolesDoNotMix
    BY <2>1, ViewersAssumption, OneRoleSuffices DEF RolesDoNotMix
  <2> QED
    BY <2>1
<1> QED
  BY <1>1, <1>2, <1>3, PTL DEF Spec

-----------------------------------------------------------------------------
(* Who may decide.                                                         *)

(* A decision the page offered is denied only to somebody who may not      *)
(* approve this very record.                                               *)
THEOREM DecidableUnlessHolds == Spec => []DecidableUnlessOutOfScope
<1>1. ConsoleInv => DecidableUnlessOutOfScope
  BY DEF ConsoleInv, DecidableInv
<1> QED  BY <1>1, ConsoleInvHolds, PTL
=============================================================================
