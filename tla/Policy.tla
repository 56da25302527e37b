------------------------------- MODULE Policy -------------------------------
(***************************************************************************)
(* The policy engine: what authorize(), the query predicate of a list and  *)
(* the engine of approvals decide, for any catalog of roles and deny       *)
(* rules.  Catalog is the one this platform ships.                         *)
(*                                                                         *)
(* A principal is [kind, roles, scopes], where scopes gives the granted    *)
(* values per dimension; a record is [resource, scopeValue].               *)
(***************************************************************************)

CONSTANTS
    Roles,               \* the names of the catalog's roles
    Grant,               \* [Roles -> {"global", "own_scope"}]
    Permissions,         \* [Roles -> SUBSET (resource \X action)]
    Denied(_, _, _),     \* whether a deny rule hits principal, action, record
    Dimension,           \* per resource: its scope dimension
    EligibleRoles,       \* per resource: eligibleRoles of its approval rules
    GlobalScope          \* GLOBAL_SCOPE, the grant '*'

(* A role a principal row names and the catalog does not have grants       *)
(* nothing.                                                                *)
Granting(p, resource, action) ==
    {r \in p.roles \intersect Roles : <<resource, action>> \in Permissions[r]}

Global(roles) == \E r \in roles : Grant[r] = "global"

InScope(p, rec) ==
    LET granted == p.scopes[Dimension[rec.resource]]
    IN  GlobalScope \in granted \/ rec.scopeValue \in granted

\* Mutants: any global role the principal holds lifts the scope; the deny
\* rules are not evaluated.
AuthorizedByAnyGlobal(p, action, rec) ==
    /\ Granting(p, rec.resource, action) # {}
    /\ Global(p.roles \intersect Roles) \/ InScope(p, rec)
    /\ ~Denied(p, action, rec)
AuthorizedByGrant(p, action, rec) ==
    LET granting == Granting(p, rec.resource, action)
    IN  granting # {} /\ (Global(granting) \/ InScope(p, rec))

(* Permission, then the scope of the roles that grant it, then the deny    *)
(* rules.                                                                  *)
Authorized(p, action, rec) ==
    LET granting == Granting(p, rec.resource, action) IN
    /\ granting # {}
    /\ Global(granting) \/ InScope(p, rec)
    /\ ~Denied(p, action, rec)

-----------------------------------------------------------------------------
(* The read path of a list: a permission, and a predicate in the query.    *)

HasPermission(p, resource, action) == Granting(p, resource, action) # {}

ScopeAccess(p, resource, action) ==
    LET granting == Granting(p, resource, action)
        granted == p.scopes[Dimension[resource]]
    IN  IF granting = {} THEN [mode |-> "none", values |-> {}]
        ELSE IF Global(granting) \/ GlobalScope \in granted
        THEN [mode |-> "global", values |-> {}]
        ELSE IF granted = {} THEN [mode |-> "none", values |-> {}]
        ELSE [mode |-> "scoped", values |-> granted]

\* Mutant: no grant, no predicate.
UnfilteredWithoutGrant(p, resource, action, value) ==
    LET access == ScopeAccess(p, resource, action)
    IN  access.mode = "scoped" => value \in access.values

(* scopeFilter: no predicate at all, or value IN (...).                    *)
Selected(p, resource, action, value) ==
    LET access == ScopeAccess(p, resource, action)
    IN  access.mode = "global" \/ value \in access.values

Listed(p, rec) ==
    /\ HasPermission(p, rec.resource, "read")
    /\ Selected(p, rec.resource, "read", rec.scopeValue)

-----------------------------------------------------------------------------
(* Who may decide a parked request, given whether it is the person's own.  *)

ApprovalRefused(p, resource, own) ==
    own \/ (EligibleRoles[resource] # {} /\ EligibleRoles[resource] \intersect p.roles = {})

MayDecide(p, rec, own) ==
    ~ApprovalRefused(p, rec.resource, own) /\ Authorized(p, "approve", rec)
=============================================================================
