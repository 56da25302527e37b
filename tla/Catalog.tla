------------------------------ MODULE Catalog ------------------------------
(***************************************************************************)
(* The roles, deny rules and resource declarations this platform ships, as *)
(* far as authorization and the generated views read them.                 *)
(***************************************************************************)
EXTENDS FiniteSets

GlobalScope == "*"

Dimension ==
    [kyc_case |-> "business_unit", refund |-> "business_unit",
     payment |-> "business_unit", flag_config |-> "environment"]

Permissions ==
    LET On(resource, actions) == {resource} \X actions
        Flags == On("flag_config", {"read", "update", "rollback"})
    IN  [kyc_analyst |-> On("kyc_case", {"read", "reveal_pii", "assign", "decide", "export"}),
         compliance_officer |-> On("kyc_case", {"read", "reveal_pii", "approve"})
                                    \union On("audit_event", {"read"}),
         auditor |-> On("kyc_case", {"read", "export"})
                        \union {"refund", "payment", "flag_config", "audit_event"} \X {"read"},
         support_agent |-> On("refund", {"read", "request"}) \union On("payment", {"read"}),
         finance_manager |-> On("refund", {"read", "request", "approve", "reconcile", "export"})
                                 \union On("payment", {"read"}),
         engineer |-> Flags,
         system_effects |-> {<<"refund", "settle">>, <<"flag_config", "publish">>},
         release_manager |-> Flags \union On("flag_config", {"approve"})]

Roles == DOMAIN Permissions

Grant ==
    [r \in Roles |-> IF r \in {"compliance_officer", "auditor", "system_effects"}
                     THEN "global" ELSE "own_scope"]

(* DENY_RULES: no reveal for an auditor, and no change of a production     *)
(* flag by a human who is not a release manager.                           *)
Denied(p, action, rec) ==
    \/ "auditor" \in p.roles /\ action = "reveal_pii"
    \/ /\ p.kind = "human"
       /\ rec.resource = "flag_config" /\ rec.scopeValue = "production" /\ action # "read"
       /\ "release_manager" \notin p.roles

EligibleRoles ==
    [kyc_case |-> {"compliance_officer"}, refund |-> {"finance_manager"},
     payment |-> {}, flag_config |-> {"release_manager"}]

(* The fields with a revealPermission.                                     *)
SensitiveFields ==
    [kyc_case |-> {"ssn", "dob", "address"}, refund |-> {}, payment |-> {}, flag_config |-> {}]

(* The transitions: states, permission, whether availableWhen and the      *)
(* guard ask that the person holds the record, and requiresApproval.       *)
Transition(action, from, to, perm) ==
    [action |-> action, from |-> from, to |-> to, permission |-> perm,
     held |-> FALSE, parks |-> FALSE]
OfHolder(t) == [t EXCEPT !.held = TRUE]
RequiresApproval(t) == [t EXCEPT !.parks = TRUE]

Transitions ==
    [kyc_case |->
        {Transition("claim", {"new", "info_requested"}, "in_review", "assign"),
         OfHolder(Transition("release", {"in_review"}, "new", "assign")),
         OfHolder(Transition("request_info", {"in_review"}, "info_requested", "decide")),
         RequiresApproval(OfHolder(
            Transition("approve", {"in_review", "escalated"}, "approved", "decide"))),
         OfHolder(Transition("escalate", {"in_review"}, "escalated", "decide")),
         RequiresApproval(OfHolder(
            Transition("reject", {"in_review", "escalated"}, "rejected", "decide")))},
     refund |->
        {RequiresApproval(Transition("submit", {"draft"}, "submitted", "request")),
         Transition("settle", {"submitted", "unknown"}, "succeeded", "settle"),
         Transition("fail", {"submitted", "unknown"}, "failed", "settle"),
         Transition("mark_unknown", {"submitted"}, "unknown", "settle"),
         Transition("reconcile", {"unknown"}, "unknown", "reconcile"),
         Transition("reject", {"draft"}, "rejected", "request")},
     payment |-> {},
     flag_config |->
        {RequiresApproval(
            Transition("update", {"live", "publish_failed"}, "publishing", "update")),
         Transition("rollback", {"live", "publishing", "publish_failed"}, "publishing", "rollback"),
         Transition("publish_succeeded", {"publishing"}, "live", "publish"),
         Transition("publish_failed", {"publishing"}, "publish_failed", "publish")}]

States(resource) ==
    IF resource = "payment" THEN {"captured"}
    ELSE UNION {t.from \union {t.to} : t \in Transitions[resource]}

INSTANCE Policy
=============================================================================
