----------------------------- MODULE MCConsole -----------------------------
(* Everybody with one or two of the roles people have, granted one value   *)
(* per dimension, every value or none, at records of each kind.            *)
EXTENDS Console

People == Roles \ {"system_effects"}

MCScopes == {[business_unit |-> {}, environment |-> {}],
             [business_unit |-> {"us"}, environment |-> {"production"}],
             [business_unit |-> {GlobalScope}, environment |-> {"staging", "production"}]}

MCViewers == [kind : {"human"}, roles : {{r, s} : r, s \in People}, scopes : MCScopes]

MCRecords ==
    {[resource |-> "kyc_case", scopeValue |-> "us"], [resource |-> "kyc_case", scopeValue |-> "eu"],
     [resource |-> "refund", scopeValue |-> "eu"], [resource |-> "payment", scopeValue |-> "us"],
     [resource |-> "flag_config", scopeValue |-> "staging"],
     [resource |-> "flag_config", scopeValue |-> "production"]}
=============================================================================
