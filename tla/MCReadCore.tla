----------------------------- MODULE MCReadCore -----------------------------
(***************************************************************************)
(* Small instances of ReadCore: two kinds of event and a query for one of  *)
(* them; a log of that kind alone is what a query for all would see.       *)
(***************************************************************************)
EXTENDS ReadCore

CONSTANTS opened, closedType, a

MCEventType == {opened, closedType}
MCTag == {a}

MCCommittable == [type : MCEventType, tags : {{}}]

MCQueries == {Items({[types |-> {opened}, tags |-> {}]})}

AnyKind == [s \in Sub |-> {"blocking", "async", "server"}]
=============================================================================
