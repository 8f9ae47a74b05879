---------------------------- MODULE MCIndexReads ----------------------------
(***************************************************************************)
(* Small instances of IndexReads: two kinds of event sharing a tag, a      *)
(* column that holds one type, and queries for everything, by tags, by     *)
(* type and tag, and by two items.                                         *)
(***************************************************************************)
EXTENDS IndexReads

CONSTANTS opened, closed, x, y

MCEventType == {opened, closed}
MCTag == {x, y}

MCAppendable == {[type |-> opened, tags |-> {x}], [type |-> closed, tags |-> {x, y}]}

ByTags == Items({[types |-> {}, tags |-> {x, y}]})
ByBoth == Items({[types |-> {opened}, tags |-> {x}]})
ByEither == Items({[types |-> {}, tags |-> {y}], [types |-> {opened}, tags |-> {x}]})

MCQueries == {All, ByTags, ByBoth, ByEither}
MCLimits == {1, NoLimit}
=============================================================================
