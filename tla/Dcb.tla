-------------------------------- MODULE Dcb --------------------------------
(***************************************************************************)
(* The vocabulary of the event store (tephra-types/src/query.rs and        *)
(* tephra/src/query.rs): events with a type and a set of tags, queries,    *)
(* and the one match predicate every other component must agree with.      *)
(*                                                                         *)
(* Positions are 1-based and dense, so position p is index p of a          *)
(* sequence and 0 means "before everything" (Position::ZERO).              *)
(***************************************************************************)
EXTENDS Naturals, Sequences, FiniteSets

CONSTANTS
    EventType,      \* the event types
    Tag             \* the tags; an event may carry none

\* An event, reduced to what a query can tell apart.
Event == [type : EventType, tags : SUBSET Tag]

\* A query item: the type is one of `types' (none listed: any type) AND every tag of `tags' is
\* present.
QueryItem == [types : SUBSET EventType, tags : SUBSET Tag]

\* Query::All is `all = TRUE'; Query::Items is an OR over `items', so the empty set of items
\* matches nothing.
Query == [all : BOOLEAN, items : SUBSET QueryItem]

All == [all |-> TRUE, items |-> {}]

Items(items) == [all |-> FALSE, items |-> items]

\* A clause that is absent (no condition, or no fail_if_exists) rejects nothing, exactly like the
\* empty Items query.
Nothing == Items({})

ItemMatches(item, event) ==
    /\ item.types = {} \/ event.type \in item.types
    /\ item.tags \subseteq event.tags

Matches(query, event) ==
    query.all \/ \E item \in query.items : ItemMatches(item, event)

\* The positions of S that no other one precedes: a set with one element when S is a nonempty set
\* of positions, and none when S is empty.
Lowest(S) == {p \in S : \A x \in S : p <= x}
=============================================================================
