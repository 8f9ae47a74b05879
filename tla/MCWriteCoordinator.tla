------------------------- MODULE MCWriteCoordinator -------------------------
(***************************************************************************)
(* Small instances of WriteCoordinator: two event types, two tags, and     *)
(* the requests each run lets callers submit.                              *)
(***************************************************************************)
EXTENDS WriteCoordinator, TLC

CONSTANTS opened, closed, a, b

MCEventType == {opened, closed}
MCTag == {a, b}

Ev(type, tags) == [type |-> type, tags |-> tags]
Item(types, tags) == [types |-> types, tags |-> tags]

\* A request of n framed bytes whose largest event has m.
Rq(events, n, m, match, after, exists) ==
    [events |-> events, size |-> n, largest |-> m,
     match |-> match, after |-> after, exists |-> exists]

OnTag(tag) == Items({Item({}, {tag})})
OnType(type) == Items({Item({type}, {})})

\* Boundary and existence clauses over tags, types and everything.
Conditional ==
    {Rq(<<Ev(opened, {a})>>, 1, 1, OnTag(a), after, Nothing) : after \in 0..2}
        \cup {Rq(<<Ev(closed, {a, b})>>, 1, 1, OnType(opened), after, OnTag(b)) : after \in {1, 9}}
        \cup {Rq(<<Ev(opened, {b}), Ev(closed, {b})>>, 2, 1, Nothing, 0, Nothing),
              Rq(<<Ev(closed, {b})>>, 1, 1, All, 2, Nothing),
              Rq(<<>>, 0, 0, Nothing, 0, Nothing)}

\* Requests of every size class: two that fill a batch together, and one over
\* the record limit and the segment.
Sized ==
    {Rq(<<Ev(opened, {a})>>, 1, 1, OnTag(a), 0, Nothing),
     Rq(<<Ev(closed, {b}), Ev(opened, {a})>>, 3, 2, OnTag(b), 1, Nothing),
     Rq(<<Ev(opened, {b})>>, 9, 3, Nothing, 0, Nothing)}

\* A request whose event has no tag, and two that must not follow it.
Tagless ==
    {Rq(<<Ev(opened, {})>>, 1, 1, Nothing, 0, Nothing),
     Rq(<<Ev(closed, {})>>, 1, 1, All, 0, Nothing),
     Rq(<<Ev(closed, {a})>>, 1, 1, OnType(opened), 0, Nothing)}

Symmetric == Permutations(Req)
=============================================================================
