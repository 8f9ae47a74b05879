---------------------------- MODULE MCServerConn ----------------------------
(***************************************************************************)
(* Small instances of ServerConn: what one client sends over a connection. *)
(***************************************************************************)
EXTENDS ServerConn

Ask(kind) == [kind |-> kind, target |-> 0, faulty |-> FALSE]
Cancel(id) == [kind |-> "cancel", target |-> id, faulty |-> FALSE]
Faulty(kind) == [kind |-> kind, target |-> 0, faulty |-> TRUE]

Reads == <<Ask("hello"), Ask("read"), Ask("read"), Cancel(3)>>
Mixed == <<Ask("hello"), Ask("read"), Ask("stats"), Ask("stats")>>
Tails == <<Ask("hello"), Ask("subscribe"), Ask("subscribe")>>
Tail2 == <<Ask("hello"), Ask("subscribe"), Cancel(2)>>
Bads == <<Ask("hello"), Faulty("read"), Ask("stats")>>
Spawn == <<Ask("hello"), Faulty("subscribe")>>
Appends == <<Ask("hello"), Ask("append"), Ask("append"), Ask("append")>>
Stalled == <<Ask("hello"), Ask("append"), Ask("empty"), Ask("partial")>>
Garbled == <<Ask("hello"), Ask("invalid"), Ask("garbage")>>

ConnScripts == {Reads, Mixed, Tails, Tail2, Bads, Spawn, Appends, Stalled, Garbled,
                <<Ask("badhello")>>, <<Ask("stats")>>}
=============================================================================
