---------------------------- MODULE MCAsyncClient ----------------------------
(***************************************************************************)
(* Small instances of AsyncClient: two or three calls on one socket.       *)
(***************************************************************************)
EXTENDS AsyncClient

Mixes == {<<"append", "append", "stats">>, <<"append", "stats", "huge">>,
          <<"append", "read">>, <<"append", "subscribe">>, <<"read", "subscribe">>,
          <<"read", "huge">>, <<"read", "refused">>}
Appends == {<<"append", "append">>}
=============================================================================
