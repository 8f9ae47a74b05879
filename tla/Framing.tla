------------------------------ MODULE Framing ------------------------------
(***************************************************************************)
(* Length-prefixed framing (tephra-proto/src/framing.rs) as operators on   *)
(* byte streams.  A byte knows the frame it was written for and its place  *)
(* in it, which is all that telling an aligned stream from a shifted one   *)
(* takes: a length is decoded from the bytes that happen to be there.      *)
(***************************************************************************)
EXTENDS Integers, Sequences

CONSTANT PrefixLen  \* bytes of the length prefix (4)

ASSUME FramingAssumption == PrefixLen \in Nat \ {0}

Bytes(frame, part, n) == [i \in 1..n |-> [of |-> frame, part |-> part, at |-> i]]

\* write_frame refuses a body over the limit before it writes a byte.
Writable(frame, max) == frame.size <= max

Encode(frame) == Bytes(frame, "len", PrefixLen) \o Bytes(frame, "body", frame.size)

\* FrameReader: the prefix bytes read so far, then the body and its length.
Boundary == [prefix |-> <<>>, body |-> <<>>, len |-> 0]

InBody(reader) == Len(reader.prefix) = PrefixLen

InProgress(reader) == reader.prefix # <<>>

Wants(reader) ==
    IF InBody(reader) THEN reader.len - Len(reader.body) ELSE PrefixLen - Len(reader.prefix)

\* u32::from_be_bytes of four bytes: the length that was written, or anything when they are not
\* the prefix of one frame.
DecodedLens(prefix, max) ==
    IF prefix = Bytes(prefix[1].of, "len", PrefixLen)
    THEN {prefix[1].of.size} ELSE 0..(max + 1)

\* finish: a whole body parses to its message; other bytes fail to, or give a message with neither
\* id nor kind.
Garbage == [id |-> 0, kind |-> "none", size |-> 0]

Polled(outcome, reader) == [outcome |-> outcome, reader |-> reader, frame |-> Garbage]

Finished(reader) ==
    IF reader.body # <<>> /\ reader.body = Bytes(reader.body[1].of, "body", reader.len)
         /\ reader.len = reader.body[1].of.size
    THEN {[outcome |-> "frame", reader |-> Boundary, frame |-> reader.body[1].of]}
    ELSE {Polled("parse", reader), Polled("frame", Boundary)}

\* One poll that reads a chunk: at most one read, within one phase.
Poll(reader, chunk, max) ==
    IF ~InBody(reader)
    THEN LET prefix == reader.prefix \o chunk
         IN IF Len(prefix) < PrefixLen
            THEN {Polled("progress", [Boundary EXCEPT !.prefix = prefix])}
            ELSE UNION {IF len > max
                        THEN {Polled("toolarge", [Boundary EXCEPT !.prefix = prefix])}
                        ELSE LET at == [prefix |-> prefix, body |-> <<>>, len |-> len]
                             IN IF len = 0 THEN Finished(at) ELSE {Polled("progress", at)}
                        : len \in DecodedLens(prefix, max)}
    ELSE LET at == [reader EXCEPT !.body = @ \o chunk]
         IN IF Len(at.body) < at.len THEN {Polled("progress", at)} ELSE Finished(at)

\* The end of the stream: clean between frames, torn within one.
AtEof(reader) == IF InProgress(reader) THEN "torn" ELSE "eof"
=============================================================================
