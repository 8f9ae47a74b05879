------------------------------ MODULE DcbStore ------------------------------
(***************************************************************************)
(* What the store promises its callers: one log that only grows, to which  *)
(* whole requests are added, each at a moment when its append condition    *)
(* holds against everything before it; an answer that agrees with the log; *)
(* and a crash after which every caller still waiting knows nothing, while *)
(* what the log holds stays.  A request that was answered with an I/O      *)
(* error may still take effect, at a crash only, and where its condition   *)
(* holds.  No queue, batch, tips, index or segment.                        *)
(***************************************************************************)
EXTENDS Dcb

CONSTANTS
    Req,         \* request tokens
    Request,     \* the requests callers may submit
    NoRequest,   \* the argument of a token that was not submitted
    None         \* the answer of a request that has none yet

VARIABLES
    arg,         \* the request behind each token, once submitted
    reply,       \* what the caller was answered
    log          \* the committed records

vars == <<arg, reply, log>>

InFlight(r) == arg[r] # NoRequest /\ reply[r] = None

IOError == [kind |-> "log"]

Failed(r) == arg[r] # NoRequest /\ reply[r] = IOError

Positions(l, r) == {p \in DOMAIN l : l[p].req = r}

\* An event at position p that makes request q fail.
Forbids(q, event, p) ==
    \/ p > q.after /\ Matches(q.match, event)
    \/ Matches(q.exists, event)

\* Log l holds the events of request r, all of them, from position f on.
WholeAt(l, r, f) ==
    /\ Positions(l, r) = f .. f + Len(arg[r].events) - 1
    /\ \A p \in Positions(l, r) : l[p].event = arg[r].events[p - f + 1]

\* Log l extends the current one with whole requests, in flight or failed ones among `late', whose
\* conditions hold where they land.
Admits(l, late) ==
    /\ Len(l) >= Len(log)
    /\ SubSeq(l, 1, Len(log)) = log
    /\ \A p \in Len(log) + 1 .. Len(l) :
        LET r == l[p].req IN
        /\ InFlight(r) \/ r \in late
        /\ \E f \in Len(log) + 1 .. p : WholeAt(l, r, f)
        /\ \A q \in 1 .. p - 1 : l[q].req # r => ~ Forbids(arg[r], l[q].event, q)

-----------------------------------------------------------------------------
Init ==
    /\ arg = [r \in Req |-> NoRequest]
    /\ reply = [r \in Req |-> None]
    /\ log = <<>>

Submit(r) ==
    /\ arg[r] = NoRequest
    /\ reply[r] = None
    /\ \E q \in Request : arg' = [arg EXCEPT ![r] = q]
    /\ UNCHANGED <<reply, log>>

\* A group of requests becomes durable at once, answered or not.
Commit ==
    /\ Admits(log', {})
    /\ UNCHANGED <<arg, reply>>

\* Some callers are answered: with the range their events have, or with a refusal when they have
\* none. A refusal that names an event names the earliest one the clause forbids (0 stands for one
\* of the same batch).
Against(r, clause) ==
    {p \in DOMAIN log :
        IF clause = "boundary"
        THEN p > arg[r].after /\ Matches(arg[r].match, log[p].event)
        ELSE Matches(arg[r].exists, log[p].event)}

Truthful(r, answer) ==
    IF answer.kind = "ok"
    THEN Positions(log, r) # {} /\ Positions(log, r) = answer.first .. answer.last
    ELSE /\ Positions(log, r) = {}
         /\ answer.kind = "conflict" /\ answer.at > 0 =>
                /\ answer.at \in Against(r, answer.clause)
                /\ \A p \in Against(r, answer.clause) : answer.at <= p

AnswerSome ==
    /\ \A r \in Req : reply'[r] # reply[r] =>
            /\ reply[r] = None
            /\ Truthful(r, reply'[r])
            /\ reply'[r].kind # "lost"
    /\ UNCHANGED log
    /\ \A r \in Req : arg'[r] # arg[r] =>
            \* a request refused before it was queued
            /\ arg[r] = NoRequest
            /\ arg'[r] \in Request
            /\ reply'[r] # None

Crash ==
    /\ Admits(log', {r \in Req : Failed(r)})
    /\ \A r \in Req : reply'[r] = IF InFlight(r) THEN [kind |-> "lost"] ELSE reply[r]
    /\ UNCHANGED arg

Next == (\E r \in Req : Submit(r)) \/ Commit \/ AnswerSome \/ Crash

Spec == Init /\ [][Next]_vars
=============================================================================
