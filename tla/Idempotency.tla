----------------------------- MODULE Idempotency -----------------------------
(***************************************************************************)
(* idempotency_middleware (backbone-auth): attempts of one client that     *)
(* carry one Idempotency-Key for one company.  An attempt looks the key    *)
(* up, runs the handler on a miss and stores a 2xx answer; nothing is held *)
(* between these steps.  Requests without a key, without a valid token or  *)
(* with a method that changes nothing pass through and are not attempts.   *)
(***************************************************************************)
EXTENDS Integers, FiniteSets

CONSTANT Attempts

VARIABLES row,      \* the body in idempotency_requests, or "none"
          writes,   \* how often the handler's write was committed
          attempt   \* each attempt's place, and the body of its answer

vars == <<row, writes, attempt>>

Init ==
    /\ row = "none" /\ writes = 0
    /\ attempt = [a \in Attempts |-> [phase |-> "new", body |-> "none"]]

Become(a, phase, body) == attempt' = [attempt EXCEPT ![a] = [phase |-> phase, body |-> body]]

\* lookup found the row: replay.
Replay(a) ==
    /\ attempt[a].phase = "new" /\ row # "none"
    /\ Become(a, "answered", row)
    /\ UNCHANGED <<row, writes>>

\* No row, or a query that failed (ok().flatten()): forward.
Forward(a) ==
    /\ attempt[a].phase = "new"
    /\ Become(a, "running", "none")
    /\ UNCHANGED <<row, writes>>

\* The handler commits and answers 2xx.  to_bytes refuses a body over
\* MAX_BODY, and unwrap_or_default makes an empty one of it.
HandlerOk(a) ==
    /\ attempt[a].phase = "running"
    /\ writes' = writes + 1
    /\ \E body \in {"small", "empty"} : Become(a, "store", body)
    /\ UNCHANGED row

\* Any other answer is not kept, and nothing was written.
HandlerRefuses(a) ==
    /\ attempt[a].phase = "running"
    /\ Become(a, "answered", "error")
    /\ UNCHANGED <<row, writes>>

\* store: the first answer stays (ON CONFLICT DO NOTHING).
Store(a) ==
    /\ attempt[a].phase = "store"
    /\ row' = IF row = "none" THEN attempt[a].body ELSE row
    /\ Become(a, "answered", attempt[a].body)
    /\ UNCHANGED writes

\* The result of store is ignored.
StoreFails(a) ==
    /\ attempt[a].phase = "store"
    /\ Become(a, "answered", attempt[a].body)
    /\ UNCHANGED <<row, writes>>

\* The connection is lost or the process stops.
Lost(a) ==
    /\ attempt[a].phase \in {"running", "store"}
    /\ Become(a, "lost", "none")
    /\ UNCHANGED <<row, writes>>

Step(a) ==
    \/ Replay(a) \/ Forward(a) \/ HandlerOk(a) \/ HandlerRefuses(a)
    \/ Store(a) \/ StoreFails(a) \/ Lost(a)

Next == \E a \in Attempts : Step(a)

Spec == Init /\ [][Next]_vars

\* "a client that retries a POST with the same Idempotency-Key gets the same
\* response back and the write is applied once": a client retries because the
\* first attempt is slow, and that one may still be running.
AppliedOnce == writes <= 1
=============================================================================
