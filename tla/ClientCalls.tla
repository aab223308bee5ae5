----------------------------- MODULE ClientCalls -----------------------------
(***************************************************************************)
(* The calls a page of a client has in flight.  net[kind] is a set: a call *)
(* keeps in `to' what its handler closed over and asked for, and in `ans'  *)
(* what the server answered.  Calls of one kind that ask for the same and  *)
(* have come as far as each other are one call.  Between the answer and    *)
(* the handler's next step anything else may happen on the page.           *)
(***************************************************************************)
EXTENDS Naturals, FiniteSets

CONSTANTS
    MaxInFlight,  \* bound: calls in flight at once
    MaxLost       \* bound: calls that fail on the network

VARIABLES net, lost

NoCalls(kinds) == [k \in kinds |-> {}]

InFlight(k) == net[k] # {}
Quiet(kinds) == \A k \in kinds : net[k] = {}
AllCalls == UNION {{<<k, c>> : c \in net[k]} : k \in DOMAIN net}

Call(k, to, answers) ==
    [to: to, phase: {"sent", "failed"}] \cup [to: to, phase: {"answered"}, ans: answers]

Sent(a) == [to |-> a, phase |-> "sent"]
CanAsk(k, a) == Sent(a) \notin net[k] /\ Cardinality(AllCalls) < MaxInFlight

\* n after a call of kind k went out.
Asking(n, k, a) == [n EXCEPT ![k] = @ \cup {Sent(a)}]
Ask(k, a) == CanAsk(k, a) /\ net' = Asking(net, k, a)

Asked(k) == {c \in net[k] : c.phase = "sent"}
Came(k) == {c \in net[k] : c.phase \in {"answered", "failed"}}
Ok(c) == c.phase = "answered"

Answer(k, c, v) ==
    net' = [net EXCEPT ![k] = (@ \ {c}) \cup {[to |-> c.to, phase |-> "answered", ans |-> v]}]
Refuse(k, c) == net' = [net EXCEPT ![k] = (@ \ {c}) \cup {[to |-> c.to, phase |-> "failed"]}]

\* n once the handler that waited for c went on.
Without(n, k, c) == [n EXCEPT ![k] = @ \ {c}]
Take(k, c) == net' = Without(net, k, c)

\* A call may be lost before it reached the server, or its answer may be.
Lost(k, c) ==
    /\ c \in net[k] /\ c.phase \in {"sent", "answered"} /\ lost < MaxLost
    /\ Refuse(k, c)
    /\ lost' = lost + 1
=============================================================================
