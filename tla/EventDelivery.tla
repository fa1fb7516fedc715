--------------------------- MODULE EventDelivery ---------------------------
(***************************************************************************)
(* What backbone-outbox promises, without tables, relays or retries: an    *)
(* event exists once its state change is committed, every consumer's       *)
(* effect of it happens at most once, and only for an event that exists,   *)
(* and an event is reported delivered only after every consumer's effect.  *)
(***************************************************************************)
EXTENDS Naturals

CONSTANTS Events, Consumers

VARIABLES
    raised,     \* events whose state change is committed
    effects,    \* how often each consumer has seen the effect of each event
    delivered   \* events reported as delivered

evars == <<raised, effects, delivered>>

Init ==
    /\ raised = {}
    /\ effects = [k \in Consumers \X Events |-> 0]
    /\ delivered = {}

Raise(e) ==
    /\ raised' = raised \cup {e}
    /\ UNCHANGED <<effects, delivered>>

Effect(c, e) ==
    /\ e \in raised
    /\ effects[<<c, e>>] = 0
    /\ effects' = [effects EXCEPT ![<<c, e>>] = 1]
    /\ UNCHANGED <<raised, delivered>>

Report(e) ==
    /\ \A c \in Consumers : effects[<<c, e>>] = 1
    /\ delivered' = delivered \cup {e}
    /\ UNCHANGED <<raised, effects>>

Next == \E e \in Events : \/ Raise(e)
                          \/ \E c \in Consumers : Effect(c, e)
                          \/ Report(e)

Spec == Init /\ [][Next]_evars
=============================================================================
