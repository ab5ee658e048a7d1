---------------------------- MODULE EventChannel ----------------------------
(***************************************************************************)
(* What the delivery of target events promises its consumers: an event is  *)
(* announced on a queue only once its immutable object can be read, and is *)
(* settled only once every queue it is meant for has carried it.           *)
(***************************************************************************)

CONSTANTS
    Events,      \* target events
    Queues,      \* the queues of the consumers
    Subscribed   \* Subscribed[e]: the subset of Queues that e is meant for

VARIABLES
    accepted,    \* events the producer has handed over
    readable,    \* events whose object holds exactly that event
    announced,   \* <<e, q>>: queue q carried e at least once
    settled      \* events that will not be sent again on purpose

channelVars == <<accepted, readable, announced, settled>>

ChannelInit == accepted = {} /\ readable = {} /\ announced = {} /\ settled = {}

Accept(e) ==
    /\ accepted' = accepted \union {e}
    /\ UNCHANGED <<readable, announced, settled>>

MakeReadable(e) ==
    /\ e \in accepted
    /\ readable' = readable \union {e}
    /\ UNCHANGED <<accepted, announced, settled>>

Announce(e, q) ==
    /\ e \in readable /\ q \in Subscribed[e]
    /\ announced' = announced \union {<<e, q>>}
    /\ UNCHANGED <<accepted, readable, settled>>

Settle(e) ==
    /\ \A q \in Subscribed[e] : <<e, q>> \in announced
    /\ settled' = settled \union {e}
    /\ UNCHANGED <<accepted, readable, announced>>

ChannelNext ==
    \E e \in Events :
        \/ Accept(e) \/ MakeReadable(e) \/ Settle(e)
        \/ \E q \in Queues : Announce(e, q)

ChannelSpec == ChannelInit /\ [][ChannelNext]_channelVars
=============================================================================
