----------------------------- MODULE MCOutboxBus -----------------------------
(* Three deliveries: an event on two topics that share a consumer, and a    *)
(* second event on the first topic.                                        *)
EXTENDS OutboxBus, TLC

CONSTANTS c1, c2, e1, e2, w1, w2

MCTwoTopics == 1 :> e1 @@ 2 :> e1
MCTwoTopicsRoute == 1 :> <<c1, c2>> @@ 2 :> <<c1>>
MCTwoEvents == 1 :> e1 @@ 2 :> e2
MCTwoEventsRoute == 1 :> <<c1, c2>> @@ 2 :> <<c1>>
MCNoRoute == 1 :> <<c1, c2>> @@ 2 :> <<>>
=============================================================================
