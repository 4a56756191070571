----------------------------- MODULE RpcRegistry -----------------------------
(***************************************************************************)
(* What YomkRpcService promises its callers: a registry of nodes and of    *)
(* their publishing and subscribing endpoints, in which a request either   *)
(* takes its whole effect and answers "ok", or changes nothing and answers *)
(* "no".                                                                   *)
(***************************************************************************)
EXTENDS Naturals

CONSTANTS Names, TopicNames, Types

Endpoint == [node : Names, topic : TopicNames, type : Types, side : {"pub", "sub"}]

VARIABLES
    live,       \* names of the nodes that exist
    endpoints,  \* what they publish and subscribe
    answer      \* the last answer

vars == <<live, endpoints, answer>>

Init == live = {} /\ endpoints = {} /\ answer = "none"

Create(n) ==
    /\ n \notin live
    /\ live' = live \cup {n} /\ answer' = "ok"
    /\ UNCHANGED endpoints

Delete(n) ==
    /\ n \in live
    /\ live' = live \ {n} /\ answer' = "ok"
    /\ endpoints' = {e \in endpoints : e.node # n}

SameTopic(e, f) == e.node = f.node /\ e.topic = f.topic

\* A node publishes, and subscribes, a topic at most once, and gives it one type.
Register(e) ==
    /\ e.node \in live
    /\ \A f \in endpoints : SameTopic(e, f) => f.side # e.side /\ f.type = e.type
    /\ endpoints' = endpoints \cup {e} /\ answer' = "ok"
    /\ UNCHANGED live

\* A publication, a loan or its return succeeds: only on an endpoint that publishes.
Use(e) ==
    /\ e \in endpoints /\ e.side = "pub"
    /\ answer' = "ok"
    /\ UNCHANGED <<live, endpoints>>

Refuse == answer' = "no" /\ UNCHANGED <<live, endpoints>>

Next ==
    \/ \E n \in Names : Create(n) \/ Delete(n)
    \/ \E e \in Endpoint : Register(e) \/ Use(e)
    \/ Refuse

Spec == Init /\ [][Next]_vars

\* Both sides of a topic have one type, and endpoints belong to nodes that exist.
OneTypePerTopic ==
    /\ live \subseteq Names /\ endpoints \subseteq Endpoint
    /\ \A e \in endpoints : e.node \in live
    /\ \A e, f \in endpoints : SameTopic(e, f) => e.type = f.type
=============================================================================
