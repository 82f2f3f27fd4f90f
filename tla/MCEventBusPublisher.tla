------------------------- MODULE MCEventBusPublisher -------------------------
(* Three bus topics: two mapped to different Kafka topics, one mapping     *)
(* without a kafka_topic entry, and one topic with no mapping at all.      *)
EXTENDS EventBusPublisher

CONSTANTS alarms, kpis, logs, health, none, m1, m2

MCBusTopics == {alarms, kpis, logs, health}
MCMappings  == (alarms :> "voltha.alarms") @@ (kpis :> "voltha.kpis") @@ (logs :> none)
=============================================================================
