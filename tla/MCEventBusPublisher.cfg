CONSTANTS
    alarms = alarms
    kpis = kpis
    logs = logs
    health = health
    none = none
    m1 = m1
    m2 = m2
    BusTopics <- MCBusTopics
    Mappings <- MCMappings
    NoKafkaTopic = none
    Msgs = {m1, m2}
    MaxEvents = 3
SPECIFICATION Spec
\* Every run ends once MaxEvents messages are posted.
CHECK_DEADLOCK FALSE
INVARIANT TypeOK ForwardsEachMappedMessageToItsTopic
