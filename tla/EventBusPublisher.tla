-------------------------- MODULE EventBusPublisher --------------------------
(***************************************************************************)
(* EventBusPublisher of src/voltha/northbound/kafka/event_bus_publisher.py *)
(* forwards messages posted on selected internal event-bus topics to       *)
(* Kafka.  start runs _setup_subscriptions, which walks the topic_mappings *)
(* dict (in whatever order iteritems gives) and subscribes a callback per  *)
(* mapping that names a kafka_topic.  The event bus (EventBusClient)       *)
(* calls, for each publish, every callback subscribed to the topic, in     *)
(* subscription order.                                                      *)
(***************************************************************************)
EXTENDS Integers, Sequences, SequencesExt

CONSTANTS
    BusTopics,      \* internal event-bus topics messages are posted on
    Mappings,       \* topic_mappings: bus topic -> its mapping's kafka_topic
    NoKafkaTopic,   \* mapping.get('kafka_topic', None) finding no entry
    Msgs,           \* messages posted
    MaxEvents       \* bound on posted messages

ASSUME DOMAIN Mappings \subseteq BusTopics /\ MaxEvents \in Nat

VARIABLES
    started,        \* start has run
    kafka_topic,    \* the loop variable of _setup_subscriptions after the loop
    subscriptions,  \* the event bus's subscribers: [topic, k], in order
    published,      \* history: messages posted, [topic, msg, live]
    sent            \* kafka_proxy.send_message calls: [kafka_topic, msg]

vars == <<started, kafka_topic, subscriptions, published, sent>>

Init ==
    /\ started = FALSE
    /\ kafka_topic = NoKafkaTopic
    /\ subscriptions = <<>>
    /\ published = <<>>
    /\ sent = <<>>

\* The loop turn without the None check and its continue.
SetupOneNoSkip(st, t) ==
    [kafka_topic |-> Mappings[t],
     subs |-> Append(st.subs, [topic |-> t, k |-> Mappings[t]])]

(***************************************************************************)
(* One turn of the loop: kafka_topic = mapping.get('kafka_topic', None);    *)
(* none -> log and continue; else subscribe(event_bus_topic, lambda _, m,  *)
(* k=kafka_topic: self.forward(k, m)), k bound at subscription.            *)
(***************************************************************************)
SetupOne(st, t) ==
    LET k == Mappings[t] IN
    [kafka_topic |-> k,
     subs |-> IF k = NoKafkaTopic THEN st.subs ELSE Append(st.subs, [topic |-> t, k |-> k])]

\* start -> _setup_subscriptions(self.topic_mappings), for one iteritems order.
start ==
    /\ ~started
    /\ \E order \in SetToSeqs(DOMAIN Mappings) :
          LET r == FoldLeft(SetupOne, [kafka_topic |-> kafka_topic, subs |-> subscriptions], order)
          IN  /\ kafka_topic' = r.kafka_topic
              /\ subscriptions' = r.subs
    /\ started' = TRUE
    /\ UNCHANGED <<published, sent>>

\* The callback as the lambda would be without the k=kafka_topic default:
\* it reads the loop variable when it runs.
CallbackLateBound(sub, m) == [kafka_topic |-> kafka_topic, msg |-> m]

\* The subscribed lambda: forward(k, m) -> kafka_proxy.send_message(k, m).
Callback(sub, m) == [kafka_topic |-> sub.k, msg |-> m]

\* A message posted on the event bus reaches every callback of its topic.
Publish(t, m) ==
    LET subs == SelectSeq(subscriptions, LAMBDA s : s.topic = t) IN
    /\ Len(published) < MaxEvents
    /\ published' = Append(published, [topic |-> t, msg |-> m, live |-> started])
    /\ sent' = sent \o [i \in DOMAIN subs |-> Callback(subs[i], m)]
    /\ UNCHANGED <<started, kafka_topic, subscriptions>>

Next ==
    \/ start
    \/ \E t \in BusTopics, m \in Msgs : Publish(t, m)

Spec == Init /\ [][Next]_vars

-----------------------------------------------------------------------------
\* The Kafka topics the mappings name: what send_message may be given.
KafkaTopics == Range(Mappings) \ {NoKafkaTopic}

TypeOK ==
    /\ started \in BOOLEAN
    /\ subscriptions \in Seq([topic : DOMAIN Mappings, k : KafkaTopics])
    /\ published \in Seq([topic : BusTopics, msg : Msgs, live : BOOLEAN])
    /\ sent \in Seq([kafka_topic : KafkaTopics, msg : Msgs])

(***************************************************************************)
(* What the gateway is for, and what the default argument of the lambda   *)
(* (against Python's late binding) protects: the Kafka sends are exactly   *)
(* the messages posted after start on a topic whose mapping names a        *)
(* kafka_topic, in posting order, each to that mapping's kafka_topic.      *)
(***************************************************************************)
ForwardsEachMappedMessageToItsTopic ==
    LET due == SelectSeq(published, LAMBDA e : /\ e.live
                                               /\ e.topic \in DOMAIN Mappings
                                               /\ Mappings[e.topic] # NoKafkaTopic)
    IN  sent = [i \in DOMAIN due |-> [kafka_topic |-> Mappings[due[i].topic],
                                       msg |-> due[i].msg]]
=============================================================================
