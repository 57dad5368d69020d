----------------------------- MODULE EventQueue -----------------------------
(***************************************************************************)
(* The Kafka producer of each naisd pod (pkg/kafka).  The deploy handlers  *)
(* put one event per deploy into a bounded channel; one goroutine,         *)
(* ProducerLoop, takes them out and sends them to the topic one at a time. *)
(* An event that cannot be sent is logged and dropped, and the channel is  *)
(* gone with its pod.                                                      *)
(***************************************************************************)
EXTENDS Naturals, Sequences

CONSTANTS Pods,      \* the naisd pods
          Events,    \* the events, each named by the deploy it tells of
          NoEvent,   \* what a producer with nothing to send is sending
          Capacity   \* of the channel SendQueue, 4096 in the code

ASSUME CapacityAssumption == Capacity \in Nat \ {0}
ASSUME NoEventAssumption == NoEvent \notin Events

VARIABLES queue,     \* SendQueue of each pod
          sending,   \* the event each ProducerLoop is in SendMessage with
          topic,     \* what the broker has stored
          dropped    \* events that were logged as not sent, or died with a pod

eventVars == <<queue, sending, topic, dropped>>

EventsTypeOK == /\ queue \in [Pods -> Seq(Events)]
                /\ \A p \in Pods : Len(queue[p]) <= Capacity
                /\ sending \in [Pods -> Events \cup {NoEvent}]
                /\ topic \in Seq(Events)
                /\ dropped \subseteq Events

EventsInit == /\ queue = [p \in Pods |-> <<>>]
              /\ sending = [p \in Pods |-> NoEvent]
              /\ topic = <<>>
              /\ dropped = {}

InTopic(e) == \E i \in DOMAIN topic : topic[i] = e

\* Waiting in a channel, or in the hands of a ProducerLoop.
Underway(e) == \E p \in Pods : \/ sending[p] = e
                               \/ \E i \in DOMAIN queue[p] : queue[p][i] = e

\* Client.Send: the handler blocks while the channel is full.
Send(p, e) == /\ Len(queue[p]) < Capacity
              /\ queue' = [queue EXCEPT ![p] = Append(@, e)]
              /\ UNCHANGED <<sending, topic, dropped>>

\* A plausible bug: the channel is emptied from its newest end.
TakeNewest(p) == /\ sending[p] = NoEvent
                 /\ queue[p] # <<>>
                 /\ sending' = [sending EXCEPT ![p] = queue[p][Len(queue[p])]]
                 /\ queue' = [queue EXCEPT ![p] = SubSeq(@, 1, Len(@) - 1)]
                 /\ UNCHANGED <<topic, dropped>>

Take(p) == /\ sending[p] = NoEvent
           /\ queue[p] # <<>>
           /\ sending' = [sending EXCEPT ![p] = Head(queue[p])]
           /\ queue' = [queue EXCEPT ![p] = Tail(@)]
           /\ UNCHANGED <<topic, dropped>>

\* A plausible bug: the loop takes its next event and sent this one nowhere.
DeliverNothing(p) == /\ sending[p] # NoEvent
                     /\ sending' = [sending EXCEPT ![p] = NoEvent]
                     /\ UNCHANGED <<queue, topic, dropped>>

\* SendMessage succeeds: all in-sync replicas have the message.
Deliver(p) == /\ sending[p] # NoEvent
              /\ topic' = Append(topic, sending[p])
              /\ sending' = [sending EXCEPT ![p] = NoEvent]
              /\ UNCHANGED <<queue, dropped>>

\* The broker stored the message but its answer got lost, and the producer,
\* which is not idempotent, tries again.
DeliverAgain(p) == /\ sending[p] # NoEvent
                   /\ topic' = Append(topic, sending[p])
                   /\ UNCHANGED <<queue, sending, dropped>>

\* SendMessage fails for good: the loop logs the error and goes on.
DeliveryFails(p) == /\ sending[p] # NoEvent
                    /\ dropped' = dropped \cup {sending[p]}
                    /\ sending' = [sending EXCEPT ![p] = NoEvent]
                    /\ UNCHANGED <<queue, topic>>

\* The pod dies; the one that takes its place has an empty channel.
LoseEvents(p) == /\ dropped' = dropped \cup ({queue[p][i] : i \in DOMAIN queue[p]}
                                               \cup ({sending[p]} \ {NoEvent}))
                 /\ queue' = [queue EXCEPT ![p] = <<>>]
                 /\ sending' = [sending EXCEPT ![p] = NoEvent]
                 /\ UNCHANGED topic
=============================================================================
