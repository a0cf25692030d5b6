-------------------------------- MODULE EventBus -------------------------------
(***************************************************************************)
(* The event bus: how its single instance comes about, the two brokers it  *)
(* may sit on, the publication of an event, and the WebSocket routes that  *)
(* subscribe a handler for each client and never withdraw it.              *)
(*                                                                         *)
(* The bus publishes everything on one topic, the first of those a route   *)
(* subscribes to.  Steps are separated where the code awaits the Kafka     *)
(* client, the bus's lock, or a handler that sends to its client.          *)
(***************************************************************************)
EXTENDS Requests, Integers, SequencesExt

CONSTANTS
  Clients,
  EventTenants,    \* the tenants an event may belong to, None included
  TopicCount,      \* topics a route subscribes to
  EventLimit       \* bound: events emitted

ASSUME BusAssumption == TopicCount \in Nat \ {0} /\ EventLimit \in Nat

VARIABLES
  instance,    \* EventBus._instance: 0, or the index of a bus
  buses,       \* every bus made: its broker, and the handlers on the first topic
  emitters,    \* calls of emit_event under way
  clients,     \* the WebSocket routes: one per client
  received,    \* client -> the numbers of the events it was sent
  emitted,     \* events so far
  delivered,   \* the events whose publication ended, with its bus and the clients that
               \* were subscribed, on whatever bus, when it began
  consumers,   \* KafkaBroker: the consumers made, by topic; the last is _consumer
  loops        \* the tasks of _consume_loop

busVars == <<instance, buses, emitters, clients, received, emitted, delivered,
             consumers, loops>>

NotEmitting == [stage |-> "idle"]
Away == [stage |-> "away"]

BusInit ==
  /\ instance = 0
  /\ buses = <<>>
  /\ emitters = [c \in Calls |-> NotEmitting]
  /\ clients = [k \in Clients |-> Away]
  /\ received = [k \in Clients |-> <<>>]
  /\ emitted = 0
  /\ delivered = {}
  /\ consumers = <<>>
  /\ loops = <<>>

-----------------------------------------------------------------------------
\* The instance, and emit_event.

Subscribers == UNION {ToSet(buses[b].handlers) : b \in DOMAIN buses}

Published(b, event) ==
  [stage |-> "publishing", bus |-> b, event |-> event, next |-> 1, due |-> Subscribers]

LockHeld == \E c \in Calls : emitters[c].stage = "connecting"

\* get_instance returns the instance, or takes the lock to make one, or waits for the
\* lock.  With Kafka the publication leaves the state alone, and is left out.
Emit(c, tenant) ==
  LET event == [number |-> emitted + 1, tenant |-> tenant]
  IN  /\ emitters[c] = NotEmitting
      /\ emitted < EventLimit
      /\ instance # 0 => buses[instance].broker = "memory"
      /\ emitted' = emitted + 1
      /\ emitters' = [emitters EXCEPT ![c] =
           IF instance # 0 THEN Published(instance, event)
           ELSE [stage |-> IF LockHeld THEN "waiting" ELSE "connecting", event |-> event]]
      /\ UNCHANGED <<instance, buses, delivered>>
      /\ UNCHANGED <<clients, received, consumers, loops>>

\* initialize ends: a broker that cannot reach Kafka is replaced by one in memory.  The
\* new bus becomes the instance, whatever the instance is by now: a bus a client made
\* meanwhile is lost with its handlers.
Initialized(c, broker) ==
  /\ emitters[c].stage = "connecting"
  /\ buses' = Append(buses, [broker |-> broker, handlers |-> <<>>])
  /\ instance' = Len(buses) + 1
  /\ emitters' = [emitters EXCEPT ![c] =
       IF broker = "kafka" THEN NotEmitting ELSE Published(Len(buses) + 1, @.event)]
  /\ UNCHANGED <<emitted, delivered>>
  /\ UNCHANGED <<clients, received, consumers, loops>>

\* Those who waited for the lock find the instance made.
Proceed(c) ==
  /\ emitters[c].stage = "waiting" /\ ~ LockHeld
  /\ emitters' = [emitters EXCEPT ![c] =
       IF buses[instance].broker = "kafka" THEN NotEmitting
       ELSE Published(instance, @.event)]
  /\ UNCHANGED <<instance, buses, emitted, delivered>>
  /\ UNCHANGED <<clients, received, consumers, loops>>

\* A handler of the command center compares the tenants before it sends.  A client that
\* is gone raises, and the error is swallowed.
Accepts(k, event) ==
  /\ clients[k].stage # "away" /\ clients[k].stage # "gone"
  /\ \/ clients[k].route = "events"
     \/ clients[k].tenant = None \/ event.tenant = None
     \/ clients[k].tenant = event.tenant

\* InMemoryBroker.publish awaits one handler after the other; handlers that are added
\* meanwhile have their turn.
Deliver(c) ==
  LET call == emitters[c]
      k == buses[call.bus].handlers[call.next]
  IN  /\ call.stage = "publishing" /\ call.next <= Len(buses[call.bus].handlers)
      /\ received' = IF Accepts(k, call.event)
                     THEN [received EXCEPT ![k] = Append(@, call.event.number)] ELSE received
      /\ emitters' = [emitters EXCEPT ![c].next = @ + 1]
      /\ UNCHANGED <<instance, buses, emitted, delivered>>
      /\ UNCHANGED <<clients, consumers, loops>>

EndPublish(c) ==
  LET call == emitters[c]
  IN  /\ call.stage = "publishing" /\ call.next > Len(buses[call.bus].handlers)
      /\ delivered' = delivered \cup
           {[number |-> call.event.number, bus |-> call.bus, due |-> call.due]}
      /\ emitters' = [emitters EXCEPT ![c] = NotEmitting]
      /\ UNCHANGED <<instance, buses, emitted>>
      /\ UNCHANGED <<clients, received, consumers, loops>>

-----------------------------------------------------------------------------
\* The routes /ws/events and /ws/command-center.

\* get_instance_sync makes a bus in memory when there is none, also while another is
\* being made ("during" tells who joined then).  In memory all the subscriptions are one
\* step; with Kafka each awaits the start of its consumer.
Join(k, route) ==
  LET b == IF instance = 0 THEN Len(buses) + 1 ELSE instance
      known == IF instance = 0
               THEN Append(buses, [broker |-> "memory", handlers |-> <<>>]) ELSE buses
      kafka == known[b].broker = "kafka"
  IN  /\ clients[k] = Away
      /\ instance' = b
      /\ buses' = IF kafka THEN known ELSE [known EXCEPT ![b].handlers = Append(@, k)]
      /\ clients' = [clients EXCEPT ![k] =
           [stage |-> IF kafka THEN "subscribing" ELSE "open", route |-> route,
            tenant |-> None, topic |-> 1, during |-> LockHeld]]
      /\ consumers' = IF kafka THEN Append(consumers, 1) ELSE consumers
      /\ UNCHANGED <<emitters, received, emitted, delivered, loops>>

\* A consumer has started, or failed to: the next topic's consumer replaces it before the
\* task that is to read from it has taken a step.
Subscribed(k, started) ==
  LET last == clients[k].topic = TopicCount
  IN  /\ clients[k].stage = "subscribing"
      /\ loops' = IF started
                  THEN Append(loops, [client |-> k, topic |-> clients[k].topic, reads |-> 0])
                  ELSE loops
      /\ clients' = [clients EXCEPT ![k].topic = IF last THEN @ ELSE @ + 1,
                                    ![k].stage = IF last THEN "open" ELSE @]
      /\ consumers' = IF last THEN consumers ELSE Append(consumers, clients[k].topic + 1)
      /\ UNCHANGED <<instance, buses, emitters, received, emitted, delivered>>

\* The first step of _consume_loop reads self._consumer.
LoopBegins(l) ==
  /\ loops[l].reads = 0
  /\ loops' = [loops EXCEPT ![l].reads = Len(consumers)]
  /\ UNCHANGED <<instance, buses, emitters, clients, received, emitted, delivered, consumers>>

SetTenant(k, tenant) ==
  /\ clients[k].stage = "open" /\ clients[k].tenant # tenant
  /\ tenant # None \/ clients[k].route = "command"
  /\ clients' = [clients EXCEPT ![k].tenant = tenant]
  /\ UNCHANGED <<instance, buses, emitters, received, emitted, delivered, consumers, loops>>

\* Mutant: the handlers are withdrawn, also from under a publication.
LeaveUnsubscribing(k) ==
  /\ clients[k].stage = "open"
  /\ clients' = [clients EXCEPT ![k].stage = "gone"]
  /\ buses' = [b \in DOMAIN buses |->
                [buses[b] EXCEPT !.handlers = SelectSeq(@, LAMBDA h : h # k)]]
  /\ UNCHANGED <<instance, emitters, received, emitted, delivered, consumers, loops>>

\* The client disconnects; its handlers stay subscribed.
Leave(k) ==
  /\ clients[k].stage = "open"
  /\ clients' = [clients EXCEPT ![k].stage = "gone"]
  /\ UNCHANGED <<instance, buses, emitters, received, emitted, delivered, consumers, loops>>

BusNext ==
  \/ \E c \in Calls :
       \/ \E tenant \in EventTenants : Emit(c, tenant)
       \/ \E broker \in {"kafka", "memory"} : Initialized(c, broker)
       \/ Proceed(c) \/ Deliver(c) \/ EndPublish(c)
  \/ \E k \in Clients :
       \/ \E route \in {"events", "command"} : Join(k, route)
       \/ \E started \in BOOLEAN : Subscribed(k, started)
       \/ \E tenant \in EventTenants : SetTenant(k, tenant)
       \/ Leave(k)
  \/ \E l \in DOMAIN loops : LoopBegins(l)

BusSpec == BusInit /\ [][BusNext]_busVars

-----------------------------------------------------------------------------
\* Properties.

\* However clients come and go while events are published and publications overlap, no
\* event was sent twice to anybody, and an event whose publication ended was sent to each
\* client of /ws/events that had subscribed before and is still there.  The only ones it
\* may have missed are those who joined while the instance was being made: theirs may be
\* the bus that was then overwritten.
SentOnce ==
  /\ \A k \in Clients : IsInjective(received[k])
  /\ \A d \in delivered : \A k \in d.due :
       clients[k].stage = "open" /\ clients[k].route = "events" =>
         \/ d.number \in ToSet(received[k])
         \/ clients[k].during /\ k \notin ToSet(buses[d.bus].handlers)
=============================================================================
