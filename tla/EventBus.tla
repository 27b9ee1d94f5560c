---------------------------------- MODULE EventBus ----------------------------------
(***************************************************************************)
(* src/core/events/event_bus.py: EventBus, over an asyncio.PriorityQueue.  *)
(*                                                                         *)
(* Publishers, the drain task and whoever starts and stops the bus share   *)
(* one thread and switch only where a call really suspends: in put() on a  *)
(* full queue, in get() on an empty one, and while handlers run.           *)
(*                                                                         *)
(* The queue is external.  What matters of it: put() takes a free place at *)
(* once, even if others wait for one; get() wakes the publisher that has   *)
(* waited longest, which looks again when it is scheduled, and waits again *)
(* behind everybody else if the place is gone.                             *)
(***************************************************************************)
EXTENDS Integers, Sequences, FiniteSets, SequencesExt, TLAPS

CONSTANTS
  Publishers,   \* tasks that call publish; an event carries its own as a history
  Priorities,   \* event_payload.priority.value; the smaller is dispatched first
  QueueSize,    \* max_queue_size
  MaxEvents,    \* bound: events published in a behaviour
  MaxStops      \* bound: calls to stop

ASSUME BusAssumption ==
  /\ Priorities \subseteq Nat
  /\ QueueSize \in Nat \ {0}
  /\ MaxEvents \in Nat /\ MaxStops \in Nat

VARIABLES
  running,     \* _is_running
  drain,       \* the drain task: "none", "waiting" in get(), "dispatching"
  heap,        \* _priority_queue: a set of events
  putting,     \* the event each publisher holds in put(), or NoEvent
  putters,     \* publishers asleep in put(), longest first
  nextSeq,     \* _publish_sequence
  handling,    \* the event whose handlers run
  failures,    \* _handler_failure_count
  stops,       \* history: calls to stop
  dispatched,  \* history: events handed to handlers, in order
  delayed      \* history: events that have waited for a place

queue == <<heap, putting, putters, delayed>>
history == <<stops, dispatched>>
vars == <<running, drain, queue, nextSeq, handling, failures, history>>

Event == [priority : Priorities, seq : Nat, by : Publishers]
NoEvent == [priority |-> 0, seq |-> -1]

\* Mutant: a heap entry without the sequence number.
BeforeByPriority(a, b) == a.priority <= b.priority

\* The order of the tuples on the heap.
Before(a, b) ==
  a.priority < b.priority \/ (a.priority = b.priority /\ a.seq < b.seq)

TypeOK ==
  /\ running \in BOOLEAN
  /\ drain \in {"none", "waiting", "dispatching"}
  /\ heap \subseteq Event /\ Cardinality(heap) <= QueueSize
  /\ putting \in [Publishers -> Event \cup {NoEvent}]
  /\ putters \in Seq(Publishers)
  /\ nextSeq \in Nat
  /\ handling \in Event \cup {NoEvent}
  /\ failures \in Nat /\ stops \in Nat
  /\ dispatched \in Seq(Event)
  /\ delayed \subseteq Event

Init ==
  /\ running = FALSE /\ drain = "none"
  /\ heap = {}
  /\ putting = [p \in Publishers |-> NoEvent] /\ putters = <<>>
  /\ nextSeq = 0
  /\ handling = NoEvent
  /\ failures = 0 /\ stops = 0
  /\ dispatched = <<>> /\ delayed = {}

Full == Cardinality(heap) >= QueueSize

-----------------------------------------------------------------------------
\* start: the lifecycle manager's bootstrap calls it once, a restart after stop.
Start ==
  /\ ~running
  /\ running' = TRUE
  /\ drain' = "waiting"
  /\ UNCHANGED <<queue, nextSeq, handling, failures, history>>

\* stop: the drain task is cancelled where it is, in get() or among its handlers.
Stop ==
  /\ running
  /\ stops < MaxStops
  /\ stops' = stops + 1
  /\ running' = FALSE
  /\ drain' = "none"
  /\ handling' = NoEvent
  /\ UNCHANGED <<queue, nextSeq, failures, dispatched>>

-----------------------------------------------------------------------------
\* Mutant: put_nowait with its QueueFull swallowed.
PutOrDrop(p, e) ==
  /\ heap' = IF Full THEN heap ELSE heap \cup {e}
  /\ putting' = [putting EXCEPT ![p] = NoEvent]
  /\ UNCHANGED <<putters, delayed>>

\* put(): a free place is taken at once, otherwise the publisher goes to sleep.
Put(p, e) ==
  IF Full
  THEN /\ putting' = [putting EXCEPT ![p] = e]
       /\ putters' = Append(putters, p)
       /\ delayed' = delayed \cup {e}
       /\ UNCHANGED heap
  ELSE /\ heap' = heap \cup {e}
       /\ putting' = [putting EXCEPT ![p] = NoEvent]
       /\ UNCHANGED <<putters, delayed>>

\* publish: the sequence number is taken before the queue is found to be full.
Publish(p) ==
  /\ running
  /\ putting[p] = NoEvent
  /\ nextSeq < MaxEvents
  /\ nextSeq' = nextSeq + 1
  /\ \E n \in Priorities : Put(p, [priority |-> n, seq |-> nextSeq, by |-> p])
  /\ UNCHANGED <<running, drain, handling, failures, history>>

\* A woken publisher is scheduled: it does not look at _is_running again.
Resume(p) ==
  /\ putting[p] # NoEvent
  /\ p \notin ToSet(putters)
  /\ Put(p, putting[p])
  /\ UNCHANGED <<running, drain, nextSeq, handling, failures, history>>

-----------------------------------------------------------------------------
\* _drain_queue_loop: get() returns the first event and wakes one publisher.
Get ==
  /\ drain = "waiting"
  /\ \E e \in heap :
       /\ \A f \in heap \ {e} : Before(e, f)
       /\ heap' = heap \ {e}
       /\ handling' = e
       /\ dispatched' = Append(dispatched, e)
  /\ drain' = "dispatching"
  /\ putters' = IF putters = <<>> THEN <<>> ELSE Tail(putters)
  /\ UNCHANGED <<running, putting, delayed, nextSeq, failures, stops>>

\* gather has all results; a handler that raised is counted and nothing more.
Handled ==
  /\ drain = "dispatching"
  /\ \E failed \in {0, 1} : failures' = failures + failed
  /\ handling' = NoEvent
  /\ drain' = "waiting"
  /\ UNCHANGED <<running, queue, nextSeq, history>>

Next ==
  \/ Start \/ Stop
  \/ \E p \in Publishers : Publish(p) \/ Resume(p)
  \/ Get \/ Handled

Spec == Init /\ [][Next]_vars

-----------------------------------------------------------------------------
(***************************************************************************)
(* Properties.                                                             *)
(***************************************************************************)

\* A published event is in one place, and was dispatched at most once, however its
\* publisher slept and however often the bus was stopped and started meanwhile: a
\* publisher asleep or just woken holds it, or the queue does, or it was dispatched.
InOnePlace ==
  LET held == {putting[p] : p \in Publishers} \ {NoEvent}
  IN  /\ IsInjective(dispatched)
      /\ {e.seq : e \in heap \cup held \cup ToSet(dispatched)} = 0 .. nextSeq - 1
      /\ heap \cap held = {}
      /\ (heap \cup held) \cap ToSet(dispatched) = {}

\* What holds with several publishers: only an event that had to wait for a place
\* is overtaken by a later one of its priority.
FifoUnlessDelayed ==
  \A i, j \in DOMAIN dispatched :
    /\ i < j /\ dispatched[i].priority = dispatched[j].priority
    /\ dispatched[i].seq > dispatched[j].seq
    => dispatched[j] \in delayed

\* And nobody overtakes himself: what one publisher publishes with one priority
\* arrives in that order, across a full queue and across stop and start (the
\* replay engine is the only publisher of its bus).
FifoPerPublisher ==
  \A i, j \in DOMAIN dispatched :
    /\ i < j /\ dispatched[i].priority = dispatched[j].priority
    /\ dispatched[i].by = dispatched[j].by
    => dispatched[i].seq < dispatched[j].seq

-----------------------------------------------------------------------------
(***************************************************************************)
(* Proofs.  Who published an event is what keeps the places apart and the  *)
(* order right: a publisher holds at most one event, and it is his latest. *)
(***************************************************************************)

Held == {putting[p] : p \in Publishers} \ {NoEvent}
Published == heap \cup Held \cup ToSet(dispatched)

PlacesInv ==
  /\ nextSeq \in Nat
  /\ heap \subseteq Event
  /\ DOMAIN putting = Publishers
  /\ \A p \in Publishers : putting[p] # NoEvent => putting[p] \in Event /\ putting[p].by = p
  /\ dispatched \in Seq(Event)
  /\ InOnePlace

OrderInv ==
  /\ \A p \in Publishers : putting[p] # NoEvent =>
       /\ putting[p] \in delayed
       /\ \A e \in heap \cup ToSet(dispatched) : e.by = p => e.seq < putting[p].seq
  /\ \A i \in DOMAIN dispatched, e \in heap : dispatched[i].priority = e.priority =>
       /\ dispatched[i].by = e.by => dispatched[i].seq < e.seq
       /\ dispatched[i].seq > e.seq => e \in delayed
  /\ FifoPerPublisher
  /\ FifoUnlessDelayed

LEMMA Appended ==
  ASSUME NEW s \in Seq(Event), NEW e \in Event
  PROVE  /\ Append(s, e) \in Seq(Event)
         /\ DOMAIN s = 1 .. Len(s) /\ Len(s) \in Nat
         /\ DOMAIN Append(s, e) = 1 .. Len(s) + 1
         /\ Append(s, e)[Len(s) + 1] = e
         /\ \A i \in DOMAIN s : Append(s, e)[i] = s[i]
         /\ ToSet(Append(s, e)) = ToSet(s) \cup {e}
<1>1. /\ Append(s, e) \in Seq(Event) /\ DOMAIN s = 1 .. Len(s) /\ Len(s) \in Nat
      /\ DOMAIN Append(s, e) = 1 .. Len(s) + 1
      /\ Append(s, e)[Len(s) + 1] = e
      /\ \A i \in DOMAIN s : Append(s, e)[i] = s[i]
  OBVIOUS
<1>2. ToSet(Append(s, e)) = ToSet(s) \cup {e}
  BY <1>1 DEF ToSet
<1> QED
  BY <1>1, <1>2

LEMMA EventsAreNumbered == ASSUME NEW e \in Event PROVE e.priority \in Int /\ e.seq \in Int
<1>1. e \in [priority : Priorities, seq : Nat, by : Publishers]
  BY DEF Event
<1>2. e.priority \in Priorities
  BY <1>1
<1>3. \A n \in Priorities : n \in Int
  BY BusAssumption
<1>4. e.seq \in Nat
  BY <1>1
<1> QED
  BY <1>2, <1>3, <1>4

\* An event just numbered is nowhere yet.
LEMMA FreshEvent ==
  ASSUME PlacesInv, NEW e \in Event, e.seq = nextSeq
  PROVE  e \notin Published /\ e # NoEvent /\ \A f \in Published : f.seq < nextSeq
<1>1. \A f \in Published : f.seq \in 0 .. nextSeq - 1
  BY DEF PlacesInv, InOnePlace, Published, Held
<1>2. e.seq \notin 0 .. nextSeq - 1 /\ e.seq # -1
  BY DEF PlacesInv, Event
<1> QED
  BY <1>1, <1>2 DEF NoEvent, PlacesInv

\* Put by a publisher who holds nothing, or what he holds, keeps an event in one place.
LEMMA PutPlaces ==
  ASSUME NEW p \in Publishers, NEW e \in Event, Put(p, e), e.by = p,
         DOMAIN putting = Publishers, heap \subseteq Event,
         \A q \in Publishers : putting[q] # NoEvent => putting[q] \in Event /\ putting[q].by = q,
         e \notin heap, putting[p] \in {NoEvent, e}
  PROVE  /\ heap' \subseteq Event
         /\ DOMAIN putting' = Publishers
         /\ \A q \in Publishers : putting'[q] # NoEvent => putting'[q] \in Event /\ putting'[q].by = q
         /\ heap' \cup Held' = heap \cup Held \cup {e}
         /\ heap \cap Held = {} => heap' \cap Held' = {}
<1>0. e # NoEvent /\ \A q \in Publishers : q # p => putting[q] # e
  BY DEF Event, NoEvent
<1>1. CASE Full
  <2>1. heap' = heap /\ putting' = [putting EXCEPT ![p] = e]
    BY <1>1 DEF Put
  <2>2. Held' = Held \cup {e}
    BY <1>0, <2>1 DEF Held
  <2> QED
    BY <2>1, <2>2, <1>0
<1>2. CASE ~Full
  <2>1. heap' = heap \cup {e} /\ putting' = [putting EXCEPT ![p] = NoEvent]
    BY <1>2 DEF Put
  <2>2. Held' = Held \ {e}
    BY <1>0, <2>1 DEF Held
  <2> QED
    BY <2>1, <2>2, <1>0
<1> QED
  BY <1>1, <1>2

LEMMA PlacesStep == PlacesInv /\ [Next]_vars => PlacesInv'
<1> SUFFICES ASSUME PlacesInv, [Next]_vars PROVE PlacesInv'
  OBVIOUS
<1>0. InOnePlace <=>
        /\ IsInjective(dispatched)
        /\ {e.seq : e \in Published} = 0 .. nextSeq - 1
        /\ heap \cap Held = {}
        /\ (heap \cup Held) \cap ToSet(dispatched) = {}
  BY DEF InOnePlace, Published, Held
<1>00. InOnePlace' <=>
        /\ IsInjective(dispatched')
        /\ {e.seq : e \in Published'} = 0 .. nextSeq' - 1
        /\ heap' \cap Held' = {}
        /\ (heap' \cup Held') \cap ToSet(dispatched') = {}
  BY DEF InOnePlace, Published, Held
<1>1. ASSUME UNCHANGED <<heap, putting, nextSeq, dispatched>> PROVE PlacesInv'
  BY <1>1 DEF PlacesInv, InOnePlace
<1>2. CASE Start
  BY <1>1, <1>2 DEF Start, queue, history
<1>3. CASE Stop
  BY <1>1, <1>3 DEF Stop, queue
<1>4. ASSUME NEW p \in Publishers, Publish(p) PROVE PlacesInv'
  <2>1. PICK n \in Priorities : Put(p, [priority |-> n, seq |-> nextSeq, by |-> p])
    BY <1>4 DEF Publish
  <2> DEFINE e == [priority |-> n, seq |-> nextSeq, by |-> p]
  <2>2. e \in Event /\ e.by = p /\ e.seq = nextSeq
    BY DEF Event, PlacesInv
  <2>3. putting[p] = NoEvent /\ nextSeq' = nextSeq + 1 /\ dispatched' = dispatched
    BY <1>4 DEF Publish, history
  <2> HIDE DEF e
  <2>4. e \notin Published
    BY <2>2, FreshEvent
  <2>5. /\ heap' \subseteq Event /\ DOMAIN putting' = Publishers
        /\ \A q \in Publishers : putting'[q] # NoEvent => putting'[q] \in Event /\ putting'[q].by = q
        /\ heap' \cup Held' = heap \cup Held \cup {e}
        /\ heap' \cap Held' = {}
    BY <1>0, <2>1, <2>2, <2>3, <2>4, PutPlaces DEF PlacesInv, Published, e
  <2>6. Published' = Published \cup {e}
    BY <2>3, <2>5 DEF Published
  <2>7. {f.seq : f \in Published'} = 0 .. nextSeq' - 1
    <3>1. {f.seq : f \in Published} = 0 .. nextSeq - 1
      BY <1>0 DEF PlacesInv
    <3>2. {f.seq : f \in Published'} = {f.seq : f \in Published} \cup {nextSeq}
      BY <2>2, <2>6
    <3>3. nextSeq \in Nat /\ (0 .. nextSeq - 1) \cup {nextSeq} = 0 .. nextSeq + 1 - 1
      BY DEF PlacesInv
    <3> QED
      BY <2>3, <3>1, <3>2, <3>3
  <2>8. (heap' \cup Held') \cap ToSet(dispatched') = {}
    BY <1>0, <2>3, <2>4, <2>5 DEF PlacesInv, Published
  <2> QED
    BY <1>0, <1>00, <2>3, <2>5, <2>7, <2>8 DEF PlacesInv
<1>5. ASSUME NEW p \in Publishers, Resume(p) PROVE PlacesInv'
  <2> DEFINE e == putting[p]
  <2>1. e # NoEvent /\ Put(p, e) /\ nextSeq' = nextSeq /\ dispatched' = dispatched
    BY <1>5 DEF Resume, history
  <2>2. e \in Event /\ e.by = p /\ e \in Held
    BY <2>1 DEF PlacesInv, Held
  <2>3. e \notin heap
    BY <1>0, <2>2 DEF PlacesInv
  <2>4. putting[p] \in {NoEvent, e}
    OBVIOUS
  <2> HIDE DEF e
  <2>5. /\ heap' \subseteq Event /\ DOMAIN putting' = Publishers
        /\ \A q \in Publishers : putting'[q] # NoEvent => putting'[q] \in Event /\ putting'[q].by = q
        /\ heap' \cup Held' = heap \cup Held \cup {e}
        /\ heap' \cap Held' = {}
    BY <1>0, <2>1, <2>2, <2>3, <2>4, PutPlaces DEF PlacesInv
  <2>6. heap' \cup Held' = heap \cup Held
    BY <2>2, <2>5
  <2>7. Published' = Published
    BY <2>1, <2>6 DEF Published
  <2> QED
    BY <1>0, <1>00, <2>1, <2>5, <2>6, <2>7 DEF PlacesInv
<1>6. CASE Get
  <2>1. PICK e \in heap : heap' = heap \ {e} /\ dispatched' = Append(dispatched, e)
    BY <1>6 DEF Get
  <2>2. UNCHANGED <<putting, nextSeq>> /\ Held' = Held
    BY <1>6 DEF Get, Held
  <2>3. e \in Event
    BY DEF PlacesInv
  <2>4. ToSet(dispatched') = ToSet(dispatched) \cup {e} /\ dispatched' \in Seq(Event)
    BY <2>1, <2>3, Appended DEF PlacesInv
  <2>5. Published' = Published
    BY <2>1, <2>2, <2>4 DEF Published
  <2>6. e \notin ToSet(dispatched)
    BY <1>0 DEF PlacesInv
  <2>7. IsInjective(dispatched')
    <3>1. IsInjective(dispatched) /\ dispatched \in Seq(Event)
      BY <1>0 DEF PlacesInv
    <3>2. \A i \in DOMAIN dispatched : dispatched[i] # e
      BY <2>6 DEF ToSet
    <3>3. /\ DOMAIN dispatched = 1 .. Len(dispatched) /\ Len(dispatched) \in Nat
          /\ DOMAIN dispatched' = 1 .. Len(dispatched) + 1
          /\ dispatched'[Len(dispatched) + 1] = e
          /\ \A i \in DOMAIN dispatched : dispatched'[i] = dispatched[i]
      BY <2>1, <2>3, <3>1, Appended
    <3> QED
      BY <3>1, <3>2, <3>3 DEF IsInjective
  <2>8. heap' \cap Held' = {} /\ (heap' \cup Held') \cap ToSet(dispatched') = {}
    BY <1>0, <2>1, <2>2, <2>4 DEF PlacesInv
  <2> QED
    BY <1>0, <1>00, <2>1, <2>2, <2>4, <2>5, <2>7, <2>8 DEF PlacesInv
<1>7. CASE Handled
  BY <1>1, <1>7 DEF Handled, queue, history
<1>8. CASE UNCHANGED vars
  BY <1>1, <1>8 DEF vars, queue, history
<1> QED
  BY <1>2, <1>3, <1>4, <1>5, <1>6, <1>7, <1>8 DEF Next

\* Put of a publisher's latest event keeps the order, if it waited or is the latest of all.
LEMMA PutOrder ==
  ASSUME PlacesInv, OrderInv, NEW p \in Publishers, NEW e \in Event, Put(p, e), dispatched' = dispatched,
         e.by = p,
         \A f \in heap \cup ToSet(dispatched) : f.by = p => f.seq < e.seq,
         \A f \in ToSet(dispatched) : f.seq > e.seq => e \in delayed
  PROVE  OrderInv'
<1>1. \A f \in heap \cup ToSet(dispatched) : f \in Event
  BY DEF PlacesInv, ToSet
<1>2. \A i \in DOMAIN dispatched : dispatched[i] \in ToSet(dispatched)
  BY DEF ToSet
<1>3. DOMAIN putting = Publishers
  BY DEF PlacesInv
<1>4. \A q \in Publishers : q # p /\ putting[q] # NoEvent => putting[q].by = q
  BY DEF PlacesInv
<1>5. CASE Full
  <2>1. heap' = heap /\ putting' = [putting EXCEPT ![p] = e] /\ delayed' = delayed \cup {e}
    BY <1>5 DEF Put
  <2> QED
    BY <1>3, <2>1 DEF OrderInv, FifoPerPublisher, FifoUnlessDelayed
<1>6. CASE ~Full
  <2>1. heap' = heap \cup {e} /\ putting' = [putting EXCEPT ![p] = NoEvent] /\ delayed' = delayed
    BY <1>6 DEF Put
  <2>2. \A q \in Publishers : putting'[q] # NoEvent =>
          /\ putting'[q] \in delayed'
          /\ \A f \in heap' \cup ToSet(dispatched') : f.by = q => f.seq < putting'[q].seq
    BY <1>3, <2>1 DEF OrderInv
  <2>3. \A i \in DOMAIN dispatched', f \in heap' : dispatched'[i].priority = f.priority =>
          /\ dispatched'[i].by = f.by => dispatched'[i].seq < f.seq
          /\ dispatched'[i].seq > f.seq => f \in delayed'
    BY <1>2, <2>1 DEF OrderInv
  <2>4. (FifoPerPublisher /\ FifoUnlessDelayed)'
    BY <2>1 DEF OrderInv, FifoPerPublisher, FifoUnlessDelayed
  <2> QED
    BY <2>2, <2>3, <2>4 DEF OrderInv
<1> QED
  BY <1>5, <1>6

LEMMA OrderStep == PlacesInv /\ OrderInv /\ [Next]_vars => OrderInv'
<1> SUFFICES ASSUME PlacesInv, OrderInv, [Next]_vars PROVE OrderInv'
  OBVIOUS
<1>1. ASSUME UNCHANGED <<heap, putting, dispatched, delayed>> PROVE OrderInv'
  BY <1>1 DEF OrderInv, FifoPerPublisher, FifoUnlessDelayed
<1>2. CASE Start
  BY <1>1, <1>2 DEF Start, queue, history
<1>3. CASE Stop
  BY <1>1, <1>3 DEF Stop, queue
<1>4. ASSUME NEW p \in Publishers, Publish(p) PROVE OrderInv'
  <2>1. PICK n \in Priorities : Put(p, [priority |-> n, seq |-> nextSeq, by |-> p])
    BY <1>4 DEF Publish
  <2> DEFINE e == [priority |-> n, seq |-> nextSeq, by |-> p]
  <2>2. e \in Event /\ e.by = p /\ e.seq = nextSeq
    BY DEF Event, PlacesInv
  <2>3. dispatched' = dispatched
    BY <1>4 DEF Publish, history
  <2> HIDE DEF e
  <2>4. \A f \in Published : f.seq < e.seq /\ f \in Event
    BY <2>2, FreshEvent DEF Published, Held, PlacesInv, ToSet
  <2>5. \A f \in heap \cup ToSet(dispatched) : f.seq < e.seq /\ ~(f.seq > e.seq)
    BY <2>2, <2>4 DEF Published, Event
  <2> QED
    BY <2>1, <2>2, <2>3, <2>5, PutOrder DEF e
<1>5. ASSUME NEW p \in Publishers, Resume(p) PROVE OrderInv'
  <2>1. putting[p] # NoEvent /\ Put(p, putting[p]) /\ dispatched' = dispatched
    BY <1>5 DEF Resume, history
  <2>2. putting[p] \in Event /\ putting[p].by = p
    BY <2>1 DEF PlacesInv
  <2>3. /\ putting[p] \in delayed
        /\ \A f \in heap \cup ToSet(dispatched) : f.by = p => f.seq < putting[p].seq
    BY <2>1 DEF OrderInv
  <2> QED
    BY <2>1, <2>2, <2>3, PutOrder
<1>6. CASE Get
  <2>1. PICK e \in heap :
          /\ \A f \in heap \ {e} : Before(e, f)
          /\ heap' = heap \ {e} /\ dispatched' = Append(dispatched, e)
    BY <1>6 DEF Get
  <2>2. UNCHANGED <<putting, delayed>>
    BY <1>6 DEF Get
  <2>3. e \in Event /\ heap \subseteq Event /\ dispatched \in Seq(Event)
    BY DEF PlacesInv
  <2>4. /\ DOMAIN dispatched = 1 .. Len(dispatched) /\ Len(dispatched) \in Nat
        /\ DOMAIN dispatched' = 1 .. Len(dispatched) + 1
        /\ dispatched'[Len(dispatched) + 1] = e
        /\ \A i \in DOMAIN dispatched : dispatched'[i] = dispatched[i]
        /\ ToSet(dispatched') = ToSet(dispatched) \cup {e}
    BY <2>1, <2>3, Appended
  <2>5. \A p \in Publishers : putting'[p] # NoEvent =>
          /\ putting'[p] \in delayed'
          /\ \A f \in heap' \cup ToSet(dispatched') : f.by = p => f.seq < putting'[p].seq
    BY <2>1, <2>2, <2>4 DEF OrderInv
  <2>6. \A f \in heap' : e.priority = f.priority => e.seq < f.seq /\ ~(e.seq > f.seq)
    <3>1. ASSUME NEW f \in heap', e.priority = f.priority PROVE e.seq < f.seq
      <4>1. Before(e, f)
        BY <2>1
      <4>2. e.priority \in Int
        BY <2>3, EventsAreNumbered
      <4> QED
        BY <3>1, <4>1, <4>2 DEF Before
    <3> QED
      BY <2>1, <2>3, <3>1 DEF Event
  <2>7. \A i \in DOMAIN dispatched', f \in heap' : dispatched'[i].priority = f.priority =>
          /\ dispatched'[i].by = f.by => dispatched'[i].seq < f.seq
          /\ dispatched'[i].seq > f.seq => f \in delayed'
    <3> SUFFICES ASSUME NEW i \in DOMAIN dispatched', NEW f \in heap', dispatched'[i].priority = f.priority
                 PROVE  /\ dispatched'[i].by = f.by => dispatched'[i].seq < f.seq
                        /\ dispatched'[i].seq > f.seq => f \in delayed'
      OBVIOUS
    <3>1. CASE i = Len(dispatched) + 1
      BY <3>1, <2>4, <2>6
    <3>2. CASE i \in DOMAIN dispatched
      BY <3>2, <2>1, <2>2, <2>4 DEF OrderInv
    <3> QED
      BY <3>1, <3>2, <2>4
  <2>8. (FifoPerPublisher /\ FifoUnlessDelayed)'
    <3> SUFFICES ASSUME NEW i \in DOMAIN dispatched', NEW j \in DOMAIN dispatched', i < j,
                        dispatched'[i].priority = dispatched'[j].priority
                 PROVE  /\ dispatched'[i].by = dispatched'[j].by => dispatched'[i].seq < dispatched'[j].seq
                        /\ dispatched'[i].seq > dispatched'[j].seq => dispatched'[j] \in delayed'
      BY DEF FifoPerPublisher, FifoUnlessDelayed
    <3>1. i \in DOMAIN dispatched /\ dispatched'[i] = dispatched[i]
      BY <2>4
    <3>2. CASE j = Len(dispatched) + 1
      BY <3>1, <3>2, <2>2, <2>4 DEF OrderInv
    <3>3. CASE j \in DOMAIN dispatched
      BY <3>1, <3>3, <2>2, <2>4 DEF OrderInv, FifoPerPublisher, FifoUnlessDelayed
    <3> QED
      BY <3>2, <3>3, <2>4
  <2> QED
    BY <2>5, <2>7, <2>8 DEF OrderInv
<1>7. CASE Handled
  BY <1>1, <1>7 DEF Handled, queue, history
<1>8. CASE UNCHANGED vars
  BY <1>1, <1>8 DEF vars, queue, history
<1> QED
  BY <1>2, <1>3, <1>4, <1>5, <1>6, <1>7, <1>8 DEF Next

LEMMA BusHolds == Spec => [](PlacesInv /\ OrderInv)
<1>1. Init => PlacesInv /\ OrderInv
  <2> SUFFICES ASSUME Init PROVE PlacesInv /\ OrderInv
    OBVIOUS
  <2>1. /\ heap = {} /\ nextSeq = 0 /\ dispatched = <<>> /\ DOMAIN putting = Publishers
        /\ \A p \in Publishers : putting[p] = NoEvent
    BY DEF Init
  <2>2. Held = {} /\ ToSet(dispatched) = {} /\ DOMAIN dispatched = {} /\ dispatched \in Seq(Event)
    BY <2>1 DEF Held, ToSet
  <2>3. InOnePlace
    BY <2>1, <2>2 DEF InOnePlace, Held, IsInjective
  <2> QED
    BY <2>1, <2>2, <2>3 DEF PlacesInv, OrderInv, FifoPerPublisher, FifoUnlessDelayed
<1> QED
  BY <1>1, PlacesStep, OrderStep, PTL DEF Spec

\* No event is lost or doubled, with any number of publishers asleep on a full queue and the bus
\* stopped and started among them (event_bus.py, publish, stop, _drain_queue_loop).
THEOREM NothingIsLost == Spec => []InOnePlace
<1>1. PlacesInv => InOnePlace
  BY DEF PlacesInv
<1> QED
  BY <1>1, BusHolds, PTL

\* Only an event that waited for a place is overtaken within its priority (publish).
THEOREM OnlyDelayedAreOvertaken == Spec => []FifoUnlessDelayed
<1>1. OrderInv => FifoUnlessDelayed
  BY DEF OrderInv
<1> QED
  BY <1>1, BusHolds, PTL

\* One publisher's events of one priority are handled in the order he published them (publish).
THEOREM PublisherOrderIsKept == Spec => []FifoPerPublisher
<1>1. OrderInv => FifoPerPublisher
  BY DEF OrderInv
<1> QED
  BY <1>1, BusHolds, PTL
====================================================================================
