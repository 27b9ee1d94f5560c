------------------------------ MODULE ExecutionRouter_proofs ------------------------------
(***************************************************************************)
(* Theorems about the execution router, for every set of requests, every   *)
(* assignment of keys, every queue size and every broker the constants     *)
(* allow.                                                                  *)
(***************************************************************************)
EXTENDS ExecutionRouter, SequenceTheorems, TLAPS

LEMMA StatusFacts ==
  /\ {"PENDING_SUBMIT", "ACKNOWLEDGED", "FILLED", "REJECTED"} \subseteq Statuses
  /\ "absent" \notin Statuses /\ "none" \notin Statuses
  /\ \A s \in Statuses : Lifecycle!Allowed[s] \subseteq Statuses
BY DEF Statuses, Lifecycle!Statuses, Lifecycle!Allowed, Lifecycle!Terminal

\* What the worker may leave behind when it gives up or takes up a request.
LEMMA WorkerTypes ==
  ASSUME TypeOK, NEW todo \in Seq(Requests), Len(todo) <= QueueSize,
         NEW book \in [Requests -> Statuses \cup {"absent"}],
         RouteHead(todo, book) \/ DropAll(book) \/ StopAtCheck(todo, book)
  PROVE  /\ queue' \in Seq(Requests) /\ Len(queue') <= QueueSize
         /\ worker' \in {"waiting", "routing", "stopped"}
         /\ current' \in Requests \cup {NoRequest}
         /\ worker' = "routing" => current' \in Requests
         /\ ledger' \in [Requests -> Statuses \cup {"absent"}]
         /\ sent' \in [Requests -> Nat] /\ late' \in Nat
<1>1. CASE RouteHead(todo, book)
  <2>1. /\ Head(todo) \in Requests /\ Tail(todo) \in Seq(Requests)
        /\ Len(Tail(todo)) <= QueueSize
    BY <1>1, HeadTailProperties, LenProperties, RouterAssumption DEF RouteHead
  <2> QED
    BY <1>1, <2>1, StatusFacts DEF RouteHead, TypeOK
<1>2. CASE DropAll(book)
  BY <1>2, RouterAssumption DEF DropAll, TypeOK, history
<1>3. CASE StopAtCheck(todo, book)
  BY <1>3 DEF StopAtCheck, TypeOK, history
<1> QED
  BY <1>1, <1>2, <1>3

LEMMA RecordedType ==
  ASSUME TypeOK, NEW q \in Requests, NEW s \in Statuses
  PROVE  Recorded(q, s) \in [Requests -> Statuses \cup {"absent"}]
BY StatusFacts DEF Recorded, TypeOK

\* Every variable keeps its type; in particular the execution queue never holds more
\* than its bound and a routing worker always has a request.
THEOREM TypeCorrect == Spec => []TypeOK
<1>1. Init => TypeOK
  <2>1. /\ <<>> \in Seq(Requests) /\ <<>> \in Seq(Requests \X Statuses)
        /\ Len(<<>>) <= QueueSize
    BY RouterAssumption, EmptySeq
  <2> SUFFICES ASSUME Init
               PROVE  TypeOK
    OBVIOUS
  <2>2. queue \in Seq(Requests) /\ Len(queue) <= QueueSize /\ stream \in Seq(Requests \X Statuses)
    BY <2>1 DEF Init
  <2>3. /\ ledger \in [Requests -> Statuses \cup {"absent"}]
        /\ sent \in [Requests -> Nat] /\ late \in Nat /\ {waited, raised} \subseteq BOOLEAN
        /\ atBroker \in [Requests -> Statuses \cup {"none"}]
        /\ reply \in [Requests -> Statuses \cup {"none"}]
    BY DEF Init
  <2>4. /\ halted \in BOOLEAN /\ terminated \in BOOLEAN /\ consumer \in BOOLEAN
        /\ registry \subseteq Keys /\ open \subseteq Requests
        /\ worker \in {"waiting", "routing", "stopped"} /\ worker # "routing"
        /\ current \in Requests \cup {NoRequest}
        /\ recon \in {"asleep", "empty", "stopped"} /\ posCount \in {0, 1}
    BY DEF Init
  <2> QED
    BY <2>2, <2>3, <2>4 DEF TypeOK
<1>2. TypeOK /\ [Next]_vars => TypeOK'
  <2> SUFFICES ASSUME TypeOK, [Next]_vars
               PROVE  TypeOK'
    OBVIOUS
  <2> USE DEF intake, routing, history, brokerVars
  <2>0. queue \in Seq(Requests) /\ Len(queue) <= QueueSize /\ Len(queue) \in Nat
    BY LenProperties DEF TypeOK
  <2>1. ASSUME NEW q \in Requests, Submit(q)
        PROVE  TypeOK'
    <3>1. Len(queue) < QueueSize =>
            Append(queue, q) \in Seq(Requests) /\ Len(Append(queue, q)) <= QueueSize
      BY <2>0, AppendProperties, RouterAssumption
    <3> QED
      BY <2>1, <3>1, RouterAssumption DEF Submit, TypeOK
  <2>2. CASE Halt
    BY <2>2 DEF Halt, TypeOK
  <2>3. CASE Terminate
    BY <2>3 DEF Terminate, TypeOK
  <2>4. CASE Take
    <3>1. /\ queue # <<>>
          /\ \/ RouteHead(queue, ledger)
             \/ StopAtCheck(Tail(queue), ledger)
             \/ DropAll(ledger)
          /\ UNCHANGED <<intake, consumer, recon, posCount, waited, raised, brokerVars>>
      BY <2>4 DEF Take
    <3>2. Tail(queue) \in Seq(Requests) /\ Len(Tail(queue)) <= QueueSize
      BY <2>0, <3>1, HeadTailProperties, RouterAssumption
    <3>3. ledger \in [Requests -> Statuses \cup {"absent"}]
      BY DEF TypeOK
    <3> QED
      BY <2>0, <3>1, <3>2, <3>3, WorkerTypes DEF TypeOK
  <2>5. CASE Return \/ TransportFails
    <3>1. PICK s \in Statuses :
            /\ Proceed(queue, Recorded(current, s))
            /\ raised' \in {raised, TRUE}
            /\ UNCHANGED <<intake, consumer, recon, posCount, waited, brokerVars>>
      BY <2>5, StatusFacts DEF Return, TransportFails, TypeOK
    <3>2. current \in Requests
      BY <2>5 DEF Return, TransportFails, TypeOK
    <3>3. Recorded(current, s) \in [Requests -> Statuses \cup {"absent"}]
      BY <3>2, RecordedType
    <3> QED
      BY <2>0, <3>1, <3>3, WorkerTypes DEF Proceed, TypeOK
  <2>6. CASE Consume
    <3>1. PICK q \in Requests, s \in Statuses : Head(stream) = <<q, s>>
      BY <2>6, HeadTailProperties DEF Consume, TypeOK
    <3>2. Tail(stream) \in Seq(Requests \X Statuses)
      BY <2>6, HeadTailProperties DEF Consume, TypeOK
    <3>3. ledger' \in [Requests -> Statuses \cup {"absent"}]
      <4>1. ledger' = [ledger EXCEPT ![q] = s] \/ ledger' = ledger
        <5>1. Head(stream)[1] = q /\ Head(stream)[2] = s
          BY <3>1
        <5> QED
          BY <2>6, <5>1 DEF Consume
      <4> QED
        BY <4>1 DEF TypeOK
    <3>4. consumer' \in BOOLEAN /\ posCount' \in {0, 1} /\ stream' = Tail(stream)
      BY <2>6 DEF Consume, TypeOK
    <3>5. UNCHANGED <<intake, routing, recon, history, atBroker, reply, open>>
      BY <2>6 DEF Consume
    <3> QED
      BY <3>2, <3>3, <3>4, <3>5 DEF TypeOK
  <2>7. CASE ReconQuery \/ ReconCorrect
    BY <2>7 DEF ReconQuery, ReconCorrect, AfterCycle, TypeOK
  <2>8. ASSUME NEW q \in Requests, BrokerAccepts(q)
        PROVE  TypeOK'
    <3>1. PICK s \in Statuses :
            /\ atBroker' = [atBroker EXCEPT ![q] = s]
            /\ reply' = [reply EXCEPT ![q] = s]
            /\ open' \in {open, open \cup {q}}
            /\ stream' \in {stream, Append(stream, <<q, s>>)}
            /\ UNCHANGED <<intake, routing, ledger, consumer, recon, posCount, history>>
      BY <2>8, StatusFacts DEF BrokerAccepts, Report
    <3>2. Append(stream, <<q, s>>) \in Seq(Requests \X Statuses)
      BY <3>1, AppendProperties DEF TypeOK
    <3> QED
      BY <3>1, <3>2 DEF TypeOK
  <2>9. ASSUME NEW q \in Requests, BrokerProgresses(q)
        PROVE  TypeOK'
    <3>1. atBroker[q] \in Statuses
      BY <2>9 DEF BrokerProgresses, TypeOK
    <3>2. PICK s \in Statuses :
            /\ atBroker' = [atBroker EXCEPT ![q] = s]
            /\ open' \in {open, open \cup {q}}
            /\ stream' = Append(stream, <<q, s>>)
            /\ UNCHANGED <<intake, routing, ledger, consumer, recon, posCount, history, reply>>
      BY <2>9, <3>1, StatusFacts DEF BrokerProgresses, Report
    <3>3. Append(stream, <<q, s>>) \in Seq(Requests \X Statuses)
      BY AppendProperties DEF TypeOK
    <3> QED
      BY <3>2, <3>3 DEF TypeOK
  <2>10. ASSUME NEW q \in Requests, BrokerRepeats(q)
         PROVE  TypeOK'
    <3>1. atBroker[q] \in Statuses
      BY <2>10 DEF BrokerRepeats, TypeOK
    <3>2. Append(stream, <<q, atBroker[q]>>) \in Seq(Requests \X Statuses)
      BY <3>1, AppendProperties DEF TypeOK
    <3> QED
      BY <2>10, <3>2 DEF BrokerRepeats, Report, TypeOK
  <2>11. CASE PositionCloses
    BY <2>11 DEF PositionCloses, TypeOK
  <2>12. CASE UNCHANGED vars
    BY <2>12 DEF vars, TypeOK
  <2> QED
    BY <2>1, <2>2, <2>3, <2>4, <2>5, <2>6, <2>7, <2>8, <2>9, <2>10, <2>11, <2>12
       DEF Next, Internal, Broker
<1> QED
  BY <1>1, <1>2, PTL DEF Spec

-----------------------------------------------------------------------------
(***************************************************************************)
(* The halt.  Once the flag is up, the worker takes at most one request    *)
(* more, the one it waited for, and then finds the flag; it never comes    *)
(* back to wait (HaltInv).                                                 *)
(***************************************************************************)
HaltInv ==
  /\ late <= (IF waited THEN 1 ELSE 0)
  /\ late = 1 => halted /\ worker # "waiting"
  /\ halted /\ worker = "waiting" => waited

\* After trigger_emergency_shutdown at most one submission begins, and none unless
\* the worker was waiting in get() at that moment.
THEOREM HaltLetsOneThrough == Spec => []OneAfterHalt
<1>1. Init => HaltInv
  BY DEF Init, HaltInv
<1>2. TypeOK /\ HaltInv /\ [Next]_vars => HaltInv'
  <2> SUFFICES ASSUME TypeOK, HaltInv, [Next]_vars
               PROVE  HaltInv'
    OBVIOUS
  <2> USE DEF intake, routing, history, brokerVars
  <2>0. late \in Nat /\ (late = 0 \/ late = 1) /\ waited \in BOOLEAN
    BY DEF TypeOK, HaltInv
  <2>1. CASE UNCHANGED <<late, halted, worker, waited>>
    BY <2>1 DEF HaltInv
  <2>2. CASE Halt
    <3>1. /\ halted' = TRUE /\ UNCHANGED <<late, worker>>
          /\ waited' = IF halted THEN waited ELSE worker = "waiting"
      BY <2>2 DEF Halt
    <3>2. CASE halted
      BY <2>0, <3>1, <3>2 DEF HaltInv
    <3>3. CASE ~halted
      <4>1. late = 0
        BY <2>0, <3>3 DEF HaltInv
      <4>2. waited' <=> worker = "waiting"
        BY <3>1, <3>3
      <4>3. late' = 0 /\ 0 <= (IF waited' THEN 1 ELSE 0)
        BY <3>1, <4>1
      <4> QED
        BY <3>1, <4>2, <4>3 DEF HaltInv
    <3> QED
      BY <3>2, <3>3
  <2>3. CASE Take
    <3>1. late = 0 /\ UNCHANGED <<halted, waited>> /\ (halted => waited)
      BY <2>0, <2>3 DEF Take, HaltInv
    <3>2. CASE RouteHead(queue, ledger)
      BY <2>0, <3>1, <3>2 DEF RouteHead, HaltInv
    <3>3. CASE StopAtCheck(Tail(queue), ledger) \/ DropAll(ledger)
      BY <2>0, <3>1, <3>3 DEF StopAtCheck, DropAll, HaltInv
    <3> QED
      BY <2>3, <3>2, <3>3 DEF Take
  <2>4. CASE Return \/ TransportFails
    <3>1. PICK book : Proceed(queue, book) /\ UNCHANGED <<halted, waited>>
      BY <2>4 DEF Return, TransportFails
    <3>2. CASE halted
      BY <2>0, <3>1, <3>2 DEF Proceed, StopAtCheck, HaltInv
    <3>3. CASE ~halted
      BY <2>0, <3>1, <3>3 DEF Proceed, RouteHead, DropAll, HaltInv
    <3> QED
      BY <3>2, <3>3
  <2>5. CASE Terminate
    BY <2>0, <2>5 DEF Terminate, HaltInv
  <2> QED
    BY <2>1, <2>2, <2>3, <2>4, <2>5
       DEF Next, Internal, Broker, Submit, Consume, ReconQuery, ReconCorrect, BrokerAccepts,
           BrokerProgresses, BrokerRepeats, PositionCloses, vars
<1>3. HaltInv => OneAfterHalt
  BY DEF HaltInv, OneAfterHalt
<1> QED
  BY <1>1, <1>2, <1>3, TypeCorrect, PTL DEF Spec

-----------------------------------------------------------------------------
(***************************************************************************)
(* Idempotency.  A key is spent when it is registered; what is queued or   *)
(* was sent has a registered key of its own, until terminate empties the   *)
(* registry, and then nothing is submitted or routed any more (KeyInv).    *)
(***************************************************************************)
Spent(k) == k \in registry \/ terminated

KeyInv ==
  /\ terminated => halted /\ worker = "stopped"
  /\ \A i \in 1 .. Len(queue) : Spent(KeyOf[queue[i]])
  /\ \A q \in Requests : sent[q] > 0 => Spent(KeyOf[q])
  /\ \A i, j \in 1 .. Len(queue) : KeyOf[queue[i]] = KeyOf[queue[j]] => i = j
  /\ \A i \in 1 .. Len(queue), q \in Requests : sent[q] > 0 => KeyOf[q] # KeyOf[queue[i]]
  /\ OncePerKey

\* What Tail leaves is what stood behind the head.
LEMMA TailShifts ==
  ASSUME NEW S, NEW s \in Seq(S), s # <<>>
  PROVE  /\ Tail(s) \in Seq(S) /\ Len(Tail(s)) = Len(s) - 1
         /\ Head(s) = s[1] /\ Head(s) \in S /\ 1 \in 1 .. Len(s)
         /\ \A i \in 1 .. Len(Tail(s)) :
              i \in Int /\ i + 1 \in 1 .. Len(s) /\ i + 1 # 1 /\ Tail(s)[i] = s[i + 1]
<1>1. Len(s) \in Nat /\ Len(s) >= 1
  BY LenProperties, EmptySeq
<1>2. Tail(s) \in Seq(S) /\ Len(Tail(s)) = Len(s) - 1 /\ Head(s) = s[1] /\ Head(s) \in S
  BY HeadTailProperties
<1>3. \A i \in 1 .. Len(Tail(s)) : Tail(s)[i] = s[i + 1]
  BY HeadTailProperties
<1> QED
  BY <1>1, <1>2, <1>3

\* A request leaves the queue for the broker.
LEMMA RouteKeepsKeys ==
  ASSUME TypeOK, KeyInv, NEW book, RouteHead(queue, book), worker # "stopped",
         UNCHANGED <<halted, terminated, registry>>
  PROVE  KeyInv'
<1> DEFINE h == Head(queue)
<1>1. /\ queue \in Seq(Requests) /\ queue # <<>> /\ Len(queue) \in Nat /\ Len(queue) >= 1
      /\ h = queue[1] /\ h \in Requests
      /\ Len(queue') = Len(queue) - 1
      /\ \A i \in 1 .. Len(queue') : queue'[i] = queue[i + 1]
  <2>1. queue \in Seq(Requests) /\ queue # <<>> /\ queue' = Tail(queue)
    BY DEF RouteHead, TypeOK
  <2>2. Len(queue) \in Nat /\ Len(queue) >= 1
    BY <2>1, EmptySeq, LenProperties
  <2> QED
    BY <2>1, <2>2, HeadTailProperties
<1>2. sent' = [sent EXCEPT ![h] = @ + 1] /\ sent \in [Requests -> Nat]
  BY DEF RouteHead, TypeOK
<1>3. ~terminated /\ worker' = "routing"
  BY DEF KeyInv, RouteHead
<1>4. sent[h] = 0
  BY <1>1, <1>2 DEF KeyInv
<1> HIDE DEF h
<1>5. \A q \in Requests : sent'[q] = (IF q = h THEN 1 ELSE sent[q])
  BY <1>1, <1>2, <1>4
<1>6. \A q \in Requests : sent'[q] > 0 => q = h \/ sent[q] > 0
  BY <1>5
<1>7. \A i \in 1 .. Len(queue') : i + 1 \in 1 .. Len(queue) /\ queue'[i] = queue[i + 1]
  BY <1>1
<1>8. 1 \in 1 .. Len(queue)
  BY <1>1
<1>9. \A i \in 1 .. Len(queue') : Spent(KeyOf[queue[i]])'
  BY <1>3, <1>7 DEF KeyInv, Spent
<1>10. \A q \in Requests : sent'[q] > 0 => Spent(KeyOf[q])'
  BY <1>1, <1>3, <1>6, <1>8 DEF KeyInv, Spent
<1>11. \A i, j \in 1 .. Len(queue') : KeyOf[queue'[i]] = KeyOf[queue'[j]] => i = j
  <2> SUFFICES ASSUME NEW i \in 1 .. Len(queue'), NEW j \in 1 .. Len(queue'),
                      KeyOf[queue'[i]] = KeyOf[queue'[j]]
               PROVE  i = j
    OBVIOUS
  <2>1. KeyOf[queue[i + 1]] = KeyOf[queue[j + 1]] /\ i + 1 \in 1 .. Len(queue) /\ j + 1 \in 1 .. Len(queue)
    BY <1>7
  <2>2. \A a, b \in 1 .. Len(queue) : KeyOf[queue[a]] = KeyOf[queue[b]] => a = b
    BY DEF KeyInv
  <2>3. i + 1 = j + 1
    BY <2>1, <2>2, Zenon
  <2>4. i \in Int /\ j \in Int
    BY <1>1
  <2> QED
    BY <2>3, <2>4
<1>12. \A i \in 1 .. Len(queue'), q \in Requests : sent'[q] > 0 => KeyOf[q] # KeyOf[queue'[i]]
  <2> SUFFICES ASSUME NEW i \in 1 .. Len(queue'), NEW q \in Requests, sent'[q] > 0
               PROVE  KeyOf[q] # KeyOf[queue[i + 1]]
    BY <1>7
  <2>1. CASE q = h
    <3>1. i + 1 # 1
      BY <1>1
    <3> QED
      BY <1>1, <1>7, <1>8, <2>1, <3>1 DEF KeyInv
  <2>2. CASE sent[q] > 0
    BY <1>7, <2>2 DEF KeyInv
  <2> QED
    BY <1>6, <2>1, <2>2
<1>13. OncePerKey'
  <2>1. \A q \in Requests : sent'[q] <= 1
    BY <1>2, <1>5 DEF KeyInv, OncePerKey
  <2>2. \A q \in Requests : sent[q] > 0 => KeyOf[q] # KeyOf[h]
    BY <1>1, <1>8 DEF KeyInv
  <2>3. \A a, b \in Requests :
          sent'[a] > 0 /\ sent'[b] > 0 /\ KeyOf[a] = KeyOf[b] => a = b
    BY <1>6, <2>2 DEF KeyInv, OncePerKey
  <2> QED
    BY <2>1, <2>3 DEF OncePerKey
<1> QED
  BY <1>3, <1>9, <1>10, <1>11, <1>12, <1>13 DEF KeyInv

\* The queue loses requests that are not sent.
LEMMA DropKeepsKeys ==
  ASSUME TypeOK, KeyInv, UNCHANGED <<halted, terminated, registry, sent>>,
         worker # "stopped" \/ UNCHANGED worker,
         queue' \in {queue, Tail(queue), <<>>}, queue # <<>> \/ queue' = queue
  PROVE  KeyInv'
<1>1. queue \in Seq(Requests) /\ Len(queue) \in Nat
  BY LenProperties DEF TypeOK
<1>2. terminated' => halted' /\ worker' = "stopped"
  BY DEF KeyInv
<1>3. OncePerKey' /\ \A q \in Requests : sent'[q] > 0 => Spent(KeyOf[q])'
  BY DEF KeyInv, OncePerKey, Spent
<1>4. CASE queue' = queue
  BY <1>2, <1>3, <1>4 DEF KeyInv, Spent
<1>5. CASE queue' = <<>>
  BY <1>2, <1>3, <1>5 DEF KeyInv
<1>6. CASE queue' = Tail(queue) /\ queue # <<>>
  <2>1. \A i \in 1 .. Len(queue') :
          i \in Int /\ i + 1 \in 1 .. Len(queue) /\ queue'[i] = queue[i + 1]
    BY <1>1, <1>6, TailShifts
  <2>2. \A i \in 1 .. Len(queue') : Spent(KeyOf[queue[i]])'
    <3>1. \A i \in 1 .. Len(queue) : Spent(KeyOf[queue[i]])
      BY DEF KeyInv
    <3> QED
      BY <2>1, <3>1 DEF Spent
  <2>3. \A i \in 1 .. Len(queue'), q \in Requests : sent'[q] > 0 => KeyOf[q] # KeyOf[queue'[i]]
    <3>1. \A i \in 1 .. Len(queue), q \in Requests : sent[q] > 0 => KeyOf[q] # KeyOf[queue[i]]
      BY DEF KeyInv
    <3> QED
      BY <2>1, <3>1
  <2>4. \A i, j \in 1 .. Len(queue') : KeyOf[queue'[i]] = KeyOf[queue'[j]] => i = j
    <3> SUFFICES ASSUME NEW i \in 1 .. Len(queue'), NEW j \in 1 .. Len(queue'),
                        KeyOf[queue'[i]] = KeyOf[queue'[j]]
                 PROVE  i = j
      OBVIOUS
    <3>1. KeyOf[queue[i + 1]] = KeyOf[queue[j + 1]] /\ i + 1 \in 1 .. Len(queue) /\ j + 1 \in 1 .. Len(queue)
      BY <2>1
    <3>2. \A a, b \in 1 .. Len(queue) : KeyOf[queue[a]] = KeyOf[queue[b]] => a = b
      BY DEF KeyInv
    <3>3. i + 1 = j + 1
      BY <3>1, <3>2, Zenon
    <3>4. i \in Int /\ j \in Int
      BY <2>1
    <3> QED
      BY <3>3, <3>4
  <2> QED
    BY <1>2, <1>3, <2>2, <2>3, <2>4 DEF KeyInv
<1> QED
  BY <1>4, <1>5, <1>6

LEMMA KeysAreSpent == Spec => []KeyInv
<1>1. Init => KeyInv
  BY DEF Init, KeyInv, OncePerKey
<1>2. TypeOK /\ KeyInv /\ [Next]_vars => KeyInv'
  <2> SUFFICES ASSUME TypeOK, KeyInv, [Next]_vars
               PROVE  KeyInv'
    OBVIOUS
  <2> USE DEF intake, routing, history, brokerVars
  <2>0. queue \in Seq(Requests) /\ Len(queue) \in Nat
    BY LenProperties DEF TypeOK
  <2>1. CASE UNCHANGED <<halted, terminated, registry, queue, worker, sent>>
    BY <2>1 DEF KeyInv, OncePerKey, Spent
  <2>2. CASE Halt
    BY <2>2 DEF Halt, KeyInv, OncePerKey, Spent
  <2>3. CASE Terminate
    BY <2>3 DEF Terminate, KeyInv, OncePerKey, Spent
  <2>4. ASSUME NEW q \in Requests, Submit(q)
        PROVE  KeyInv'
    <3>1. /\ ~halted /\ ~terminated /\ KeyOf[q] \notin registry
          /\ registry' = registry \cup {KeyOf[q]}
          /\ queue' \in {queue, Append(queue, q)}
          /\ UNCHANGED <<halted, terminated, worker, sent>>
      BY <2>4 DEF Submit, KeyInv
    <3>2. /\ \A i \in 1 .. Len(queue) : KeyOf[queue[i]] # KeyOf[q]
          /\ \A r \in Requests : sent[r] > 0 => KeyOf[r] # KeyOf[q]
      BY <3>1 DEF KeyInv, Spent
    <3>3. OncePerKey' /\ \A r \in Requests : sent'[r] > 0 => Spent(KeyOf[r])'
      BY <3>1 DEF KeyInv, OncePerKey, Spent
    <3>4. CASE queue' = queue
      BY <3>1, <3>3, <3>4 DEF KeyInv, Spent
    <3>5. CASE queue' = Append(queue, q)
      <4>1. /\ Len(queue') = Len(queue) + 1
            /\ \A i \in 1 .. Len(queue) : queue'[i] = queue[i]
            /\ queue'[Len(queue) + 1] = q
        BY <2>0, <3>5, AppendProperties
      <4>2. \A i \in 1 .. Len(queue') :
              i \in 1 .. Len(queue) \/ (i = Len(queue) + 1 /\ queue'[i] = q)
        BY <2>0, <4>1
      <4>3. \A i \in 1 .. Len(queue') : Spent(KeyOf[queue[i]])'
        <5> SUFFICES ASSUME NEW i \in 1 .. Len(queue')
                     PROVE  KeyOf[queue'[i]] \in registry'
          BY DEF Spent
        <5>1. CASE i \in 1 .. Len(queue)
          BY <3>1, <4>1, <5>1 DEF KeyInv, Spent
        <5>2. CASE queue'[i] = q
          BY <3>1, <5>2
        <5> QED
          BY <4>2, <5>1, <5>2
      <4>4. \A i, j \in 1 .. Len(queue') : KeyOf[queue'[i]] = KeyOf[queue'[j]] => i = j
        BY <3>2, <4>1, <4>2 DEF KeyInv
      <4>5. \A i \in 1 .. Len(queue'), r \in Requests :
              sent'[r] > 0 => KeyOf[r] # KeyOf[queue'[i]]
        BY <3>1, <3>2, <4>1, <4>2 DEF KeyInv
      <4> QED
        BY <3>1, <3>3, <4>3, <4>4, <4>5 DEF KeyInv, Spent
    <3> QED
      BY <3>1, <3>4, <3>5
  <2>5. CASE Take
    BY <2>5, RouteKeepsKeys, DropKeepsKeys DEF Take, StopAtCheck, DropAll
  <2>6. CASE Return \/ TransportFails
    <3>1. PICK book : Proceed(queue, book)
      BY <2>6 DEF Return, TransportFails
    <3>2. worker = "routing" /\ UNCHANGED <<halted, terminated, registry>>
      BY <2>6 DEF Return, TransportFails
    <3>3. CASE StopAtCheck(queue, book)
      BY <3>2, <3>3, DropKeepsKeys DEF StopAtCheck
    <3>4. CASE RouteHead(queue, book)
      BY <3>2, <3>4, RouteKeepsKeys
    <3>5. CASE DropAll(book)
      BY <3>2, <3>5, DropKeepsKeys DEF DropAll
    <3> QED
      BY <3>1, <3>3, <3>4, <3>5 DEF Proceed
  <2> QED
    BY <2>1, <2>2, <2>3, <2>4, <2>5, <2>6
       DEF Next, Internal, Broker, Consume, ReconQuery, ReconCorrect, BrokerAccepts,
           BrokerProgresses, BrokerRepeats, PositionCloses, vars
<1> QED
  BY <1>1, <1>2, TypeCorrect, PTL DEF Spec

\* One broker submission per idempotency key, for every pattern of resubmission,
\* overflow, halt and termination (submit_execution_intent and _worker_loop).
THEOREM KeysAreSentOnce == Spec => []OncePerKey
<1>1. KeyInv => OncePerKey
  BY DEF KeyInv
<1> QED
  BY <1>1, KeysAreSpent, PTL

-----------------------------------------------------------------------------
(***************************************************************************)
(* The ledger.  Until terminate, it holds exactly the orders that went out;*)
(* the broker knows and reports only those (LedgerInv).                    *)
(***************************************************************************)
LedgerInv ==
  /\ \A q \in Requests : atBroker[q] # "none" => sent[q] > 0
  /\ \A i \in 1 .. Len(stream) : sent[stream[i][1]] > 0
  /\ worker = "routing" => sent[current] > 0
  /\ ~terminated => \A q \in Requests : ledger[q] # "absent" <=> sent[q] > 0

\* A report added at the end, and the reports there are.
LEMMA StreamGrows ==
  ASSUME TypeOK, NEW e \in Requests \X Statuses, stream' = Append(stream, e)
  PROVE  /\ \A i \in 1 .. Len(stream) : i \in 1 .. Len(stream') /\ stream'[i] = stream[i]
         /\ \A i \in 1 .. Len(stream') :
              \/ i \in 1 .. Len(stream) /\ stream'[i] = stream[i]
              \/ i = Len(stream') /\ stream'[i] = e
         /\ Len(stream') \in 1 .. Len(stream')
         /\ \A i \in 1 .. Len(stream) : i # Len(stream')
<1>1. stream \in Seq(Requests \X Statuses) /\ Len(stream) \in Nat
  BY LenProperties DEF TypeOK
<1>2. /\ Len(stream') = Len(stream) + 1 /\ stream'[Len(stream) + 1] = e
      /\ \A i \in 1 .. Len(stream) : stream'[i] = stream[i]
  BY <1>1, AppendProperties
<1> QED
  BY <1>1, <1>2

LEMMA ReportTypes ==
  ASSUME TypeOK, NEW i \in 1 .. Len(stream)
  PROVE  /\ stream[i] \in Requests \X Statuses
         /\ stream[i][1] \in Requests /\ stream[i][2] \in Statuses
<1>1. stream[i] \in Requests \X Statuses
  <2>1. stream \in Seq(Requests \X Statuses)
    BY DEF TypeOK
  <2> QED
    BY <2>1, ElementOfSeq
<1> QED
  BY <1>1

\* What each step of the broker does to the account of an order.
LEMMA BrokerSteps ==
  ASSUME TypeOK, NEW q \in Requests,
         BrokerAccepts(q) \/ BrokerProgresses(q) \/ BrokerRepeats(q)
  PROVE  /\ \E s \in Statuses :
              /\ atBroker' = [atBroker EXCEPT ![q] = s]
              /\ stream' = Append(stream, <<q, s>>) \/ UNCHANGED stream
              /\ reply' = [reply EXCEPT ![q] = s] \/ UNCHANGED reply
              /\ \/ sent[q] > 0 /\ atBroker[q] = "none"
                 \/ s = atBroker[q] /\ UNCHANGED reply
                 \/ /\ atBroker[q] \in {"ACKNOWLEDGED", "PARTIALLY_FILLED"}
                    /\ s \in Lifecycle!Allowed[atBroker[q]] /\ UNCHANGED reply
         /\ UNCHANGED <<intake, routing, ledger, consumer, recon, posCount, history>>
<1>1. CASE BrokerAccepts(q)
  <2>1. PICK s \in {"ACKNOWLEDGED", "REJECTED", "FILLED"} :
          /\ atBroker' = [atBroker EXCEPT ![q] = s]
          /\ reply' = [reply EXCEPT ![q] = s]
          /\ stream' = Append(stream, <<q, s>>) \/ UNCHANGED stream
    BY <1>1 DEF BrokerAccepts, Report
  <2> QED
    BY <1>1, <2>1, StatusFacts DEF BrokerAccepts
<1>2. CASE BrokerProgresses(q)
  <2>1. atBroker[q] \in Statuses
    BY <1>2, StatusFacts DEF BrokerProgresses, TypeOK
  <2> QED
    BY <1>2, <2>1, StatusFacts DEF BrokerProgresses, Report
<1>3. CASE BrokerRepeats(q)
  <2>1. atBroker[q] \in Statuses /\ atBroker = [atBroker EXCEPT ![q] = atBroker[q]]
    BY <1>3 DEF BrokerRepeats, TypeOK
  <2> QED
    BY <1>3, <2>1 DEF BrokerRepeats, Report
<1> QED
  BY <1>1, <1>2, <1>3

\* A recorded answer adds no order to the ledger and drops none.
LEMMA RecordedKeeps ==
  ASSUME TypeOK, NEW q \in Requests, NEW s \in Statuses, ledger[q] # "absent"
  PROVE  /\ Recorded(q, s) \in [Requests -> Statuses \cup {"absent"}]
         /\ \A o \in Requests : o # q => Recorded(q, s)[o] = ledger[o]
         /\ Recorded(q, s)[q] \in Statuses
         /\ Lifecycle!ValidTransition(ledger[q], Recorded(q, s)[q])
<1>1. ledger[q] \in Statuses /\ ledger \in [Requests -> Statuses \cup {"absent"}]
  BY DEF TypeOK
<1>2. Lifecycle!ValidTransition(ledger[q], ledger[q])
  BY DEF Lifecycle!ValidTransition
<1> QED
  BY <1>1, <1>2, StatusFacts DEF Recorded, Accepts

LEMMA LedgerStep ==
  ASSUME TypeOK, KeyInv, LedgerInv, [Next]_vars
  PROVE  LedgerInv'
<1> USE DEF intake, routing, history, brokerVars
<1>0. /\ ledger \in [Requests -> Statuses \cup {"absent"}] /\ sent \in [Requests -> Nat]
      /\ atBroker \in [Requests -> Statuses \cup {"none"}]
  BY DEF TypeOK
<1>1. CASE UNCHANGED <<terminated, worker, current, ledger, sent, atBroker, stream>>
  BY <1>1 DEF LedgerInv
<1>2. CASE Terminate
  BY <1>2 DEF Terminate, LedgerInv
<1>3. ASSUME NEW book \in [Requests -> Statuses \cup {"absent"}],
             ~terminated => \A q \in Requests : book[q] = "absent" <=> ledger[q] = "absent",
             queue # <<>>,
             RouteHead(queue, book) \/ DropAll(book) \/ (\E t : StopAtCheck(t, book)),
             UNCHANGED <<terminated, brokerVars>>
      PROVE  LedgerInv'
  <2>1. CASE RouteHead(queue, book)
    <3> DEFINE h == Head(queue)
    <3>1. h \in Requests
      BY <1>3, HeadTailProperties DEF TypeOK
    <3>2. /\ current' = h /\ sent' = [sent EXCEPT ![h] = @ + 1]
          /\ ledger' = [book EXCEPT ![h] = "PENDING_SUBMIT"]
      BY <2>1 DEF RouteHead
    <3> HIDE DEF h
    <3>3. \A q \in Requests : sent'[q] > 0 <=> q = h \/ sent[q] > 0
      BY <1>0, <3>1, <3>2
    <3>4. \A q \in Requests : ledger'[q] = (IF q = h THEN "PENDING_SUBMIT" ELSE book[q])
      BY <1>3, <3>1, <3>2
    <3>5. \A i \in 1 .. Len(stream) : stream[i][1] \in Requests
      BY ReportTypes
    <3>6. /\ \A q \in Requests : atBroker'[q] # "none" => sent'[q] > 0
          /\ \A i \in 1 .. Len(stream') : sent'[stream'[i][1]] > 0
          /\ sent'[current'] > 0
      BY <1>3, <3>1, <3>2, <3>3, <3>5 DEF LedgerInv
    <3>7. ~terminated' => \A q \in Requests : ledger'[q] # "absent" <=> sent'[q] > 0
      BY <1>3, <3>3, <3>4 DEF LedgerInv
    <3> QED
      BY <3>6, <3>7 DEF LedgerInv
  <2>2. CASE DropAll(book) \/ (\E t : StopAtCheck(t, book))
    <3>1. ledger' = book /\ UNCHANGED sent /\ worker' # "routing"
      BY <2>2 DEF DropAll, StopAtCheck
    <3> QED
      BY <1>3, <3>1 DEF LedgerInv
  <2> QED
    BY <1>3, <2>1, <2>2
<1>4. CASE Take
  BY <1>0, <1>3, <1>4 DEF Take
<1>5. CASE Return \/ TransportFails
  <2>1. PICK s \in Statuses : Proceed(queue, Recorded(current, s))
    BY <1>5, StatusFacts DEF Return, TransportFails, TypeOK
  <2>2. current \in Requests /\ worker = "routing" /\ UNCHANGED <<terminated, brokerVars>>
    BY <1>5 DEF Return, TransportFails, TypeOK
  <2>3. ~terminated /\ ledger[current] # "absent"
    BY <2>2 DEF KeyInv, LedgerInv
  <2> DEFINE book == Recorded(current, s)
  <2>4. /\ book \in [Requests -> Statuses \cup {"absent"}]
        /\ \A q \in Requests : book[q] = "absent" <=> ledger[q] = "absent"
    BY <2>2, <2>3, RecordedKeeps, StatusFacts
  <2>5. Proceed(queue, book)
    BY <2>1
  <2> HIDE DEF book
  <2>6. CASE RouteHead(queue, book)
    BY <1>3, <2>2, <2>4, <2>6 DEF RouteHead
  <2>7. CASE DropAll(book) \/ StopAtCheck(queue, book)
    <3>1. ledger' = book /\ UNCHANGED sent /\ worker' # "routing"
      BY <2>7 DEF DropAll, StopAtCheck
    <3> QED
      BY <2>2, <2>4, <3>1 DEF LedgerInv
  <2> QED
    BY <2>5, <2>6, <2>7 DEF Proceed
<1>6. CASE Consume
  <2> DEFINE q == stream[1][1]
             s == stream[1][2]
  <2>1. /\ \A i \in 1 .. Len(stream') : i + 1 \in 1 .. Len(stream) /\ stream'[i] = stream[i + 1]
        /\ Head(stream) = stream[1] /\ 1 \in 1 .. Len(stream)
    BY <1>6, TailShifts DEF Consume, TypeOK
  <2>2. q \in Requests /\ s \in Statuses /\ sent[q] > 0
    BY <2>1, ReportTypes DEF LedgerInv
  <2>3. /\ ledger' = [ledger EXCEPT ![q] = s] \/ UNCHANGED ledger
        /\ UNCHANGED <<terminated, worker, current, sent, atBroker>>
    BY <1>6, <2>1 DEF Consume
  <2> HIDE DEF q, s
  <2>4. ~terminated' => \A o \in Requests : ledger'[o] # "absent" <=> sent'[o] > 0
    BY <1>0, <2>2, <2>3, StatusFacts DEF LedgerInv
  <2> QED
    BY <2>1, <2>3, <2>4 DEF LedgerInv
<1>7. ASSUME NEW q \in Requests, BrokerAccepts(q) \/ BrokerProgresses(q) \/ BrokerRepeats(q)
      PROVE  LedgerInv'
  <2>1. PICK s \in Statuses :
          /\ atBroker' = [atBroker EXCEPT ![q] = s]
          /\ stream' = Append(stream, <<q, s>>) \/ UNCHANGED stream
          /\ sent[q] > 0 \/ atBroker[q] # "none"
    BY <1>7, BrokerSteps, StatusFacts
  <2>2. UNCHANGED <<terminated, worker, current, ledger, sent>>
    BY <1>7, BrokerSteps
  <2>3. sent[q] > 0
    BY <2>1 DEF LedgerInv
  <2>4. \A i \in 1 .. Len(stream') : sent[stream'[i][1]] > 0
    <3>1. CASE UNCHANGED stream
      BY <3>1 DEF LedgerInv
    <3>2. CASE stream' = Append(stream, <<q, s>>)
      <4>1. \A i \in 1 .. Len(stream') :
              (i \in 1 .. Len(stream) /\ stream'[i] = stream[i]) \/ stream'[i] = <<q, s>>
        BY <3>2, StreamGrows
      <4> QED
        BY <2>3, <4>1 DEF LedgerInv
    <3> QED
      BY <2>1, <3>1, <3>2
  <2>5. \A o \in Requests : atBroker'[o] # "none" => sent[o] > 0
    BY <1>0, <2>1, <2>3 DEF LedgerInv
  <2> QED
    BY <2>2, <2>4, <2>5 DEF LedgerInv
<1> QED
  BY <1>1, <1>2, <1>4, <1>5, <1>6, <1>7
     DEF Next, Internal, Broker, Submit, Halt, ReconQuery, ReconCorrect, PositionCloses, vars

LEMMA LedgerHoldsSent == Spec => []LedgerInv
<1>1. Init => LedgerInv
  BY DEF Init, LedgerInv
<1>2. TypeOK /\ KeyInv /\ LedgerInv /\ [Next]_vars => LedgerInv'
  BY LedgerStep
<1> QED
  BY <1>1, <1>2, TypeCorrect, KeysAreSpent, PTL DEF Spec

\* The ledger as the table sees it (the substitution of the instance Lifecycle).
Shown == [q \in Requests |-> IF terminated THEN "forgotten" ELSE ledger[q]]

LEMMA MoveIsAllowed ==
  ASSUME ledger' \in [Requests -> Statuses \cup {"absent"}], ~terminated, ~terminated',
         \A q \in Requests :
           \/ ledger[q] = "absent" /\ ledger'[q] = "PENDING_SUBMIT"
           \/ ledger[q] \in Statuses /\ Lifecycle!ValidTransition(ledger[q], ledger'[q])
           \/ ledger'[q] = ledger[q]
  PROVE  Lifecycle!Next
<1>1. Shown' \in [Requests -> Statuses \cup {"absent"}]
  BY DEF Shown
<1>2. \A q \in Requests : Shown[q] = ledger[q] /\ Shown'[q] = ledger'[q]
  BY DEF Shown
<1>3. \A q \in Requests : Lifecycle!Begin(q) \/ Lifecycle!Advance(q) \/ Shown'[q] = Shown[q]
  BY <1>2 DEF Shown, Lifecycle!Begin, Lifecycle!Advance, Statuses
<1>4. Lifecycle!Move
  BY <1>1, <1>3 DEF Shown, Lifecycle!Move, Statuses
<1> QED
  BY <1>4 DEF Lifecycle!Next

LEMMA LifecycleStep ==
  ASSUME TypeOK, KeyInv, LedgerInv, [Next]_vars
  PROVE  Lifecycle!Next \/ UNCHANGED Shown
<1> USE DEF intake, routing, history, brokerVars
<1>0. ledger \in [Requests -> Statuses \cup {"absent"}]
  BY DEF TypeOK
<1>1. CASE UNCHANGED <<terminated, ledger>>
  BY <1>1 DEF Shown
<1>2. CASE terminated /\ UNCHANGED terminated
  BY <1>2 DEF Shown
<1>3. CASE Terminate
  <2>1. Shown' = [q \in Requests |-> "forgotten"]
    BY <1>3 DEF Terminate, Shown
  <2> QED
    BY <2>1 DEF Shown, Lifecycle!Next, Lifecycle!Close
<1>4. ASSUME NEW book \in [Requests -> Statuses \cup {"absent"}],
             ~terminated, UNCHANGED terminated, queue # <<>> \/ ledger' = book,
             \A q \in Requests :
               \/ ledger[q] \in Statuses /\ Lifecycle!ValidTransition(ledger[q], book[q])
               \/ book[q] = ledger[q],
             \A q \in Requests : sent[q] = 0 => book[q] = ledger[q],
             RouteHead(queue, book) \/ ledger' = book
      PROVE  Lifecycle!Next
  <2>1. CASE ledger' = book
    BY <1>4, <2>1, MoveIsAllowed
  <2>2. CASE RouteHead(queue, book)
    <3> DEFINE h == Head(queue)
    <3>1. /\ h \in Requests /\ h = queue[1] /\ 1 \in 1 .. Len(queue)
          /\ ledger' = [book EXCEPT ![h] = "PENDING_SUBMIT"]
      BY <2>2, TailShifts DEF RouteHead, TypeOK
    <3> HIDE DEF h
    <3>2. sent[h] = 0 /\ ledger[h] = "absent"
      <4>1. ~(sent[h] > 0)
        BY <3>1 DEF KeyInv
      <4> QED
        BY <1>4, <3>1, <4>1 DEF TypeOK, LedgerInv
    <3>3. ledger' \in [Requests -> Statuses \cup {"absent"}]
      BY <1>4, <3>1, StatusFacts
    <3>4. \A q \in Requests : ledger'[q] = (IF q = h THEN "PENDING_SUBMIT" ELSE book[q])
      BY <1>4, <3>1
    <3> QED
      BY <1>4, <3>2, <3>3, <3>4, MoveIsAllowed
  <2> QED
    BY <1>4, <2>1, <2>2
<1>5. CASE Take /\ ~terminated
  <2>1. UNCHANGED terminated /\ (RouteHead(queue, ledger) \/ ledger' = ledger)
    BY <1>5 DEF Take, StopAtCheck, DropAll
  <2> QED
    BY <1>0, <1>4, <1>5, <2>1 DEF Take
<1>6. CASE Return \/ TransportFails
  <2>1. PICK s \in Statuses : Proceed(queue, Recorded(current, s))
    BY <1>6, StatusFacts DEF Return, TransportFails, TypeOK
  <2>2. current \in Requests /\ worker = "routing" /\ UNCHANGED terminated
    BY <1>6 DEF Return, TransportFails, TypeOK
  <2>3. ~terminated /\ sent[current] > 0 /\ ledger[current] # "absent" /\ ledger[current] \in Statuses
    BY <1>0, <2>2 DEF KeyInv, LedgerInv
  <2> DEFINE book == Recorded(current, s)
  <2>4. /\ book \in [Requests -> Statuses \cup {"absent"}]
        /\ Lifecycle!ValidTransition(ledger[current], book[current])
        /\ \A q \in Requests : q # current => book[q] = ledger[q]
    BY <2>2, <2>3, RecordedKeeps
  <2>5. Proceed(queue, book)
    BY <2>1
  <2> HIDE DEF book
  <2>6. (queue # <<>> /\ RouteHead(queue, book)) \/ ledger' = book
    BY <2>5 DEF Proceed, RouteHead, StopAtCheck, DropAll
  <2>7. \A q \in Requests :
          \/ ledger[q] \in Statuses /\ Lifecycle!ValidTransition(ledger[q], book[q])
          \/ book[q] = ledger[q]
    BY <2>3, <2>4
  <2>8. \A q \in Requests : sent[q] = 0 => book[q] = ledger[q]
    BY <2>3, <2>4
  <2> QED
    BY <1>4, <2>2, <2>3, <2>4, <2>6, <2>7, <2>8
<1>7. CASE Consume /\ ~terminated
  <2> DEFINE q == stream[1][1]
             s == stream[1][2]
  <2>1. Head(stream) = stream[1] /\ 1 \in 1 .. Len(stream)
    BY <1>7, TailShifts DEF Consume, TypeOK
  <2>2. q \in Requests /\ s \in Statuses /\ ledger[q] # "absent" /\ ledger[q] \in Statuses
    BY <1>0, <1>7, <2>1, ReportTypes DEF LedgerInv
  <2>3. /\ UNCHANGED terminated
        /\ \/ Accepts(q, s) /\ ledger' = [ledger EXCEPT ![q] = s]
           \/ UNCHANGED ledger
    BY <1>7, <2>1 DEF Consume
  <2> HIDE DEF q, s
  <2>4. CASE Accepts(q, s) /\ ledger' = [ledger EXCEPT ![q] = s]
    <3>1. ledger' \in [Requests -> Statuses \cup {"absent"}]
      BY <1>0, <2>2, <2>4
    <3>2. Lifecycle!ValidTransition(ledger[q], s)
      BY <2>2, <2>4 DEF Accepts
    <3>3. \A o \in Requests : ledger'[o] = (IF o = q THEN s ELSE ledger[o])
      BY <1>0, <2>2, <2>4
    <3> QED
      BY <1>7, <2>2, <2>3, <3>1, <3>2, <3>3, MoveIsAllowed
  <2> QED
    BY <1>1, <2>3, <2>4
<1>8. ASSUME NEW q \in Requests, BrokerAccepts(q) \/ BrokerProgresses(q) \/ BrokerRepeats(q)
      PROVE  UNCHANGED <<terminated, ledger>>
  BY <1>8 DEF BrokerAccepts, BrokerProgresses, BrokerRepeats
<1>9. Take \/ Consume => UNCHANGED terminated
  BY DEF Take, Consume
<1> QED
  BY <1>1, <1>2, <1>3, <1>5, <1>6, <1>7, <1>8, <1>9
     DEF Next, Internal, Broker, Submit, Halt, ReconQuery, ReconCorrect, PositionCloses, vars

\* The router's ledger implements the lifecycle: from Begin to terminate, whatever the
\* worker and the stream consumer write into it, in whatever order, is a transition
\* the table of order_lifecycle.py allows (_update_local_ledger_state and the
\* fallback of _worker_loop).
THEOREM LedgerImplementsLifecycle == Spec => LedgerFollowsLifecycle
<1>1. Init => Lifecycle!Init
  BY DEF Init, Lifecycle!Init
<1>2. TypeOK /\ KeyInv /\ LedgerInv /\ [Next]_vars => [Lifecycle!Next]_Shown
  BY LifecycleStep
<1> QED
  BY <1>1, <1>2, TypeCorrect, KeysAreSpent, LedgerHoldsSent, PTL
     DEF Spec, LedgerFollowsLifecycle, Lifecycle!Spec, Shown

-----------------------------------------------------------------------------
(***************************************************************************)
(* Fills.  Whoever says FILLED has it from the broker, and an order filled *)
(* at the broker stays so: the answer, every report still on the stream    *)
(* and the ledger agree with it (FilledInv).                               *)
(***************************************************************************)
FilledInv ==
  /\ FilledIsTrue
  /\ \A q \in Requests : reply[q] = "FILLED" => atBroker[q] = "FILLED"
  /\ \A i \in 1 .. Len(stream) : stream[i][2] = "FILLED" => atBroker[stream[i][1]] = "FILLED"

\* No ledger is filled by a step of the worker that no answer filled.
LEMMA WorkerInventsNoFill ==
  ASSUME TypeOK, FilledInv, NEW book \in [Requests -> Statuses \cup {"absent"}], NEW todo \in Seq(Requests),
         \A q \in Requests : book[q] = "FILLED" => atBroker[q] = "FILLED",
         RouteHead(todo, book) \/ ledger' = book,
         UNCHANGED brokerVars
  PROVE  FilledInv'
<1>1. \A q \in Requests : ledger'[q] = "FILLED" => atBroker[q] = "FILLED"
  <2>1. CASE RouteHead(todo, book)
    <3>1. Head(todo) \in Requests
      BY <2>1, HeadTailProperties DEF RouteHead
    <3> QED
      BY <2>1, <3>1 DEF RouteHead
  <2> QED
    BY <2>1
<1> QED
  BY <1>1 DEF FilledInv, FilledIsTrue, brokerVars

LEMMA FilledStep ==
  ASSUME TypeOK, FilledInv, [Next]_vars
  PROVE  FilledInv'
<1> USE DEF intake, routing, history
<1>0. /\ ledger \in [Requests -> Statuses \cup {"absent"}] /\ queue \in Seq(Requests)
      /\ atBroker \in [Requests -> Statuses \cup {"none"}]
      /\ reply \in [Requests -> Statuses \cup {"none"}]
  BY DEF TypeOK
<1>1. CASE UNCHANGED <<ledger, atBroker, reply, stream>>
  BY <1>1 DEF FilledInv, FilledIsTrue
<1>2. CASE Terminate
  BY <1>2 DEF Terminate, FilledInv, FilledIsTrue, brokerVars
<1>3. CASE Take
  <2>1. RouteHead(queue, ledger) \/ ledger' = ledger
    BY <1>3 DEF Take, StopAtCheck, DropAll
  <2> QED
    BY <1>0, <1>3, <2>1, WorkerInventsNoFill DEF Take, FilledInv, FilledIsTrue
<1>4. CASE Return \/ TransportFails
  <2>1. PICK s \in Statuses : /\ Proceed(queue, Recorded(current, s))
                              /\ s = reply[current] \/ s = "REJECTED"
    BY <1>4, StatusFacts DEF Return, TransportFails, TypeOK
  <2>2. current \in Requests /\ UNCHANGED brokerVars
    BY <1>4 DEF Return, TransportFails, TypeOK
  <2> DEFINE book == Recorded(current, s)
  <2>3. book \in [Requests -> Statuses \cup {"absent"}]
    BY <2>2, RecordedType
  <2>4. \A q \in Requests : book[q] = "FILLED" => ledger[q] = "FILLED" \/ (q = current /\ s = "FILLED")
    BY <1>0, <2>2 DEF Recorded
  <2>5. Proceed(queue, book)
    BY <2>1
  <2> HIDE DEF book
  <2>6. RouteHead(queue, book) \/ ledger' = book
    BY <2>5 DEF Proceed, StopAtCheck, DropAll
  <2>7. \A q \in Requests : book[q] = "FILLED" => atBroker[q] = "FILLED"
    BY <2>1, <2>2, <2>4 DEF FilledInv, FilledIsTrue
  <2> QED
    BY <1>0, <2>2, <2>3, <2>6, <2>7, WorkerInventsNoFill
<1>5. CASE Consume
  <2> DEFINE q == stream[1][1]
             s == stream[1][2]
  <2>1. /\ \A i \in 1 .. Len(stream') : i + 1 \in 1 .. Len(stream) /\ stream'[i] = stream[i + 1]
        /\ Head(stream) = stream[1] /\ 1 \in 1 .. Len(stream)
    BY <1>5, TailShifts DEF Consume, TypeOK
  <2>2. q \in Requests /\ (s = "FILLED" => atBroker[q] = "FILLED")
    BY <2>1, ReportTypes DEF FilledInv
  <2>3. /\ ledger' = [ledger EXCEPT ![q] = s] \/ UNCHANGED ledger
        /\ UNCHANGED <<atBroker, reply>>
    BY <1>5, <2>1 DEF Consume
  <2> HIDE DEF q, s
  <2>4. FilledIsTrue'
    BY <1>0, <2>2, <2>3 DEF FilledInv, FilledIsTrue
  <2> QED
    BY <2>1, <2>3, <2>4 DEF FilledInv
<1>6. ASSUME NEW q \in Requests, BrokerAccepts(q) \/ BrokerProgresses(q) \/ BrokerRepeats(q)
      PROVE  FilledInv'
  <2>1. PICK s \in Statuses :
          /\ atBroker' = [atBroker EXCEPT ![q] = s]
          /\ stream' = Append(stream, <<q, s>>) \/ UNCHANGED stream
          /\ reply' = [reply EXCEPT ![q] = s] \/ UNCHANGED reply
          /\ s = atBroker[q] \/ atBroker[q] # "FILLED"
    BY <1>6, BrokerSteps, StatusFacts
  <2>2. UNCHANGED ledger
    BY <1>6, BrokerSteps
  <2>3. atBroker'[q] = s /\ \A o \in Requests : atBroker[o] = "FILLED" => atBroker'[o] = "FILLED"
    BY <1>0, <2>1
  <2>4. \A i \in 1 .. Len(stream') : stream'[i][2] = "FILLED" => atBroker'[stream'[i][1]] = "FILLED"
    <3>0. \A i \in 1 .. Len(stream) : stream[i][2] = "FILLED" => atBroker'[stream[i][1]] = "FILLED"
      BY <2>3, ReportTypes DEF FilledInv
    <3>1. CASE UNCHANGED stream
      BY <3>0, <3>1
    <3>2. CASE stream' = Append(stream, <<q, s>>)
      <4>1. \A i \in 1 .. Len(stream') :
              (i \in 1 .. Len(stream) /\ stream'[i] = stream[i]) \/ stream'[i] = <<q, s>>
        BY <3>2, StreamGrows
      <4> QED
        BY <2>3, <3>0, <4>1
    <3> QED
      BY <2>1, <3>1, <3>2
  <2>5. \A o \in Requests : reply'[o] = "FILLED" => atBroker'[o] = "FILLED"
    BY <1>0, <2>1, <2>3 DEF FilledInv
  <2> QED
    BY <2>2, <2>3, <2>4, <2>5 DEF FilledInv, FilledIsTrue
<1> QED
  BY <1>1, <1>2, <1>3, <1>4, <1>5, <1>6
     DEF Next, Internal, Broker, Submit, Halt, ReconQuery, ReconCorrect, PositionCloses, vars,
         brokerVars

\* The ledger says FILLED only of an order the broker filled, although the answer to a
\* submission and the stream overtake one another, the transport fails and reports
\* are repeated (_update_local_ledger_state and the fallback of _worker_loop).
THEOREM FillsAreTrue == Spec => []FilledIsTrue
<1>1. Init => FilledInv
  BY DEF Init, FilledInv, FilledIsTrue
<1>2. TypeOK /\ FilledInv /\ [Next]_vars => FilledInv'
  BY FilledStep
<1>3. FilledInv => FilledIsTrue
  BY DEF FilledInv
<1> QED
  BY <1>1, <1>2, <1>3, TypeCorrect, PTL DEF Spec

-----------------------------------------------------------------------------
(***************************************************************************)
(* The stream consumer.  It dies of the first report the table refuses.    *)
(* With a broker that also acknowledges on the stream, and a transport     *)
(* that answers, that report never comes: what is still to be consumed of  *)
(* an order starts at or after the ledger's status and follows the table   *)
(* to where the order stands (StreamInv).  The order the ledger has only   *)
(* begun is the hard one: the answer may overtake its acknowledgement on   *)
(* the stream or come after it, but nothing stands before both.            *)
(***************************************************************************)
Answers == {"ACKNOWLEDGED", "REJECTED"}
Reported == Statuses \ {"PENDING_SUBMIT"}
Follows(a, b) == a \in Reported /\ b \in Reported /\ Lifecycle!ValidTransition(a, b)

StreamFits ==
  /\ \A i, j \in 1 .. Len(stream) :
       i < j /\ stream[i][1] = stream[j][1] => Follows(stream[i][2], stream[j][2])
  /\ \A i \in 1 .. Len(stream) : Follows(stream[i][2], atBroker[stream[i][1]])

ReplyFits(q) ==
  /\ atBroker[q] \in Reported \cup {"none"}
  /\ reply[q] \in Answers \cup {"none"}
  /\ reply[q] # "none" => Follows(reply[q], atBroker[q])
  /\ reply[q] = "REJECTED" =>
       \A i \in 1 .. Len(stream) : stream[i][1] = q => stream[i][2] = "REJECTED"

\* The ledger may hold this status of the order.
LedgerFits(q, held) ==
  /\ held \notin {"absent", "PENDING_SUBMIT"} =>
       /\ Follows(held, atBroker[q])
       /\ \A i \in 1 .. Len(stream) : stream[i][1] = q => Follows(held, stream[i][2])
  /\ held = "PENDING_SUBMIT" /\ atBroker[q] # "none" =>
       \E i \in 1 .. Len(stream) : stream[i][1] = q /\ stream[i][2] \in Answers

StreamInv ==
  /\ consumer
  /\ StreamFits
  /\ \A q \in Requests : ReplyFits(q) /\ LedgerFits(q, ledger[q])

LEMMA FollowsFacts ==
  /\ \A a, b, c : Follows(a, b) /\ Follows(b, c) => Follows(a, c)
  /\ \A a \in Reported : Follows(a, a) /\ Follows("ACKNOWLEDGED", a)
  /\ \A a, b : Follows(a, b) /\ b \in Answers => a \in Answers
  /\ \A b : Follows("REJECTED", b) => b = "REJECTED"
  /\ \A a : ~Follows(a, "none") /\ ~Follows("none", a)
  /\ \A a \in {"ACKNOWLEDGED", "PARTIALLY_FILLED"} : \A b \in Lifecycle!Allowed[a] : Follows(a, b)
  /\ \A a \in Answers : Lifecycle!ValidTransition("PENDING_SUBMIT", a)
  /\ Answers \subseteq Reported /\ Reported \subseteq Statuses /\ "none" \notin Reported
  /\ \A a \in Reported : Lifecycle!ValidTransition(a, "REJECTED") => a \in Answers
BY DEF Follows, Reported, Answers, Statuses, Lifecycle!Statuses, Lifecycle!Terminal,
       Lifecycle!Allowed, Lifecycle!ValidTransition

\* The answer to a submission is recorded, or the ledger stays as it is.
LEMMA AnswerRecorded ==
  ASSUME TypeOK, NEW q \in Requests, reply[q] \in Answers
  PROVE  \/ Recorded(q, reply[q]) = [ledger EXCEPT ![q] = reply[q]]
         \/ Recorded(q, reply[q]) = ledger
<1>1. ledger \in [Requests -> Statuses \cup {"absent"}]
  BY DEF TypeOK
<1>2. CASE Accepts(q, reply[q]) \/ ~Accepts(q, "REJECTED")
  BY <1>2 DEF Recorded
<1>3. CASE ~Accepts(q, reply[q]) /\ Accepts(q, "REJECTED")
  <2>1. ledger[q] # "absent" /\ ledger[q] \in Statuses /\ reply[q] = "ACKNOWLEDGED"
    BY <1>1, <1>3 DEF Accepts, Answers
  <2>2. ledger[q] \in Reported /\ ledger[q] # "ACKNOWLEDGED"
    BY <1>3, <2>1, FollowsFacts DEF Accepts, Reported, Answers, Lifecycle!ValidTransition
  <2>3. ledger[q] = "REJECTED"
    BY <1>3, <2>1, <2>2, FollowsFacts DEF Accepts, Answers
  <2>4. ledger = [ledger EXCEPT ![q] = "REJECTED"]
    BY <1>1, <2>3
  <2> QED
    BY <1>3, <2>4 DEF Recorded
<1> QED
  BY <1>2, <1>3

LEMMA WorkerKeepsFit ==
  ASSUME TypeOK, KeyInv, LedgerInv, StreamInv,
         NEW book \in [Requests -> Statuses \cup {"absent"}],
         \A q \in Requests : LedgerFits(q, book[q]),
         RouteHead(queue, book) \/ ledger' = book,
         UNCHANGED <<consumer, brokerVars>>
  PROVE  StreamInv'
<1>1. \A q \in Requests : LedgerFits(q, ledger'[q])
  <2>1. CASE RouteHead(queue, book)
    <3> DEFINE h == Head(queue)
    <3>1. /\ h \in Requests /\ h = queue[1] /\ 1 \in 1 .. Len(queue)
          /\ ledger' = [book EXCEPT ![h] = "PENDING_SUBMIT"]
      BY <2>1, TailShifts DEF RouteHead, TypeOK
    <3> HIDE DEF h
    <3>2. atBroker[h] = "none"
      <4>1. ~(sent[h] > 0)
        BY <3>1 DEF KeyInv
      <4> QED
        BY <3>1, <4>1 DEF LedgerInv
    <3>3. \A q \in Requests : ledger'[q] = (IF q = h THEN "PENDING_SUBMIT" ELSE book[q])
      BY <3>1
    <3>4. LedgerFits(h, "PENDING_SUBMIT")
      BY <3>2 DEF LedgerFits
    <3> QED
      BY <3>3, <3>4
  <2> QED
    BY <2>1
<1>2. \A q \in Requests : LedgerFits(q, ledger[q])'
  BY <1>1 DEF LedgerFits, brokerVars
<1> QED
  BY <1>2 DEF StreamInv, StreamFits, ReplyFits, brokerVars

LEMMA ReportKeepsFit ==
  ASSUME TypeOK, StreamInv, NEW q \in Requests, NEW s \in Reported,
         atBroker' = [atBroker EXCEPT ![q] = s],
         stream' = Append(stream, <<q, s>>),
         \/ atBroker[q] = "none" /\ s \in Answers /\ reply' = [reply EXCEPT ![q] = s]
         \/ Follows(atBroker[q], s) /\ UNCHANGED reply /\ (reply[q] = "REJECTED" => s = "REJECTED"),
         UNCHANGED <<consumer, ledger>>
  PROVE  StreamInv'
<1>0. \A o \in Requests : atBroker'[o] = (IF o = q THEN s ELSE atBroker[o])
  BY DEF TypeOK
<1>1. /\ \A i \in 1 .. Len(stream) : /\ i \in 1 .. Len(stream') /\ stream'[i] = stream[i]
                                     /\ stream[i][1] \in Requests
      /\ \A i \in 1 .. Len(stream') :
           \/ i \in 1 .. Len(stream) /\ stream'[i] = stream[i]
           \/ i = Len(stream') /\ stream'[i][1] = q /\ stream'[i][2] = s
      /\ Len(stream') \in 1 .. Len(stream')
  <2>1. <<q, s>> \in Requests \X Statuses
    BY DEF Reported
  <2> QED
    BY <2>1, StreamGrows, ReportTypes
<1>2. \A a : Follows(a, atBroker[q]) => Follows(a, s)
  BY FollowsFacts
<1>3. \A i \in 1 .. Len(stream) : stream[i][1] = q => Follows(stream[i][2], s)
  BY <1>2 DEF StreamInv, StreamFits
<1>4. StreamFits'
  <2>1. \A i \in 1 .. Len(stream') : Follows(stream'[i][2], atBroker'[stream'[i][1]])
    <3>1. \A i \in 1 .. Len(stream) : Follows(stream[i][2], atBroker'[stream[i][1]])
      BY <1>0, <1>1, <1>3 DEF StreamInv, StreamFits
    <3> QED
      BY <1>0, <1>1, <3>1, FollowsFacts
  <2>2. \A i, j \in 1 .. Len(stream') :
          i < j /\ stream'[i][1] = stream'[j][1] => Follows(stream'[i][2], stream'[j][2])
    <3> SUFFICES ASSUME NEW i \in 1 .. Len(stream'), NEW j \in 1 .. Len(stream'),
                        i < j, stream'[i][1] = stream'[j][1]
                 PROVE  Follows(stream'[i][2], stream'[j][2])
      OBVIOUS
    <3>1. i # Len(stream')
      OBVIOUS
    <3>2. i \in 1 .. Len(stream) /\ stream'[i] = stream[i]
      BY <1>1, <3>1
    <3>3. CASE j \in 1 .. Len(stream) /\ stream'[j] = stream[j]
      BY <3>2, <3>3 DEF StreamInv, StreamFits
    <3>4. CASE stream'[j][1] = q /\ stream'[j][2] = s
      BY <1>3, <3>2, <3>4
    <3> QED
      BY <1>1, <3>3, <3>4
  <2> QED
    BY <2>1, <2>2 DEF StreamFits
<1>5. ASSUME NEW o \in Requests
      PROVE  ReplyFits(o)'
  <2>0. ReplyFits(o) /\ reply \in [Requests -> Statuses \cup {"none"}]
    BY DEF StreamInv, TypeOK
  <2>1. CASE o # q
    <3>1. reply'[o] = reply[o] /\ atBroker'[o] = atBroker[o]
      BY <1>0, <2>0, <2>1
    <3> QED
      BY <1>1, <2>0, <2>1, <3>1 DEF ReplyFits
  <2>2. CASE o = q /\ atBroker[q] = "none"
    <3>1. reply'[q] = s /\ s \in Answers /\ atBroker'[q] = s
      BY <1>0, <2>0, <2>2, FollowsFacts
    <3>2. \A i \in 1 .. Len(stream) : stream[i][1] # q
      BY <2>2, FollowsFacts DEF StreamInv, StreamFits
    <3>3. \A i \in 1 .. Len(stream') : stream'[i][1] = q => stream'[i][2] = s
      BY <1>1, <3>2
    <3> QED
      BY <2>2, <3>1, <3>3, FollowsFacts DEF ReplyFits
  <2>3. CASE o = q /\ atBroker[q] # "none"
    <3>1. reply'[q] = reply[q] /\ (reply[q] = "REJECTED" => s = "REJECTED") /\ atBroker'[q] = s
      BY <1>0, <2>3
    <3>2. reply'[q] = "REJECTED" =>
            \A i \in 1 .. Len(stream') : stream'[i][1] = q => stream'[i][2] = "REJECTED"
      BY <1>1, <2>0, <2>3, <3>1 DEF ReplyFits
    <3> QED
      BY <1>2, <2>0, <2>3, <3>1, <3>2 DEF ReplyFits
  <2> QED
    BY <2>1, <2>2, <2>3
<1>6. ASSUME NEW o \in Requests
      PROVE  LedgerFits(o, ledger[o])'
  <2>0. LedgerFits(o, ledger[o])
    BY DEF StreamInv
  <2>1. ASSUME ledger[o] \notin {"absent", "PENDING_SUBMIT"}
        PROVE  /\ Follows(ledger[o], atBroker'[o])
               /\ \A i \in 1 .. Len(stream') : stream'[i][1] = o => Follows(ledger[o], stream'[i][2])
    <3>1. Follows(ledger[o], atBroker[o])
      BY <2>0, <2>1 DEF LedgerFits
    <3>2. o = q => Follows(ledger[o], s)
      BY <1>2, <3>1
    <3> QED
      BY <1>0, <1>1, <2>0, <2>1, <3>1, <3>2 DEF LedgerFits
  <2>2. ASSUME ledger[o] = "PENDING_SUBMIT", atBroker'[o] # "none"
        PROVE  \E i \in 1 .. Len(stream') : stream'[i][1] = o /\ stream'[i][2] \in Answers
    <3>1. CASE atBroker[o] # "none"
      BY <1>1, <2>0, <2>2, <3>1 DEF LedgerFits
    <3>2. CASE atBroker[o] = "none"
      <4>1. o = q /\ s \in Answers
        BY <1>0, <2>2, <3>2, FollowsFacts DEF Follows
      <4>2. stream'[Len(stream')][1] = q /\ stream'[Len(stream')][2] = s
        <5>1. stream'[Len(stream')] = <<q, s>>
          <6>1. stream \in Seq(Requests \X Statuses) /\ <<q, s>> \in Requests \X Statuses
            BY DEF TypeOK, Reported
          <6> QED
            BY <6>1, AppendProperties
        <5> QED
          BY <5>1
      <4> QED
        BY <1>1, <4>1, <4>2
    <3> QED
      BY <3>1, <3>2
  <2> QED
    BY <2>1, <2>2 DEF LedgerFits
<1> QED
  BY <1>4, <1>5, <1>6 DEF StreamInv

LEMMA ConsumeKeepsFit ==
  ASSUME TypeOK, StreamInv, Consume
  PROVE  StreamInv'
<1> DEFINE q == stream[1][1]
           s == stream[1][2]
<1>1. /\ Head(stream) = stream[1] /\ 1 \in 1 .. Len(stream) /\ Len(stream) \in Nat
      /\ Len(stream') = Len(stream) - 1
      /\ \A i \in 1 .. Len(stream') :
           i + 1 \in 1 .. Len(stream) /\ stream'[i] = stream[i + 1]
  <2>1. stream \in Seq(Requests \X Statuses) /\ stream # <<>> /\ stream' = Tail(stream)
    BY DEF Consume, TypeOK
  <2> QED
    BY <2>1, TailShifts, LenProperties
<1>2. q \in Requests /\ s \in Statuses /\ ledger \in [Requests -> Statuses \cup {"absent"}]
  BY <1>1, ReportTypes DEF TypeOK
<1>3. /\ Follows(s, atBroker[q])
      /\ \A j \in 2 .. Len(stream) : stream[j][1] = q => Follows(s, stream[j][2])
  BY <1>1 DEF StreamInv, StreamFits
<1>4. LedgerFits(q, ledger[q])
  BY <1>2 DEF StreamInv
<1>5. Accepts(q, s)
  <2>1. CASE ledger[q] = "absent"
    BY <2>1 DEF Accepts
  <2>2. CASE ledger[q] = "PENDING_SUBMIT"
    <3>1. PICK j \in 1 .. Len(stream) : stream[j][1] = q /\ stream[j][2] \in Answers
      BY <1>3, <1>4, <2>2, FollowsFacts DEF LedgerFits
    <3>2. s \in Answers
      <4>1. j = 1 \/ j \in 2 .. Len(stream)
        BY <1>1
      <4> QED
        BY <1>3, <3>1, <4>1, FollowsFacts
    <3> QED
      BY <2>2, <3>2, FollowsFacts DEF Accepts
  <2>3. CASE ledger[q] \notin {"absent", "PENDING_SUBMIT"}
    BY <1>1, <1>4, <2>3 DEF LedgerFits, Follows, Accepts
  <2> QED
    BY <2>1, <2>2, <2>3
<1>6. /\ consumer' /\ ledger' = [ledger EXCEPT ![q] = s]
      /\ UNCHANGED <<atBroker, reply>>
  BY <1>1, <1>5 DEF Consume, StreamInv
<1> HIDE DEF q, s
<1>7. \A o \in Requests : ledger'[o] = (IF o = q THEN s ELSE ledger[o])
  BY <1>2, <1>6
<1>8. StreamFits'
  <2>1. \A i \in 1 .. Len(stream') : Follows(stream'[i][2], atBroker[stream'[i][1]])
    BY <1>1 DEF StreamInv, StreamFits
  <2>2. \A i, j \in 1 .. Len(stream') :
          i < j /\ stream'[i][1] = stream'[j][1] => Follows(stream'[i][2], stream'[j][2])
    <3> SUFFICES ASSUME NEW i \in 1 .. Len(stream'), NEW j \in 1 .. Len(stream'),
                        i < j, stream'[i][1] = stream'[j][1]
                 PROVE  Follows(stream'[i][2], stream'[j][2])
      OBVIOUS
    <3>1. /\ i + 1 \in 1 .. Len(stream) /\ j + 1 \in 1 .. Len(stream)
          /\ stream'[i] = stream[i + 1] /\ stream'[j] = stream[j + 1]
      BY <1>1
    <3>2. i + 1 < j + 1
      BY <1>1
    <3> QED
      BY <3>1, <3>2 DEF StreamInv, StreamFits
  <2> QED
    BY <1>6, <2>1, <2>2 DEF StreamFits
<1>9. \A o \in Requests : ReplyFits(o)'
  BY <1>1, <1>6 DEF StreamInv, ReplyFits
<1>10. ASSUME NEW o \in Requests
       PROVE  LedgerFits(o, ledger[o])'
  <2>1. CASE o = q
    <3>1. ledger'[o] = s /\ s \in Reported
      BY <1>3, <1>7, <2>1 DEF Follows
    <3>2. \A i \in 1 .. Len(stream') : stream'[i][1] = q => Follows(s, stream'[i][2])
      <4>1. \A i \in 1 .. Len(stream') : i + 1 \in 2 .. Len(stream)
        BY <1>1
      <4> QED
        BY <1>1, <1>3, <4>1
    <3>3. s # "PENDING_SUBMIT"
      BY <3>1 DEF Reported
    <3> QED
      BY <1>3, <1>6, <2>1, <3>1, <3>2, <3>3 DEF LedgerFits
  <2>2. CASE o # q
    <3>1. LedgerFits(o, ledger[o]) /\ ledger'[o] = ledger[o]
      BY <1>7, <2>2 DEF StreamInv
    <3>2. ledger[o] \notin {"absent", "PENDING_SUBMIT"} =>
            /\ Follows(ledger[o], atBroker[o])
            /\ \A i \in 1 .. Len(stream') : stream'[i][1] = o => Follows(ledger[o], stream'[i][2])
      BY <1>1, <3>1 DEF LedgerFits
    <3>3. ledger[o] = "PENDING_SUBMIT" /\ atBroker[o] # "none" =>
            \E i \in 1 .. Len(stream') : stream'[i][1] = o /\ stream'[i][2] \in Answers
      <4> SUFFICES ASSUME ledger[o] = "PENDING_SUBMIT", atBroker[o] # "none"
                   PROVE  \E i \in 1 .. Len(stream') :
                            stream'[i][1] = o /\ stream'[i][2] \in Answers
        OBVIOUS
      <4>1. PICK j \in 1 .. Len(stream) : stream[j][1] = o /\ stream[j][2] \in Answers
        BY <3>1 DEF LedgerFits
      <4>2. j # 1
        BY <2>2, <4>1 DEF q
      <4>3. j - 1 \in 1 .. Len(stream') /\ (j - 1) + 1 = j
        BY <1>1, <4>2
      <4>4. stream'[j - 1] = stream[j]
        BY <1>1, <4>3
      <4> QED
        BY <4>1, <4>3, <4>4
    <3> QED
      BY <1>6, <3>1, <3>2, <3>3 DEF LedgerFits
  <2> QED
    BY <2>1, <2>2
<1> QED
  BY <1>6, <1>8, <1>9, <1>10 DEF StreamInv

LEMMA StreamStep ==
  ASSUME DirectFill = FALSE, AckOnStream = TRUE,
         TypeOK, KeyInv, LedgerInv, StreamInv, [Next]_vars
  PROVE  raised' \/ StreamInv'
<1> USE DEF intake, routing, history
<1>0. /\ ledger \in [Requests -> Statuses \cup {"absent"}]
      /\ atBroker \in [Requests -> Statuses \cup {"none"}]
  BY DEF TypeOK
<1>1. CASE UNCHANGED <<consumer, ledger, atBroker, reply, stream>>
  BY <1>1 DEF StreamInv, StreamFits, ReplyFits, LedgerFits
<1>2. CASE Terminate
  <2>1. \A q \in Requests : ledger'[q] = "absent"
    BY <1>2 DEF Terminate
  <2>2. \A q \in Requests : LedgerFits(q, ledger[q])'
    BY <2>1 DEF LedgerFits
  <2> QED
    BY <1>2, <2>2 DEF Terminate, StreamInv, StreamFits, ReplyFits, brokerVars
<1>3. CASE Take
  <2>1. RouteHead(queue, ledger) \/ ledger' = ledger
    BY <1>3 DEF Take, StopAtCheck, DropAll
  <2>2. \A q \in Requests : LedgerFits(q, ledger[q])
    BY DEF StreamInv
  <2> QED
    BY <1>0, <1>3, <2>1, <2>2, WorkerKeepsFit DEF Take
<1>4. CASE Return
  <2> DEFINE r == reply[current]
             book == Recorded(current, r)
  <2>1. /\ current \in Requests /\ r # "none" /\ Proceed(queue, book)
        /\ UNCHANGED <<consumer, brokerVars>>
    BY <1>4 DEF Return, TypeOK
  <2>2. ReplyFits(current) /\ r \in Answers /\ Follows(r, atBroker[current])
    BY <2>1 DEF StreamInv, ReplyFits
  <2>3. book = [ledger EXCEPT ![current] = r] \/ book = ledger
    BY <2>1, <2>2, AnswerRecorded
  <2>4. LedgerFits(current, r)
    <3>1. \A i \in 1 .. Len(stream) : stream[i][1] = current => Follows(r, stream[i][2])
      <4>1. \A i \in 1 .. Len(stream) : stream[i][2] \in Reported
        BY DEF StreamInv, StreamFits, Follows
      <4>2. CASE r = "ACKNOWLEDGED"
        BY <4>1, <4>2, FollowsFacts
      <4>3. CASE r = "REJECTED"
        BY <2>2, <4>1, <4>3, FollowsFacts DEF ReplyFits
      <4> QED
        BY <2>2, <4>2, <4>3 DEF Answers
    <3>2. r # "PENDING_SUBMIT"
      BY <2>2 DEF Answers
    <3> QED
      BY <2>2, <3>1, <3>2 DEF LedgerFits
  <2>5. book \in [Requests -> Statuses \cup {"absent"}]
    BY <2>1, <2>2, RecordedType, FollowsFacts
  <2> HIDE DEF r, book
  <2>6. \A q \in Requests : LedgerFits(q, ledger[q])
    BY DEF StreamInv
  <2>7. \A q \in Requests : book[q] = ledger[q] \/ (q = current /\ book[q] = r)
    BY <1>0, <2>1, <2>3
  <2>8. \A q \in Requests : LedgerFits(q, book[q])
    BY <2>4, <2>6, <2>7
  <2>9. RouteHead(queue, book) \/ ledger' = book
    BY <2>1 DEF Proceed, StopAtCheck, DropAll
  <2> QED
    BY <2>1, <2>5, <2>8, <2>9, WorkerKeepsFit
<1>5. CASE Consume
  BY <1>5, ConsumeKeepsFit
<1>6. ASSUME NEW q \in Requests, BrokerAccepts(q)
      PROVE  StreamInv'
  <2>1. PICK s \in Answers :
          /\ atBroker[q] = "none"
          /\ atBroker' = [atBroker EXCEPT ![q] = s]
          /\ reply' = [reply EXCEPT ![q] = s]
          /\ stream' = Append(stream, <<q, s>>)
          /\ UNCHANGED <<consumer, ledger>>
    BY <1>6 DEF BrokerAccepts, Report, Answers
  <2> QED
    BY <2>1, FollowsFacts, ReportKeepsFit
<1>7. ASSUME NEW q \in Requests, BrokerProgresses(q)
      PROVE  StreamInv'
  <2>1. PICK s \in Lifecycle!Allowed[atBroker[q]] :
          /\ atBroker[q] \in {"ACKNOWLEDGED", "PARTIALLY_FILLED"}
          /\ atBroker' = [atBroker EXCEPT ![q] = s]
          /\ stream' = Append(stream, <<q, s>>)
          /\ UNCHANGED <<consumer, ledger, reply>>
    BY <1>7 DEF BrokerProgresses, Report
  <2>2. Follows(atBroker[q], s) /\ s \in Reported
    BY <2>1, FollowsFacts DEF Follows
  <2>3. reply[q] # "REJECTED"
    BY <2>1, FollowsFacts DEF StreamInv, ReplyFits
  <2> QED
    BY <2>1, <2>2, <2>3, ReportKeepsFit
<1>8. ASSUME NEW q \in Requests, BrokerRepeats(q)
      PROVE  StreamInv'
  <2>1. /\ atBroker[q] # "none" /\ stream' = Append(stream, <<q, atBroker[q]>>)
        /\ UNCHANGED <<consumer, ledger, reply, atBroker>>
    BY <1>8 DEF BrokerRepeats, Report
  <2>2. atBroker[q] \in Reported /\ (reply[q] = "REJECTED" => atBroker[q] = "REJECTED")
    BY <2>1, FollowsFacts DEF StreamInv, ReplyFits
  <2>3. atBroker' = [atBroker EXCEPT ![q] = atBroker[q]]
    BY <1>0, <2>1
  <2> QED
    BY <2>1, <2>2, <2>3, FollowsFacts, ReportKeepsFit
<1>9. CASE TransportFails
  BY <1>9 DEF TransportFails
<1> QED
  BY <1>1, <1>2, <1>3, <1>4, <1>5, <1>6, <1>7, <1>8, <1>9
     DEF Next, Internal, Broker, Submit, Halt, ReconQuery, ReconCorrect,
         PositionCloses, vars, brokerVars

\* A submission that raised stays in the history.
LEMMA RaisedStays ==
  ASSUME raised, [Next]_vars
  PROVE  raised'
BY DEF Next, Internal, Broker, Submit, Halt, Terminate, Take, Return, TransportFails, Consume,
       ReconQuery, ReconCorrect, BrokerAccepts, BrokerProgresses, BrokerRepeats,
       PositionCloses, vars, history

\* With a broker that also acknowledges on its stream, no report in the broker's order
\* kills the stream consumer before a submission raises, although the answer to a
\* submission overtakes its report or falls behind it, reports are repeated after a
\* reconnection, and terminate forgets the ledger under the consumer
\* (_handle_broker_websocket_stream and _worker_loop).
THEOREM ConsumerLives ==
  ASSUME DirectFill = FALSE, AckOnStream = TRUE
  PROVE  Spec => []ConsumerSurvives
<1> DEFINE Inv == raised \/ StreamInv
<1>1. Init => Inv
  BY DEF Init, StreamInv, StreamFits, ReplyFits, LedgerFits
<1>2. TypeOK /\ KeyInv /\ LedgerInv /\ Inv /\ [Next]_vars => Inv'
  BY StreamStep, RaisedStays
<1>3. Inv => ConsumerSurvives
  BY DEF StreamInv, ConsumerSurvives
<1> QED
  BY <1>1, <1>2, <1>3, TypeCorrect, KeysAreSpent, LedgerHoldsSent, PTL DEF Spec
===========================================================================================
