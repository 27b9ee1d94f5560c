------------------------------ MODULE ExecutionRouter ------------------------------
(***************************************************************************)
(* src/execution/execution_router.py: HighSpeedExecutionOrchestrator.      *)
(*                                                                         *)
(* Four asyncio tasks share one thread: the callers of                     *)
(* submit_execution_intent, the queue worker, the consumer of the broker's *)
(* stream and the reconciliation loop.  Nothing interleaves between two    *)
(* awaits that really suspend, so a step here runs from one suspension to  *)
(* the next; the worker suspends on an empty queue and inside the broker   *)
(* call, and nowhere else.                                                 *)
(*                                                                         *)
(* The broker is external.  It answers a submission, reports on a stream,  *)
(* and may do the two in any order; DirectFill is the MetaTrader gateway,  *)
(* which answers FILLED at once and has no stream.                         *)
(***************************************************************************)
EXTENDS Integers, Sequences, FiniteSets

CONSTANTS
  Requests,          \* order requests; each has its own client_order_id
  NoRequest,         \* none of them
  Keys,              \* idempotency keys
  KeyOf,             \* the idempotency key of a request
  QueueSize,         \* maxsize of _execution_queue
  MaxStream,         \* bound: broker events not consumed yet
  DirectFill,        \* whether a submission is answered with its final status
  AckOnStream,       \* whether the stream repeats the answer to a submission
  TransportMayFail,  \* whether route_order_submission may raise
  MayTerminate       \* whether the orchestrator is ever terminated

ASSUME RouterAssumption ==
  /\ NoRequest \notin Requests
  /\ KeyOf \in [Requests -> Keys]
  /\ QueueSize \in Nat \ {0}
  /\ MaxStream \in Nat
  /\ {DirectFill, AckOnStream, TransportMayFail, MayTerminate} \subseteq BOOLEAN

VARIABLES
  halted,      \* _emergency_halt_active
  terminated,  \* terminate() has run
  registry,    \* _idempotency_registry
  queue,       \* _execution_queue
  worker,      \* the queue worker: "waiting" in get(), "routing", "stopped"
  current,     \* the request the worker is routing
  ledger,      \* _active_orders_ledger
  consumer,    \* whether the stream consumer is alive
  recon,       \* reconciliation loop: "asleep", "empty" (broker had none), "stopped"
  posCount,    \* active_position_count in the state manager
  sent,        \* history: broker submissions per request
  late,        \* history: submissions begun after the halt
  waited,      \* history: whether the worker waited in get() when the halt came
  raised,      \* history: whether a submission raised, its fate at the broker unknown
  atBroker,    \* status of each order at the broker
  reply,       \* the answer the broker gives to the submission
  stream,      \* reports on the stream, not consumed yet
  open         \* orders whose position is open at the broker

intake == <<halted, terminated, registry>>
routing == <<queue, worker, current>>
history == <<sent, late, waited, raised>>
brokerVars == <<atBroker, reply, stream, open>>
vars == <<intake, routing, ledger, consumer, recon, posCount, history, brokerVars>>

Lifecycle == INSTANCE OrderLifecycle WITH
  Orders <- Requests,
  status <- [q \in Requests |-> IF terminated THEN "forgotten" ELSE ledger[q]]

Statuses == Lifecycle!Statuses

TypeOK ==
  /\ halted \in BOOLEAN /\ terminated \in BOOLEAN
  /\ registry \subseteq Keys
  /\ queue \in Seq(Requests) /\ Len(queue) <= QueueSize
  /\ worker \in {"waiting", "routing", "stopped"}
  /\ current \in Requests \cup {NoRequest}
  /\ worker = "routing" => current \in Requests
  /\ ledger \in [Requests -> Statuses \cup {"absent"}]
  /\ consumer \in BOOLEAN
  /\ recon \in {"asleep", "empty", "stopped"}
  /\ posCount \in {0, 1}
  /\ sent \in [Requests -> Nat] /\ late \in Nat /\ {waited, raised} \subseteq BOOLEAN
  /\ atBroker \in [Requests -> Statuses \cup {"none"}]
  /\ reply \in [Requests -> Statuses \cup {"none"}]
  /\ stream \in Seq(Requests \X Statuses)
  /\ open \subseteq Requests

Init ==
  /\ halted = FALSE /\ terminated = FALSE
  /\ registry = {}
  /\ queue = <<>> /\ worker = "waiting" /\ current = NoRequest
  /\ ledger = [q \in Requests |-> "absent"]
  /\ consumer = TRUE
  /\ recon = "asleep"
  /\ posCount = 0
  /\ sent = [q \in Requests |-> 0] /\ late = 0 /\ waited = FALSE /\ raised = FALSE
  /\ atBroker = [q \in Requests |-> "none"]
  /\ reply = [q \in Requests |-> "none"]
  /\ stream = <<>>
  /\ open = {}

-----------------------------------------------------------------------------
\* Mutants: no look at the registry; put_nowait on a queue without a bound.
SubmitAgain(q) ==
  /\ ~halted
  /\ registry' = registry \cup {KeyOf[q]}
  /\ queue' = IF Len(queue) < QueueSize THEN Append(queue, q) ELSE queue
  /\ UNCHANGED <<halted, terminated, worker, current, ledger, consumer, recon,
                 posCount, history, brokerVars>>

SubmitUnbounded(q) ==
  /\ ~halted
  /\ KeyOf[q] \notin registry
  /\ registry' = registry \cup {KeyOf[q]}
  /\ queue' = Append(queue, q)
  /\ UNCHANGED <<halted, terminated, worker, current, ledger, consumer, recon,
                 posCount, history, brokerVars>>

(***************************************************************************)
(* submit_execution_intent, by a new caller or by one that tries again.    *)
(* The key is registered before the queue is found to be full.             *)
(***************************************************************************)
Submit(q) ==
  /\ ~halted
  /\ KeyOf[q] \notin registry
  /\ registry' = registry \cup {KeyOf[q]}
  /\ queue' = IF Len(queue) < QueueSize THEN Append(queue, q) ELSE queue
  /\ UNCHANGED <<halted, terminated, worker, current, ledger, consumer, recon,
                 posCount, history, brokerVars>>

\* trigger_emergency_shutdown
Halt ==
  /\ halted' = TRUE
  /\ waited' = IF halted THEN waited ELSE worker = "waiting"
  /\ UNCHANGED <<terminated, registry, routing, ledger, consumer, recon, posCount,
                 sent, late, raised, brokerVars>>

\* terminate: worker and reconciliation are cancelled, the stream consumer is not.
Terminate ==
  /\ MayTerminate
  /\ halted' = TRUE
  /\ terminated' = TRUE
  /\ registry' = {}
  /\ ledger' = [q \in Requests |-> "absent"]
  /\ worker' = "stopped"
  /\ recon' = "stopped"
  /\ UNCHANGED <<queue, current, consumer, posCount, history, brokerVars>>

-----------------------------------------------------------------------------
(***************************************************************************)
(* The worker.  RouteHead begins the first request of todo: the spread     *)
(* gate passed, the ledger holds it as pending, the broker call is out.    *)
(* DropAll is what a spread too wide does to it and to all behind it: they *)
(* leave the queue without a trace.                                        *)
(***************************************************************************)
RouteHead(todo, book) ==
  /\ todo # <<>>
  /\ worker' = "routing"
  /\ current' = Head(todo)
  /\ queue' = Tail(todo)
  /\ ledger' = [book EXCEPT ![Head(todo)] = "PENDING_SUBMIT"]
  /\ sent' = [sent EXCEPT ![Head(todo)] = @ + 1]
  /\ late' = IF halted THEN late + 1 ELSE late

DropAll(book) ==
  /\ worker' = "waiting"
  /\ queue' = <<>>
  /\ current' = NoRequest
  /\ ledger' = book
  /\ UNCHANGED <<sent, late>>

StopAtCheck(todo, book) ==
  /\ worker' = "stopped"
  /\ queue' = todo
  /\ current' = NoRequest
  /\ ledger' = book
  /\ UNCHANGED <<sent, late>>

\* Mutant: while True instead of while not halted.
ProceedAnyway(todo, book) == RouteHead(todo, book) \/ DropAll(book)

\* Back at the head of the loop, where the halt flag is looked at.
Proceed(todo, book) ==
  \/ halted /\ StopAtCheck(todo, book)
  \/ ~halted /\ RouteHead(todo, book)
  \/ ~halted /\ DropAll(book)

\* get() returns: this request is not held against the halt flag any more.
Take ==
  /\ worker = "waiting"
  /\ queue # <<>>
  /\ \/ RouteHead(queue, ledger)
     \/ halted /\ StopAtCheck(Tail(queue), ledger)
     \/ ~halted /\ DropAll(ledger)
  /\ UNCHANGED <<intake, consumer, recon, posCount, waited, raised, brokerVars>>

\* Mutants: no lifecycle check; a status repeated is refused; an order
\* acknowledged counts as filled.
AcceptsAll(q, status) == TRUE
AcceptsNews(q, status) ==
  ledger[q] # "absent" => status \in Lifecycle!Allowed[ledger[q]]
RecordedOptimistic(q, status) ==
  [ledger EXCEPT ![q] = IF status = "ACKNOWLEDGED" THEN "FILLED" ELSE status]

(***************************************************************************)
(* _update_local_ledger_state(report), and the fallback of the caller: a   *)
(* report the lifecycle refuses is replaced by REJECTED, and if that is    *)
(* refused too the worker only logs it.                                    *)
(***************************************************************************)
Accepts(q, status) ==
  ledger[q] # "absent" => Lifecycle!ValidTransition(ledger[q], status)

Recorded(q, status) ==
  IF Accepts(q, status) THEN [ledger EXCEPT ![q] = status]
  ELSE IF Accepts(q, "REJECTED") THEN [ledger EXCEPT ![q] = "REJECTED"]
  ELSE ledger

Return ==
  /\ worker = "routing"
  /\ reply[current] # "none"
  /\ Proceed(queue, Recorded(current, reply[current]))
  /\ UNCHANGED <<intake, consumer, recon, posCount, waited, raised, brokerVars>>

\* route_order_submission raised: whether the broker has the order is not known.
TransportFails ==
  /\ TransportMayFail
  /\ worker = "routing"
  /\ Proceed(queue, Recorded(current, "REJECTED"))
  /\ raised' = TRUE
  /\ UNCHANGED <<intake, consumer, recon, posCount, waited, brokerVars>>

-----------------------------------------------------------------------------
\* _handle_broker_websocket_stream: a refused transition ends the consumer for good.
Consume ==
  /\ consumer
  /\ stream # <<>>
  /\ stream' = Tail(stream)
  /\ LET q == Head(stream)[1]
         s == Head(stream)[2]
     IN  \/ /\ Accepts(q, s)
            /\ ledger' = [ledger EXCEPT ![q] = s]
            /\ posCount' = IF s = "FILLED" THEN 1 ELSE posCount
            /\ UNCHANGED consumer
         \/ /\ ~Accepts(q, s)
            /\ consumer' = FALSE
            /\ UNCHANGED <<ledger, posCount>>
  /\ UNCHANGED <<intake, routing, recon, history, atBroker, reply, open>>

AfterCycle == IF halted THEN "stopped" ELSE "asleep"

\* _run_periodic_broker_reconciliation: the answer is used after an await.
ReconQuery ==
  /\ recon = "asleep"
  /\ recon' = IF open = {} THEN "empty" ELSE AfterCycle
  /\ UNCHANGED <<intake, routing, ledger, consumer, posCount, history, brokerVars>>

ReconCorrect ==
  /\ recon = "empty"
  /\ posCount' = 0
  /\ recon' = AfterCycle
  /\ UNCHANGED <<intake, routing, ledger, consumer, history, brokerVars>>

-----------------------------------------------------------------------------
(***************************************************************************)
(* The broker.                                                             *)
(***************************************************************************)
Report(q, s) == stream' = Append(stream, <<q, s>>)

BrokerAccepts(q) ==
  /\ sent[q] > 0 /\ atBroker[q] = "none"
  /\ \E s \in IF DirectFill THEN {"FILLED", "REJECTED"} ELSE {"ACKNOWLEDGED", "REJECTED"} :
       /\ atBroker' = [atBroker EXCEPT ![q] = s]
       /\ reply' = [reply EXCEPT ![q] = s]
       /\ open' = IF s = "FILLED" THEN open \cup {q} ELSE open
       /\ IF AckOnStream /\ ~DirectFill
          THEN Len(stream) < MaxStream /\ Report(q, s)
          ELSE UNCHANGED stream
  /\ UNCHANGED <<intake, routing, ledger, consumer, recon, posCount, history>>

BrokerProgresses(q) ==
  /\ atBroker[q] \in {"ACKNOWLEDGED", "PARTIALLY_FILLED"}
  /\ Len(stream) < MaxStream
  /\ \E s \in Lifecycle!Allowed[atBroker[q]] :
       /\ atBroker' = [atBroker EXCEPT ![q] = s]
       /\ open' = IF s \in {"PARTIALLY_FILLED", "FILLED"} THEN open \cup {q} ELSE open
       /\ Report(q, s)
  /\ UNCHANGED <<intake, routing, ledger, consumer, recon, posCount, history, reply>>

\* After a reconnection the stream repeats where an order stands.
BrokerRepeats(q) ==
  /\ ~DirectFill
  /\ atBroker[q] # "none"
  /\ Len(stream) < MaxStream
  /\ Report(q, atBroker[q])
  /\ UNCHANGED <<intake, routing, ledger, consumer, recon, posCount, history,
                 atBroker, reply, open>>

PositionCloses ==
  /\ \E q \in open : atBroker[q] # "PARTIALLY_FILLED" /\ open' = open \ {q}
  /\ UNCHANGED <<intake, routing, ledger, consumer, recon, posCount, history,
                 atBroker, reply, stream>>

Internal == Take \/ Return \/ TransportFails \/ Consume \/ ReconQuery \/ ReconCorrect

Broker ==
  \/ \E q \in Requests : BrokerAccepts(q) \/ BrokerProgresses(q) \/ BrokerRepeats(q)
  \/ PositionCloses

Next ==
  \/ \E q \in Requests : Submit(q)
  \/ Halt \/ Terminate
  \/ Internal
  \/ Broker

Spec == Init /\ [][Next]_vars

\* Tasks that can run are run by the event loop; the broker answers what it got.
FairSpec ==
  /\ Spec
  /\ WF_vars(Take) /\ WF_vars(Return) /\ WF_vars(Consume)
  /\ \A q \in Requests : WF_vars(BrokerAccepts(q))

-----------------------------------------------------------------------------
(***************************************************************************)
(* Properties.                                                             *)
(***************************************************************************)

\* One broker submission per idempotency key, whatever is resubmitted, whatever
\* overflows, and whenever the halt comes.
OncePerKey ==
  \A a, b \in Requests :
    /\ sent[a] <= 1
    /\ sent[a] > 0 /\ sent[b] > 0 /\ KeyOf[a] = KeyOf[b] => a = b

\* What the halt really guarantees: one request may still slip through, the one the
\* worker was waiting for; a worker in the middle of a submission begins no other.
OneAfterHalt == late <= (IF waited THEN 1 ELSE 0)

\* The ledger never says FILLED of an order the broker did not fill.
FilledIsTrue == \A q \in Requests : ledger[q] = "FILLED" => atBroker[q] = "FILLED"

\* Reports that reach the consumer in the broker's order never kill it, although
\* the answer to the submission comes by another way.  It takes a submission that
\* raised: the worker then writes REJECTED of an order that may live on, and the
\* next report of it is one the table refuses.
ConsumerSurvives == raised \/ consumer

\* Every change of the ledger is one the lifecycle table allows.
LedgerFollowsLifecycle == Lifecycle!Spec

\* A fill at the broker reaches the ledger, unless the router was terminated or a
\* submission that raised has cost it the stream consumer.
FillReachesLedger ==
  \A q \in Requests :
    atBroker[q] = "FILLED" ~> (ledger[q] = "FILLED" \/ terminated \/ (raised /\ ~consumer))
====================================================================================
