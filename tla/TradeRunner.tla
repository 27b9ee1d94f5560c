------------------------------- MODULE TradeRunner -------------------------------
(***************************************************************************)
(* The live trading path: scripts/mt5_intelligent_demo_runner.py driving   *)
(* src/infrastructure/broker/mt5_gateway.py, with the protection record of *)
(* src/execution/position_tracker.py kept in one local file.               *)
(*                                                                         *)
(* A runner is an operating-system process: it is started, runs one loop,  *)
(* leaves it (time is up, or an exit code), may crash at any point, and is *)
(* started again.  The broker terminal is shared by all of them.  A step   *)
(* is what a runner does up to and including one call to the terminal or   *)
(* one operation on the file: everything else it computes is local.        *)
(*                                                                         *)
(* Detection, scoring, risk and cost gates are abstracted to whether a     *)
(* candidate gets through them; PreSubmission models the last of them.     *)
(***************************************************************************)
EXTENDS StopTrail, Sequences, FiniteSets

CONSTANTS
  Runners,        \* the runner processes that may be alive
  Modes,          \* the sets of explicit permissions a runner is started with
  Target,         \* distance of the final take-profit from the entry
  Closes,         \* closing prices of completed one-minute candles
  MaxBatch,       \* bound: candles completed between two processed quotes
  MaxTicket,      \* bound: positions the account ever holds
  MaxCrashes,     \* bound: crashes in a behaviour
  ManualStops,    \* stops a person may set in the terminal; {} for none
  ManualTrading,  \* whether a person also opens positions and moves targets
  QueryMayFail,   \* whether positions_get may return None
  LateExecution,  \* whether an accepted order may execute after the answer
  LateUpdates     \* whether an accepted stop update may be applied after the answer

ASSUME RunnerAssumption ==
  /\ Modes \subseteq SUBSET {"execute", "manage"}
  /\ Target \in Nat /\ Target > RiskUnits
  /\ Closes \subseteq Int
  /\ MaxBatch \in Nat /\ MaxTicket \in Nat /\ MaxCrashes \in Nat
  /\ ManualStops \subseteq Int
  /\ {ManualTrading, QueryMayFail, LateExecution, LateUpdates} \subseteq BOOLEAN

VARIABLES
  \* the broker terminal
  positions,      \* open Gold positions
  inflight,       \* tickets of orders accepted and not executed yet
  nextTicket,     \* ticket of the next accepted order
  updates,        \* positions as stop updates accepted and not applied yet leave them
  deferred,       \* history: tickets with a stop update that was not applied at once
  \* the file system
  file,           \* the managed-trade record
  \* one runner process each
  pc, mode,
  plan,           \* managed_plan
  blocked,        \* startup_entry_block
  submitted,      \* entry_submitted_this_run
  setup,          \* the setup being executed, named by the ticket it obtained
  snap,           \* the position snapshot manage_protected_position works on
  observed,       \* observation_milestone
  batch,          \* newly_closed_1m still to be evaluated
  crashes

broker == <<positions, inflight, nextTicket, updates, deferred>>
locals == <<mode, plan, blocked, submitted, setup, snap, observed, batch>>
trading == <<blocked, submitted, setup>>
trailing == <<snap, observed, batch>>
vars == <<broker, file, pc, locals, crashes>>

(***************************************************************************)
(* Data.  A "frame" is the setup whose entry, initial stop and target a    *)
(* position or a plan was made from, named by the ticket that setup        *)
(* obtained; 0 is a frame no setup of this engine made.                    *)
(***************************************************************************)
Position == [ticket : Nat, frame : Nat, sl : Int]
Plan == [ticket : Nat, frame : Nat, milestone : Nat]
NoPlan == [ticket |-> 0, frame |-> 0, milestone |-> 0]
NoPosition == [ticket |-> 0, frame |-> 0, sl |-> InitialStop]
Torn == [ticket |-> -1, frame |-> 0, milestone |-> 0]    \* truncated, not written yet

PCs == {"off", "loaded", "clear", "loop", "trail", "save", "saving",
        "guard", "send", "filled"}

Opened(ticket) == [ticket |-> ticket, frame |-> ticket, sl |-> InitialStop]
Holding(ticket) == {p \in positions : p.ticket = ticket}

\* Mutant: a failed query reads as no position even where queries were to work.
SeenOrNothing == {positions, {}}

\* query_live_positions: None, the terminal's failure, reads as no position.
Seen == IF QueryMayFail THEN {positions, {}} ELSE {positions}

\* _valid_risk_geometry, for a plan made from its own frame
ValidGeometry(p) == p.sl < Target

\* ManagedTradePlanReconciler.reconcile: may this plan manage what the broker holds?
Matches(pl, seen) ==
  \E p \in seen : /\ seen = {p}
                  /\ pl # NoPlan
                  /\ p.ticket = pl.ticket
                  /\ p.frame = pl.frame
                  /\ ValidGeometry(p)

-----------------------------------------------------------------------------
TypeOK ==
  /\ positions \subseteq Position
  /\ inflight \subseteq Nat
  /\ updates \subseteq Position /\ deferred \subseteq Nat
  /\ nextTicket \in Nat \ {0}
  /\ file \in Plan \cup {Torn}
  /\ pc \in [Runners -> PCs]
  /\ mode \in [Runners -> SUBSET {"execute", "manage"}]
  /\ plan \in [Runners -> Plan]
  /\ blocked \in [Runners -> BOOLEAN]
  /\ submitted \in [Runners -> BOOLEAN]
  /\ setup \in [Runners -> Nat]
  /\ snap \in [Runners -> Position]
  /\ observed \in [Runners -> Nat]
  /\ batch \in [Runners -> Seq(Closes)]
  /\ crashes \in Nat

Init ==
  /\ positions = {} /\ inflight = {} /\ nextTicket = 1
  /\ updates = {} /\ deferred = {}
  /\ file = NoPlan
  /\ pc = [r \in Runners |-> "off"]
  /\ mode = [r \in Runners |-> {}]
  /\ plan = [r \in Runners |-> NoPlan]
  /\ blocked = [r \in Runners |-> FALSE]
  /\ submitted = [r \in Runners |-> FALSE]
  /\ setup = [r \in Runners |-> 0]
  /\ snap = [r \in Runners |-> NoPosition]
  /\ observed = [r \in Runners |-> 0]
  /\ batch = [r \in Runners |-> <<>>]
  /\ crashes = 0

Goto(r, from, to) == pc[r] = from /\ pc' = [pc EXCEPT ![r] = to]

\* The process is gone, and with it everything it held in memory.
Gone(r) ==
  /\ pc' = [pc EXCEPT ![r] = "off"]
  /\ mode' = [mode EXCEPT ![r] = {}]
  /\ plan' = [plan EXCEPT ![r] = NoPlan]
  /\ blocked' = [blocked EXCEPT ![r] = FALSE]
  /\ submitted' = [submitted EXCEPT ![r] = FALSE]
  /\ setup' = [setup EXCEPT ![r] = 0]
  /\ snap' = [snap EXCEPT ![r] = NoPosition]
  /\ observed' = [observed EXCEPT ![r] = 0]
  /\ batch' = [batch EXCEPT ![r] = <<>>]

\* Mutant: load() without the JSON error.
StartFromAnything(r) ==
  /\ Goto(r, "off", "loaded")
  /\ \E m \in Modes : mode' = [mode EXCEPT ![r] = m]
  /\ plan' = [plan EXCEPT ![r] = file]
  /\ UNCHANGED <<broker, file, trading, trailing, crashes>>

(***************************************************************************)
(* Start-up: load the record, ask the broker, reconcile.                   *)
(***************************************************************************)
Start(r) ==
  /\ Goto(r, "off", "loaded")
  /\ file # Torn
  /\ \E m \in Modes : mode' = [mode EXCEPT ![r] = m]
  /\ plan' = [plan EXCEPT ![r] = file]
  /\ UNCHANGED <<broker, file, trading, trailing, crashes>>

\* load() raises on a record that is not JSON: the process ends where it began.
StartFails(r) ==
  /\ pc[r] = "off"
  /\ file = Torn
  /\ UNCHANGED vars

Reconcile(r) ==
  /\ pc[r] = "loaded"
  /\ \E seen \in Seen :
       \/ \* no position: a plan on file is stale
          /\ seen = {}
          /\ pc' = [pc EXCEPT ![r] = IF plan[r] = NoPlan THEN "loop" ELSE "clear"]
          /\ UNCHANGED locals
       \/ \* a run allowed only to enter has nothing to do: exit code 2
          /\ seen # {}
          /\ "execute" \in mode[r] /\ "manage" \notin mode[r]
          /\ Gone(r)
       \/ /\ seen # {}
          /\ "execute" \notin mode[r] \/ "manage" \in mode[r]
          /\ plan' = [plan EXCEPT ![r] = IF Matches(@, seen) THEN @ ELSE NoPlan]
          /\ blocked' = [blocked EXCEPT ![r] = TRUE]
          /\ pc' = [pc EXCEPT ![r] = "loop"]
          /\ UNCHANGED <<mode, submitted, setup, trailing>>
  /\ UNCHANGED <<broker, file, crashes>>

\* Mutant: the plan is forgotten and its record is not.
ForgetPlan(r) ==
  /\ Goto(r, "clear", "loop")
  /\ plan' = [plan EXCEPT ![r] = NoPlan]
  /\ UNCHANGED <<broker, file, mode, trading, trailing, crashes>>

\* plan_store.clear(), for a stale plan at start-up or a position found closed
ClearPlan(r) ==
  /\ Goto(r, "clear", "loop")
  /\ file' = NoPlan
  /\ plan' = [plan EXCEPT ![r] = NoPlan]
  /\ UNCHANGED <<broker, mode, trading, trailing, crashes>>

\* Time is up, or (without "execute") a qualified shadow signal ended the run.
Exit(r) ==
  /\ pc[r] = "loop"
  /\ Gone(r)
  /\ UNCHANGED <<broker, file, crashes>>

(***************************************************************************)
(* manage_protected_position: one query, then candle after candle.         *)
(***************************************************************************)
Batches == UNION {[1 .. n -> Closes] : n \in 1 .. MaxBatch}

Manage(r) ==
  /\ pc[r] = "loop"
  /\ plan[r] # NoPlan
  /\ \E seen \in Seen, candles \in Batches :
       LET mine == {p \in seen : p.ticket = plan[r].ticket} IN
       \/ /\ mine = {}
          /\ pc' = [pc EXCEPT ![r] = "clear"]
          /\ UNCHANGED trailing
       \/ /\ pc' = [pc EXCEPT ![r] = "trail"]
          /\ \E p \in mine : snap' = [snap EXCEPT ![r] = p]
          /\ observed' = [observed EXCEPT ![r] = plan[r].milestone]
          /\ batch' = [batch EXCEPT ![r] = candles]
  /\ UNCHANGED <<broker, file, mode, plan, trading, crashes>>

Decision(r) == EvaluateTrail(Head(batch[r]), Target, snap[r].sl, observed[r])

\* The candle leads to no broker call: nothing to improve, or a run without "manage".
PassCandle(r) ==
  /\ pc[r] = "trail"
  /\ batch[r] # <<>>
  /\ ~Decision(r).modify \/ "manage" \notin mode[r]
  /\ observed' = [observed EXCEPT ![r] = Decision(r).confirmed]
  /\ batch' = [batch EXCEPT ![r] = Tail(@)]
  /\ UNCHANGED <<broker, file, pc, mode, plan, trading, snap, crashes>>

(***************************************************************************)
(* route_position_stop_update.  The gateway compares with the snapshot and *)
(* sends the snapshot's target along with the new stop.  DONE: applied.    *)
(* PLACED: counted as applied, and applied later if at all.  None:         *)
(* rejected, whatever became of the update.  Another code: rejected.       *)
(***************************************************************************)
ModifyStop(r) ==
  /\ pc[r] = "trail"
  /\ batch[r] # <<>>
  /\ Decision(r).modify /\ "manage" \in mode[r]
  /\ observed' = [observed EXCEPT ![r] = Decision(r).confirmed]
  /\ batch' = [batch EXCEPT ![r] = Tail(@)]
  /\ LET moved == [snap[r] EXCEPT !.sl = Decision(r).stop]
         live  == Holding(snap[r].ticket)
     IN  \E answer \in {"applied", "rejected"}, fate \in {"executed", "pending", "refused"} :
           /\ fate = "refused" => answer = "rejected"
           /\ fate = "pending" => LateUpdates
           /\ fate # "refused" => live # {}
           /\ positions' = IF fate = "executed" THEN (positions \ live) \cup {moved} ELSE positions
           /\ updates' = IF fate = "pending" THEN updates \cup {moved} ELSE updates
           /\ deferred' = IF fate = "pending" THEN deferred \cup {moved.ticket} ELSE deferred
           /\ \/ /\ answer = "applied"
                 /\ plan' = [plan EXCEPT ![r].milestone = Decision(r).confirmed]
                 /\ snap' = [snap EXCEPT ![r] = moved]
                 /\ pc' = [pc EXCEPT ![r] = "save"]
              \/ /\ answer = "rejected"
                 /\ UNCHANGED <<plan, snap, pc>>
  /\ UNCHANGED <<inflight, nextTicket, file, mode, trading, crashes>>

EndOfBatch(r) ==
  /\ Goto(r, "trail", "loop")
  /\ batch[r] = <<>>
  /\ snap' = [snap EXCEPT ![r] = NoPosition]
  /\ observed' = [observed EXCEPT ![r] = 0]
  /\ UNCHANGED <<broker, file, mode, plan, trading, batch, crashes>>

(***************************************************************************)
(* plan_store.save: write_text opens the file, which empties it, and then  *)
(* writes.  After an entry a run without "manage" ends with exit code 0.   *)
(***************************************************************************)
BeginSave(r) ==
  /\ Goto(r, "save", "saving")
  /\ file' = Torn
  /\ UNCHANGED <<broker, locals, crashes>>

EndSave(r) ==
  /\ pc[r] = "saving"
  /\ file' = plan[r]
  /\ IF "manage" \in mode[r]
     THEN /\ pc' = [pc EXCEPT ![r] = "trail"]
          /\ UNCHANGED locals
     ELSE Gone(r)
  /\ UNCHANGED <<broker, crashes>>

\* Mutant: entry_submitted_this_run is not looked at.
CandidateAgain(r) ==
  /\ pc[r] = "loop"
  /\ "execute" \in mode[r]
  /\ ~blocked[r] /\ plan[r] = NoPlan
  /\ \E seen \in Seen :
       \/ seen # {} /\ Gone(r)
       \/ seen = {} /\ pc' = [pc EXCEPT ![r] = "guard"] /\ UNCHANGED locals
  /\ UNCHANGED <<broker, file, crashes>>

(***************************************************************************)
(* Entry: a candidate has passed every gate of the strategy.               *)
(***************************************************************************)
\* synchronize_positions before the order: a position means exit code 2.
Candidate(r) ==
  /\ pc[r] = "loop"
  /\ "execute" \in mode[r]
  /\ ~blocked[r] /\ plan[r] = NoPlan /\ ~submitted[r]
  /\ \E seen \in Seen :
       \/ seen # {} /\ Gone(r)
       \/ seen = {} /\ pc' = [pc EXCEPT ![r] = "guard"] /\ UNCHANGED locals
  /\ UNCHANGED <<broker, file, crashes>>

\* Revalidation and the gateway's own positions_get: a refusal is exit code 1.
Guard(r) ==
  /\ pc[r] = "guard"
  /\ \/ Gone(r)
     \/ {} \in Seen /\ pc' = [pc EXCEPT ![r] = "send"] /\ UNCHANGED locals
  /\ UNCHANGED <<broker, file, crashes>>

(***************************************************************************)
(* order_send.  DONE: executed and FILLED.  PLACED: FILLED as well, but    *)
(* executed later.  Another code: REJECTED.  None: REJECTED, whatever      *)
(* became of the order.  A status that is not FILLED ends the run.         *)
(***************************************************************************)
Send(r) ==
  /\ pc[r] = "send"
  /\ \E status \in {"FILLED", "REJECTED"}, fate \in {"executed", "pending", "refused"} :
       /\ fate = "refused" => status = "REJECTED"
       /\ fate = "pending" => LateExecution
       /\ fate # "refused" => nextTicket <= MaxTicket
       /\ positions' = IF fate = "executed" THEN positions \cup {Opened(nextTicket)} ELSE positions
       /\ inflight' = IF fate = "pending" THEN inflight \cup {nextTicket} ELSE inflight
       /\ nextTicket' = IF fate = "refused" THEN nextTicket ELSE nextTicket + 1
       /\ \/ /\ status = "FILLED"
             /\ pc' = [pc EXCEPT ![r] = "filled"]
             /\ submitted' = [submitted EXCEPT ![r] = TRUE]
             /\ setup' = [setup EXCEPT ![r] = nextTicket]
             /\ UNCHANGED <<mode, plan, blocked, trailing>>
          \/ status = "REJECTED" /\ Gone(r)
  /\ UNCHANGED <<updates, deferred, file, crashes>>

\* The plan pairs the one position seen with the setup's stop and target.
AfterFill(r) ==
  /\ pc[r] = "filled"
  /\ \E seen \in Seen :
       \/ \E p \in seen :
            /\ seen = {p}
            /\ plan' = [plan EXCEPT ![r] =
                          [ticket |-> p.ticket, frame |-> setup[r], milestone |-> 0]]
            /\ pc' = [pc EXCEPT ![r] = "save"]
            /\ UNCHANGED <<mode, trading, trailing>>
       \/ /\ Cardinality(seen) # 1
          /\ IF "manage" \in mode[r]
             THEN pc' = [pc EXCEPT ![r] = "loop"] /\ UNCHANGED locals
             ELSE Gone(r)
  /\ UNCHANGED <<broker, file, crashes>>

(***************************************************************************)
(* The world around the runners.                                           *)
(***************************************************************************)
Crash(r) ==
  /\ pc[r] # "off"
  /\ crashes < MaxCrashes
  /\ crashes' = crashes + 1
  /\ Gone(r)
  /\ UNCHANGED <<broker, file>>

\* Stop or target hit, or closed by hand.
BrokerCloses ==
  /\ \E p \in positions : positions' = positions \ {p}
  /\ UNCHANGED <<inflight, nextTicket, updates, deferred, file, pc, locals, crashes>>

BrokerExecutes ==
  /\ \E t \in inflight :
       /\ inflight' = inflight \ {t}
       /\ \/ positions' = positions \cup {Opened(t)}
          \/ UNCHANGED positions
  /\ UNCHANGED <<nextTicket, updates, deferred, file, pc, locals, crashes>>

\* A stop update that was put off: it brings the stop and the target it was sent with,
\* whatever was sent since, or it comes to nothing.
BrokerUpdates ==
  /\ \E u \in updates :
       /\ updates' = updates \ {u}
       /\ \/ /\ Holding(u.ticket) # {}
             /\ positions' = (positions \ Holding(u.ticket)) \cup {u}
          \/ UNCHANGED positions
  /\ UNCHANGED <<inflight, nextTicket, deferred, file, pc, locals, crashes>>

ManualOpen ==
  /\ ManualTrading
  /\ nextTicket <= MaxTicket
  /\ positions' = positions \cup {[Opened(nextTicket) EXCEPT !.frame = 0]}
  /\ nextTicket' = nextTicket + 1
  /\ UNCHANGED <<inflight, updates, deferred, file, pc, locals, crashes>>

ManualTarget ==
  /\ ManualTrading
  /\ \E p \in positions : positions' = (positions \ {p}) \cup {[p EXCEPT !.frame = 0]}
  /\ UNCHANGED <<inflight, nextTicket, updates, deferred, file, pc, locals, crashes>>

ManualStop ==
  /\ \E p \in positions, s \in ManualStops :
       positions' = (positions \ {p}) \cup {[p EXCEPT !.sl = s]}
  /\ UNCHANGED <<inflight, nextTicket, updates, deferred, file, pc, locals, crashes>>

RunnerStep(r) ==
  \/ Start(r) \/ StartFails(r) \/ Reconcile(r) \/ ClearPlan(r) \/ Exit(r)
  \/ Manage(r) \/ PassCandle(r) \/ ModifyStop(r) \/ EndOfBatch(r)
  \/ BeginSave(r) \/ EndSave(r)
  \/ Candidate(r) \/ Guard(r) \/ Send(r) \/ AfterFill(r)

World ==
  \/ BrokerCloses \/ BrokerExecutes \/ BrokerUpdates
  \/ ManualOpen \/ ManualTarget \/ ManualStop

Next ==
  \/ \E r \in Runners : RunnerStep(r) \/ Crash(r)
  \/ World

Spec == Init /\ [][Next]_vars

\* A started process keeps executing, and its supervisor starts it again.
FairSpec == Spec /\ \A r \in Runners : WF_vars(RunnerStep(r))

(***************************************************************************)
(* Properties.                                                             *)
(***************************************************************************)

\* One runner, stopped, crashed and restarted at any point, never leaves the
\* account with two Gold positions (the single-trade limit of the gateway).
SinglePosition == \A p, q \in positions : p = q

\* The record never claims a milestone the broker's stop does not secure: the
\* stop is moved first and the milestone written afterwards, so that a crash
\* between the two loses a milestone and never invents one.  A position with an
\* update that was put off is excepted: PLACED is taken for applied, and the
\* milestone is on file before the stop has moved (mt5_gateway.py:373-377).
RecordNeverAhead ==
  \A p \in positions :
    p.ticket = file.ticket /\ file.milestone > 0 /\ p.ticket \notin deferred
    => p.sl >= StopFor(file.milestone)

\* A stop, once advanced, is never given back: not by a second candle of the
\* same batch, not after a refused or lost update, not by a restarted runner
\* that works from an older milestone.  Only an update that was put off can
\* take back what later ones brought; its position is excepted.
StopNeverRetreats ==
  [][\A p \in positions, q \in positions' :
       p.ticket = q.ticket /\ p.ticket \notin deferred => q.sl >= p.sl]_vars

\* The R-frame a plan trails with is that of the position it trails.
PlanKeepsOwnFrame ==
  \A r \in Runners : plan[r] # NoPlan => plan[r].frame = plan[r].ticket

\* A run with "manage" that is told its order was filled protects the position.
OpenedIsManaged ==
  \A r \in Runners :
    /\ pc[r] = "loop" /\ "manage" \in mode[r] /\ submitted[r]
    /\ Holding(setup[r]) # {}
    => plan[r].ticket = setup[r]

\* Whenever a runner is back at its loop, the plan in memory is the record on
\* file: restarts, refusals and lost answers never leave the two apart.
MemoryMatchesRecord ==
  \A r \in Runners : pc[r] = "loop" => plan[r] = file

\* A stopped or crashed runner leaves a record it can start from again.
RecordSurvivesRestart ==
  \A r \in Runners : pc[r] = "off" /\ positions # {} => file # Torn

\* --execute-one-demo: once told of a fill, a run opens nothing else, even after
\* that position is closed and its plan cleared.
OneEntryPerRun ==
  [][\A r \in Runners : setup[r] # 0 /\ pc'[r] # "off" => setup'[r] = setup[r]]_vars

\* A record whose position is gone does not stay: some start or some candle
\* clears it, whatever crashed in between (unless a crash tore the record).
Stale == file \notin {NoPlan, Torn} /\ Holding(file.ticket) = {}
StaleRecordIsCleared == Stale ~> ~Stale
==================================================================================
