-------------------------- MODULE CloseReconciler --------------------------
(***************************************************************************)
(* How the live runner finds out that the broker closed a position and     *)
(* writes the close to the trades table, which is what the circuit breaker *)
(* reads (core/deployment_runner.py: tick_once, _reconcile_live_closes,    *)
(* _persist_closed_trade; core/live_close_reconciler.py).                  *)
(*                                                                         *)
(* One runner thread steps through a tick while the broker closes          *)
(* positions, its deal history lags behind, the dashboard changes the      *)
(* deployments, and the process may die and be restarted between any two   *)
(* steps.  The state that survives is the trades table and                 *)
(* runner_state.json; everything else is memory.                           *)
(*                                                                         *)
(* Prices, sizes and amounts are abstracted: every modelled close is a     *)
(* losing one.  Ticket 0 stands for "no broker ticket".                    *)
(***************************************************************************)
EXTENDS Integers, FiniteSets

CONSTANTS Tickets,        \* tickets of the broker's positions
          Tracked,        \* those in the map the runner starts with
          Deps,           \* deployment ids
          Owner,          \* the deployment of each ticket's context
          Partial,        \* tickets that may be closed in two parts
          DashStatuses,   \* what the dashboard may set a deployment to
          HaltAt,         \* losing live rows at which the breaker says HALT
          MaxShadow,      \* bound: rows written for closes of the paper book
          ReadFaults,     \* may a read of the trades table raise?
          Ages            \* may a deal leave the 48 h history window?

Statuses == {"idle", "paper", "live", "paused", "halted"}
Active   == {"paper", "live"}
Removed  == "removed"
Parts    == {"partial", "final"}
Unknown  == -1
NoSnap   == [d \in Deps |-> "idle"]

ASSUME ConstAssumption ==
    /\ Tickets \subseteq Nat \ {0}
    /\ Tracked \subseteq Tickets
    /\ Owner \in [Tickets -> Deps]
    /\ Partial \subseteq Tickets
    /\ DashStatuses \subseteq Statuses \cup {Removed}
    /\ HaltAt \in Nat \ {0}
    /\ MaxShadow \in Nat
    /\ ReadFaults \in BOOLEAN
    /\ Ages \in BOOLEAN

VARIABLES
    position,   \* broker: "open" or "closed" per ticket
    deal,       \* broker: the state of each OUT deal of a ticket
    status,     \* deployments.json
    trades,     \* the trades table
    saved,      \* open_live_tickets in runner_state.json
    up,         \* is the runner process alive?
    pc,         \* where its thread is
    snap,       \* deployments loaded by this tick
    tracked,    \* _open_live_tickets
    todo,       \* vanished tickets not handled yet
    fetched,    \* OUT deals returned by history_deals_get
    settled,    \* result["reconciled"] and result["skipped_already_persisted"]
    dirty,      \* does the result ask for a save?
    job,        \* the close being persisted
    next        \* _trade_idx_by_dep

broker == <<position, deal>>
disk   == <<trades, saved>>
memory == <<pc, snap, tracked, todo, fetched, settled, dirty, job, next>>
vars   == <<broker, status, disk, up, memory>>

DealStates == {"none", "booked", "shown", "aged"}
Jobs  == [run : Deps, ticket : Tickets \cup {0}, mode : Statuses,
          deal : Parts \cup {"none"}]
NoJob == [ticket |-> -1]
Rows  == [run : Deps, idx : Nat, key : Nat,
          ticket : Tickets \cup {0}, mode : Active,
          deal : Parts \cup {"none"}]
PCs   == {"idle", "positions", "history", "check", "hydrate", "insert",
          "settle", "deps"}

TypeOK ==
    /\ position \in [Tickets -> {"open", "closed"}]
    /\ deal \in [Tickets -> [Parts -> DealStates]]
    /\ status \in [Deps -> Statuses \cup {Removed}]
    /\ trades \subseteq Rows
    /\ saved \subseteq Tickets
    /\ up \in BOOLEAN
    /\ pc \in PCs
    /\ snap \in [Deps -> Statuses \cup {Removed}]
    /\ tracked \subseteq Tickets
    /\ todo \subseteq Tickets
    /\ fetched \subseteq Tickets \X Parts
    /\ settled \subseteq Tickets
    /\ dirty \in BOOLEAN
    /\ job \in Jobs \cup {NoJob}
    /\ next \in [Deps -> Nat \cup {Unknown}]

----------------------------------------------------------------------------
(* What the code reads.                                                    *)

OpenTickets == {t \in Tickets : position[t] = "open"}

(* The advisor stamps this number on every position it opens, whatever     *)
(* number the caller asks for; the reconciler looks for the other one.     *)
Stamp     == 770070
BOT_MAGIC == 999001

(* positions_get filtered to magic == BOT_MAGIC.  As the two numbers       *)
(* differ, no position of the bot's own passes the filter: every tracked   *)
(* ticket counts as vanished in every tick, open or not.                   *)
BotTickets == {t \in OpenTickets : Stamp = BOT_MAGIC}

(* Mutant of ShownDeals: deals that open a position are not filtered out.  *)
ShownDeals_AllDeals ==
    {x \in Tickets \X Parts : deal[x[1]][x[2]] = "shown"}
        \cup {<<t, "final">> : t \in OpenTickets}

(* The OUT deals that the broker's history shows.                          *)
ShownDeals == {x \in Tickets \X Parts : deal[x[1]][x[2]] = "shown"}

(* Mutant of KeyStored: the idempotency check is left out.                 *)
KeyStored_Unchecked(t) == FALSE

(* already_persisted: is there a row with this close's idempotency key?    *)
KeyStored(t) == \E r \in trades : r.key = t

(* It answers False when the read raises, whatever is stored.              *)
SeenUnstored(t) == ~KeyStored(t) \/ ReadFaults

Indices(d) == {r.idx : r \in {q \in trades : q.run = d}}

(* Mutant of NextIndex: trade_idx is hardcoded to 0.                       *)
NextIndex_Zero(d) == 0

(* SELECT COALESCE(MAX(trade_idx), -1) + 1                                 *)
NextIndex(d) ==
    IF Indices(d) = {} THEN 0
    ELSE 1 + CHOOSE m \in Indices(d) : \A i \in Indices(d) : i <= m

(* find_close_deal: the latest OUT deal of the position.                   *)
CloseParts(t) == {p \in Parts : <<t, p>> \in fetched}
CloseDeal(t)  == IF "final" \in CloseParts(t) THEN "final" ELSE "partial"

(* Mutant of RowMode: no stub for a removed deployment.                    *)
RowMode_NoStub(d) == snap[d]

(* The mode column: the status of the deployment as this tick loaded it,   *)
(* "live" for the stub built when the deployment has been removed.         *)
RowMode(d) == IF snap[d] = Removed THEN "live" ELSE snap[d]

(* CHECK (mode IN ('backtest','paper','live')) and the primary key.        *)
Insertable(j) == /\ j.mode \in Active
                 /\ next[j.run] \notin Indices(j.run)

LiveLosses == Cardinality({r \in trades : r.mode = "live"})
HaltVerdict == LiveLosses >= HaltAt
SomeActive  == \E d \in Deps : status[d] \in Active

First(t) == t \in todo /\ \A u \in todo : t <= u
----------------------------------------------------------------------------
Init ==
    /\ position = [t \in Tickets |-> "open"]
    /\ deal = [t \in Tickets |-> [p \in Parts |-> "none"]]
    /\ status = [d \in Deps |-> "live"]
    /\ trades = {}
    /\ saved = Tracked
    /\ up = TRUE
    /\ pc = "idle"
    /\ snap = NoSnap
    /\ tracked = saved
    /\ todo = {}
    /\ fetched = {}
    /\ settled = {}
    /\ dirty = FALSE
    /\ job = NoJob
    /\ next = [d \in Deps |-> Unknown]
----------------------------------------------------------------------------
(* The broker.                                                             *)

BrokerPartial(t) ==
    /\ t \in Partial
    /\ position[t] = "open"
    /\ deal[t]["partial"] = "none"
    /\ deal' = [deal EXCEPT ![t]["partial"] = "booked"]
    /\ UNCHANGED <<position, status, disk, up, memory>>

BrokerClose(t) ==
    /\ position[t] = "open"
    /\ position' = [position EXCEPT ![t] = "closed"]
    /\ deal' = [deal EXCEPT ![t]["final"] = "booked"]
    /\ UNCHANGED <<status, disk, up, memory>>

(* The deal history lags behind the position list ("bridge lag").          *)
DealShows(t, p) ==
    /\ deal[t][p] = "booked"
    /\ deal' = [deal EXCEPT ![t][p] = "shown"]
    /\ UNCHANGED <<position, status, disk, up, memory>>

DealAges(t, p) ==
    /\ Ages
    /\ deal[t][p] \in {"booked", "shown"}
    /\ deal' = [deal EXCEPT ![t][p] = "aged"]
    /\ UNCHANGED <<position, status, disk, up, memory>>

(* The dashboard pauses, halts, demotes, promotes or removes a deployment. *)
DashboardSet(d, s) ==
    /\ status[d] # s
    /\ status' = [status EXCEPT ![d] = s]
    /\ UNCHANGED <<broker, disk, up, memory>>
----------------------------------------------------------------------------
(* The runner.                                                             *)

(* A tick that reaches the reconciliation: there is an active deployment,  *)
(* the breaker does not say HALT and the account matches.  The other ticks *)
(* return without touching this module's state, except HaltTick.           *)
BeginTick ==
    /\ up
    /\ pc = "idle"
    /\ SomeActive
    /\ ~HaltVerdict
    /\ snap' = status
    /\ pc' = IF tracked = {} THEN "deps" ELSE "positions"
    /\ UNCHANGED <<broker, status, disk, up, tracked, todo, fetched, settled,
                   dirty, job, next>>

(* circuit_breaker.enforce, after which tick_once returns: no              *)
(* reconciliation in a tick that halts.                                    *)
HaltTick ==
    /\ up
    /\ pc = "idle"
    /\ SomeActive
    /\ HaltVerdict
    /\ status' = [d \in Deps |-> IF status[d] = "live" THEN "halted"
                                 ELSE status[d]]
    /\ UNCHANGED <<broker, disk, up, memory>>

ReadPositions ==
    /\ up
    /\ pc = "positions"
    /\ todo' = tracked \ BotTickets
    /\ pc' = IF todo' = {} THEN "deps" ELSE "history"
    /\ UNCHANGED <<broker, status, disk, up, snap, tracked, fetched, settled,
                   dirty, job, next>>

ReadPositionsFails ==
    /\ up
    /\ pc = "positions"
    /\ pc' = "deps"
    /\ UNCHANGED <<broker, status, disk, up, snap, tracked, todo, fetched,
                   settled, dirty, job, next>>

FetchHistory ==
    /\ up
    /\ pc = "history"
    /\ fetched' = ShownDeals
    /\ pc' = "check"
    /\ UNCHANGED <<broker, status, disk, up, snap, tracked, todo, settled,
                   dirty, job, next>>

(* Every vanished ticket becomes an error and stays tracked.               *)
FetchHistoryFails ==
    /\ up
    /\ pc = "history"
    /\ todo' = {}
    /\ dirty' = TRUE
    /\ pc' = "settle"
    /\ UNCHANGED <<broker, status, disk, up, snap, tracked, fetched, settled,
                   job, next>>

SkipPersisted(t) ==
    /\ up
    /\ pc = "check"
    /\ First(t)
    /\ KeyStored(t)
    /\ todo' = todo \ {t}
    /\ settled' = settled \cup {t}
    /\ dirty' = TRUE
    /\ UNCHANGED <<broker, status, disk, up, pc, snap, tracked, fetched, job,
                   next>>

(* No OUT deal yet: the ticket stays tracked and is retried next tick.     *)
Unmatched(t) ==
    /\ up
    /\ pc = "check"
    /\ First(t)
    /\ SeenUnstored(t)
    /\ CloseParts(t) = {}
    /\ todo' = todo \ {t}
    /\ UNCHANGED <<broker, status, disk, up, pc, snap, tracked, fetched,
                   settled, dirty, job, next>>

(* Mutant of BeginPersist: a vanished ticket is written without a deal.    *)
BeginPersist_NoDeal(t) ==
    /\ up
    /\ pc = "check"
    /\ First(t)
    /\ SeenUnstored(t)
    /\ job' = [run |-> Owner[t], ticket |-> t, mode |-> RowMode(Owner[t]),
               deal |-> CloseDeal(t)]
    /\ pc' = "hydrate"
    /\ UNCHANGED <<broker, status, disk, up, snap, tracked, todo, fetched,
                   settled, dirty, next>>

BeginPersist(t) ==
    /\ up
    /\ pc = "check"
    /\ First(t)
    /\ SeenUnstored(t)
    /\ CloseParts(t) # {}
    /\ job' = [run |-> Owner[t], ticket |-> t, mode |-> RowMode(Owner[t]),
               deal |-> CloseDeal(t)]
    /\ pc' = "hydrate"
    /\ UNCHANGED <<broker, status, disk, up, snap, tracked, todo, fetched,
                   settled, dirty, next>>

(* _next_trade_idx: the counter is read from the table on first use only,  *)
(* and starts from 0 if that read raises.                                  *)
HydratedIndex(d) ==
    IF next[d] # Unknown THEN {next[d]}
    ELSE {NextIndex(d)} \cup (IF ReadFaults THEN {0} ELSE {})

Hydrate ==
    /\ up
    /\ pc = "hydrate"
    /\ \E i \in HydratedIndex(job.run) : next' = [next EXCEPT ![job.run] = i]
    /\ pc' = "insert"
    /\ UNCHANGED <<broker, status, disk, up, snap, tracked, todo, fetched,
                   settled, dirty, job>>

(* The idempotency key is close:<ticket> for a broker close; the key of a  *)
(* paper close never equals one of those.                                  *)
NewRow == [run |-> job.run, idx |-> next[job.run], key |-> job.ticket,
           ticket |-> job.ticket, mode |-> job.mode, deal |-> job.deal]

AfterPersist == IF job.ticket = 0 THEN "deps" ELSE "check"

Insert ==
    /\ up
    /\ pc = "insert"
    /\ Insertable(job)
    /\ trades' = trades \cup {NewRow}
    /\ next' = [next EXCEPT ![job.run] = @ + 1]
    /\ settled' = IF job.ticket = 0 THEN settled ELSE settled \cup {job.ticket}
    /\ dirty' = (dirty \/ job.ticket # 0)
    /\ todo' = todo \ {job.ticket}
    /\ job' = NoJob
    /\ pc' = AfterPersist
    /\ UNCHANGED <<broker, status, saved, up, snap, tracked, fetched>>

(* Mutants of InsertFails: the exception is swallowed, so that the ticket  *)
(* counts as reconciled; the counter is not rolled back.                   *)
InsertFails_Swallowed ==
    /\ up
    /\ pc = "insert"
    /\ settled' = IF job.ticket = 0 THEN settled ELSE settled \cup {job.ticket}
    /\ dirty' = (dirty \/ job.ticket # 0)
    /\ todo' = todo \ {job.ticket}
    /\ job' = NoJob
    /\ pc' = AfterPersist
    /\ UNCHANGED <<broker, status, disk, up, snap, tracked, fetched, next>>

InsertFails_NoRollback ==
    /\ up
    /\ pc = "insert"
    /\ next' = [next EXCEPT ![job.run] = @ + 1]
    /\ dirty' = (dirty \/ job.ticket # 0)
    /\ todo' = todo \ {job.ticket}
    /\ job' = NoJob
    /\ pc' = AfterPersist
    /\ UNCHANGED <<broker, status, disk, up, snap, tracked, fetched, settled>>

(* A constraint fails, or the database is locked: the counter is rolled    *)
(* back, the alarm row is written and the exception re-raised; the ticket  *)
(* ends in result["errors"] and stays tracked.                             *)
InsertFails ==
    /\ up
    /\ pc = "insert"
    /\ dirty' = (dirty \/ job.ticket # 0)
    /\ todo' = todo \ {job.ticket}
    /\ job' = NoJob
    /\ pc' = AfterPersist
    /\ UNCHANGED <<broker, status, disk, up, snap, tracked, fetched, settled,
                   next>>

ReconcileDone ==
    /\ up
    /\ pc = "check"
    /\ todo = {}
    /\ pc' = "settle"
    /\ UNCHANGED <<broker, status, disk, up, snap, tracked, todo, fetched,
                   settled, dirty, job, next>>

(* The handled tickets leave the map; _save_state writes the trimmed map   *)
(* (temp file and rename) or logs that it could not.                       *)
Settle ==
    /\ up
    /\ pc = "settle"
    /\ tracked' = tracked \ settled
    /\ saved' \in {saved} \cup (IF dirty THEN {tracked'} ELSE {})
    /\ settled' = {}
    /\ fetched' = {}
    /\ dirty' = FALSE
    /\ pc' = "deps"
    /\ UNCHANGED <<broker, status, trades, up, snap, todo, job, next>>

(* Mutant of ShadowClose: the deployment is loaded again for its mode.     *)
ShadowClose_Reloaded(d) ==
    /\ up
    /\ pc = "deps"
    /\ snap[d] \in Active
    /\ Cardinality({r \in trades : r.ticket = 0}) < MaxShadow
    /\ job' = [run |-> d, ticket |-> 0, mode |-> status[d], deal |-> "none"]
    /\ pc' = "hydrate"
    /\ UNCHANGED <<broker, status, disk, up, snap, tracked, todo, fetched,
                   settled, dirty, next>>

(* While the deployments are ticked, the in-memory paper book of one of    *)
(* them closes a position and the close is persisted the same way.         *)
ShadowClose(d) ==
    /\ up
    /\ pc = "deps"
    /\ snap[d] \in Active
    /\ Cardinality({r \in trades : r.ticket = 0}) < MaxShadow
    /\ job' = [run |-> d, ticket |-> 0, mode |-> snap[d], deal |-> "none"]
    /\ pc' = "hydrate"
    /\ UNCHANGED <<broker, status, disk, up, snap, tracked, todo, fetched,
                   settled, dirty, next>>

EndTick ==
    /\ up
    /\ pc = "deps"
    /\ saved' \in {saved, tracked}
    /\ snap' = NoSnap
    /\ pc' = "idle"
    /\ UNCHANGED <<broker, status, trades, up, tracked, todo, fetched, settled,
                   dirty, job, next>>

(* The process goes, and its memory with it.                               *)
ProcessEnds ==
    /\ up
    /\ up' = FALSE
    /\ pc' = "idle"
    /\ snap' = NoSnap
    /\ tracked' = {}
    /\ todo' = {}
    /\ fetched' = {}
    /\ settled' = {}
    /\ dirty' = FALSE
    /\ job' = NoJob
    /\ next' = [d \in Deps |-> Unknown]
    /\ UNCHANGED <<broker, status, trades>>

(* A kill, or the machine goes down.                                       *)
Crash == ProcessEnds /\ saved' = saved

(* SIGTERM or SIGINT: the main thread waits for the running tick, but not  *)
(* for ever, and saves the map as it is before the process exits.          *)
Stop == ProcessEnds /\ saved' \in {saved, tracked}

(* Mutant of Restart: the map is not read back.                            *)
Restart_Empty ==
    /\ ~up
    /\ up' = TRUE
    /\ tracked' = {}
    /\ UNCHANGED <<broker, status, disk, pc, snap, todo, fetched, settled,
                   dirty, job, next>>

(* __post_init__ runs _load_state.                                         *)
Restart ==
    /\ ~up
    /\ up' = TRUE
    /\ tracked' = saved
    /\ UNCHANGED <<broker, status, disk, pc, snap, todo, fetched, settled,
                   dirty, job, next>>
----------------------------------------------------------------------------
Environment ==
    \/ \E t \in Tickets : BrokerPartial(t) \/ BrokerClose(t)
    \/ \E t \in Tickets, p \in Parts : DealShows(t, p) \/ DealAges(t, p)
    \/ \E d \in Deps, s \in DashStatuses : DashboardSet(d, s)

Runner ==
    \/ BeginTick \/ HaltTick
    \/ ReadPositions \/ ReadPositionsFails
    \/ FetchHistory \/ FetchHistoryFails
    \/ \E t \in Tickets : SkipPersisted(t) \/ Unmatched(t) \/ BeginPersist(t)
    \/ Hydrate \/ Insert \/ InsertFails
    \/ ReconcileDone \/ Settle
    \/ \E d \in Deps : ShadowClose(d)
    \/ EndTick
    \/ Crash \/ Stop \/ Restart

Next == Environment \/ Runner

Spec == Init /\ [][Next]_vars

(* Fairness: the machine schedules the runner, the operator restarts it,   *)
(* the broker's history catches up, and a fault (a bridge error, a locked  *)
(* database, a crash) does not hit the same step for ever.                 *)
Fairness ==
    /\ WF_vars(\E t \in Tickets, p \in Parts : DealShows(t, p))
    /\ WF_vars(Restart)
    /\ SF_vars(BeginTick)
    /\ SF_vars(ReadPositions)
    /\ SF_vars(FetchHistory)
    /\ \A t \in Tickets :
          SF_vars(SkipPersisted(t) \/ Unmatched(t) \/ BeginPersist(t))
    /\ SF_vars(Hydrate)
    /\ SF_vars(Insert)
    /\ SF_vars(ReconcileDone)
    /\ SF_vars(Settle)
    /\ SF_vars(EndTick)

FairSpec == Spec /\ Fairness
----------------------------------------------------------------------------
(* Properties.                                                             *)

Journalled(t) == \E r \in trades : r.ticket = t

(* A broker close is one row of the trades table, whatever crash, failed   *)
(* save or retry comes between its INSERT and its removal from the map:    *)
(* the breaker must not count a loss twice.                                *)
NoDoubleJournal ==
    \A r, s \in trades : r.ticket = s.ticket /\ r.ticket # 0 => r = s

(* A row tells a deal that closed the position or a part of it: the table  *)
(* tells the breaker of no loss that did not happen, though open positions *)
(* count as vanished, and a row that tells the last deal is one of a       *)
(* position that is gone.  (A position closed in part is journalled while  *)
(* the rest of it is open, and the close of the rest never is: the row     *)
(* carries the key of the ticket.)                                         *)
JournalOnlyDealt ==
    \A r \in trades : r.ticket # 0 =>
        /\ deal[r.ticket][r.deal] # "none"
        /\ r.deal = "final" => position[r.ticket] = "closed"

(* A ticket leaves the map, in memory or on disk, only when a close of it  *)
(* is in the table: no failed fetch, missing deal, refused INSERT or crash *)
(* makes the runner forget a live position.                                *)
NothingForgotten ==
    \A t \in Tracked : t \notin saved \/ (up /\ t \notin tracked) => Journalled(t)

(* The rows of a deployment are numbered 0, 1, 2, ...: a failed INSERT     *)
(* gives its number back and a restart continues where the table ends.     *)
DenseIndices ==
    \A d \in Deps : \A i \in Indices(d) : 0..i \subseteq Indices(d)

(* An INSERT never fails on the primary key: the number the counter holds  *)
(* is free when it is used.                                                *)
FreshIndex == pc = "insert" => next[job.run] \notin Indices(job.run)

(* The reconciler implements the abstract journal.                         *)
Whole == {t \in Tickets : \A p \in Parts : deal[t][p] = "none"}
Journal == INSTANCE TradeJournal
    WITH Tracked <- Tickets,
         whole <- Whole,
         rows <- [t \in Tickets |-> Cardinality({r \in trades : r.ticket = t})]
JournalSpec == Journal!Spec

(* If from some time on every deployment stays active and the breaker says *)
(* no HALT (so that ticks reach the reconciliation and the mode column is  *)
(* accepted), no close of a tracked position is owed for ever: it reaches  *)
(* the table, unless faults last until its deal has left the window of     *)
(* 48 h.  (Closes, rows and aged deals stay: what is settled stays so.)    *)
ClosesReachJournal ==
    <>[](~HaltVerdict /\ \A d \in Deps : status[d] \in Active)
        => []<>(\A t \in Tracked : position[t] = "closed" =>
                    Journalled(t) \/ deal[t]["final"] = "aged")
===========================================================================
