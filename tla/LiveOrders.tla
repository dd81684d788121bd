---------------------------- MODULE LiveOrders ----------------------------
(***************************************************************************)
(* How a signal of a live deployment becomes a position at the broker      *)
(* (core/deployment_runner.py: tick_once, _tick_deployment,                *)
(* _mirror_opens_to_broker; core/runner.py: tick; core/live_executor.py:   *)
(* send_order; the expert advisor that executes the requests).             *)
(*                                                                         *)
(* One runner thread ticks the active deployments one after another.  Each *)
(* new bar is evaluated once (_last_seen_bar), on a paper ("shadow") book  *)
(* of one position, and a shadow open is mirrored to the broker through a  *)
(* request that the advisor executes on its own time, perhaps after the    *)
(* runner stopped waiting for it.  Broker positions close by themselves.   *)
(* Prices, sizes and directions are left out; a bar is its number.         *)
(***************************************************************************)
EXTENDS Integers, FiniteSets

CONSTANTS Deps,          \* deployment ids
          Symbols,       \* the account's symbols
          Ticker,        \* the symbol of each deployment
          MaxBars,       \* bound: bars per deployment
          Fires,         \* <<d, b>>: the strategy of d fires on bar b
          Gates,         \* how a tick may be kept from opening (GateResults)
          DashStatuses,  \* what the dashboard may set a deployment to
          MaxCrashes     \* bound: ends of the runner process

Statuses == {"idle", "paper", "live", "paused", "halted"}
Active   == {"paper", "live"}

(* "candles": they cannot be fetched; "sizing": its inputs are missing;    *)
(* "blocked": block_opens_reason; "journal": persisting the shadow close   *)
(* raises.                                                                 *)
GateResults == {"candles", "sizing", "blocked", "journal"}

Bars == 1..MaxBars
None == 0

ASSUME OrdersAssumption ==
    /\ "nobody" \notin Deps
    /\ Ticker \in [Deps -> Symbols]
    /\ MaxBars \in Nat
    /\ Fires \subseteq Deps \X Bars
    /\ Gates \subseteq GateResults
    /\ DashStatuses \subseteq Statuses
    /\ MaxCrashes \in Nat

VARIABLES
    bar,        \* the last bar of each deployment's candles
    status,     \* deployments.json
    requests,   \* order_send requests not executed yet
    positions,  \* broker: every position there ever was
    saved,      \* last_seen_bar in runner_state.json
    up,         \* is the runner process alive?
    crashes,    \* how often it ended
    ending,     \* how far stop() is, after SIGTERM or SIGINT
    pc,         \* where its thread is
    left,       \* deployments this tick has still to handle
    snap,       \* deployments loaded by this tick
    held,       \* open_positions_snapshot of this tick, <<deployment, symbol>>
    cur,        \* the deployment being ticked
    reply,      \* what the awaited reply file says
    seen,       \* _last_seen_bar
    shadow,     \* bar at which each shadow position was opened
    keys,       \* idempotency keys of the shadow books
    sent,       \* _seen_keys of the LiveExecutor
    astray      \* orders sent unseeing, or lost sight of (recorded)

process == <<up, crashes, ending>>
book   == <<shadow, keys>>
thread == <<pc, left, snap, held, cur, reply>>
memory == <<thread, seen, book, sent>>
vars   == <<bar, status, requests, positions, saved, process, memory, astray>>

(* A request is a file of its own: a signal that a restarted runner sends  *)
(* again is a second request.                                              *)
Signals   == Deps \X Bars
Requests  == [signal : Signals, life : 0..MaxCrashes]
Positions == [ticket : Nat \ {0}, request : Requests,
              state : {"filled", "listed", "closed"}]
NoReply   == [kind |-> "none", ticket |-> 0]
PCs       == {"idle", "tick", "guard", "send", "wait", "verify"}

LiveOrdersTypeOK ==
    /\ bar \in [Deps -> 0..MaxBars]
    /\ status \in [Deps -> Statuses]
    /\ requests \subseteq Requests
    /\ positions \subseteq Positions
    /\ saved \in [Deps -> 0..MaxBars]
    /\ up \in BOOLEAN
    /\ crashes \in 0..MaxCrashes
    /\ ending \in {"no", "join", "saved"}
    /\ pc \in PCs
    /\ left \subseteq Deps
    /\ snap \in [Deps -> Statuses]
    /\ held \subseteq (Deps \cup {"unknown"}) \X Symbols
    /\ cur \in Deps \cup {"nobody"}
    /\ reply \in [kind : {"none", "filled", "rejected"}, ticket : Nat]
    /\ seen \in [Deps -> 0..MaxBars]
    /\ shadow \in [Deps -> 0..MaxBars]
    /\ keys \subseteq Signals
    /\ sent \subseteq Signals
    /\ astray \subseteq Requests
----------------------------------------------------------------------------
(* What the code reads.                                                    *)

Listed == {p \in positions : p.state = "listed"}
OpenPositions == {p \in positions : p.state # "closed"}
SymbolOf(p) == Ticker[p.request.signal[1]]
ListedSymbols == {SymbolOf(p) : p \in Listed}

(* Mutant of NextTicket: tickets start from 0, the EA's "no ticket".       *)
NextTicket_Zero == Cardinality(positions)

NextTicket == Cardinality(positions) + 1

(* The advisor stamps this number on every position it opens, whatever     *)
(* number the executor asks for; the snapshot looks for the other one.     *)
Stamp     == 770070
BOT_MAGIC == 999001

(* _open_positions_snapshot: paper books of paper deployments, and broker  *)
(* positions of magic BOT_MAGIC (as it is: none), each given to a live     *)
(* deployment of its symbol.                                               *)
PaperHeld(st) == {<<d, Ticker[d]>> : d \in {e \in Deps : /\ st[e] = "paper"
                                                         /\ shadow[e] # None}}
BrokerHeld(st) ==
    IF Stamp # BOT_MAGIC THEN {}
    ELSE LET LiveOn(s) == {d \in Deps : st[d] = "live" /\ Ticker[d] = s}
         IN  {<<IF LiveOn(s) = {} THEN "unknown"
                ELSE CHOOSE d \in LiveOn(s) : TRUE, s>> : s \in ListedSymbols}
Snapshot(st) == PaperHeld(st) \cup BrokerHeld(st)

(* position_guard.check_open, strict: a position of another deployment on  *)
(* the symbol.                                                             *)
GuardBlocks(d) == \E h \in held : h[2] = Ticker[d] /\ h[1] # d

(* Mutant of Collides: the keys are not consulted.                         *)
Collides_NoKeys(d, sh) == sh[d] # None

(* PaperExecutor.open: IdempotencyCollision or SymbolAlreadyOpen.          *)
Collides(d, sh) == <<d, bar[d]>> \in keys \/ sh[d] # None

Job     == <<cur, bar[cur]>>
Request == [signal |-> Job, life |-> crashes]
----------------------------------------------------------------------------
Init ==
    /\ bar = [d \in Deps |-> 0]
    /\ status = [d \in Deps |-> "live"]
    /\ requests = {}
    /\ positions = {}
    /\ saved = [d \in Deps |-> None]
    /\ up = TRUE
    /\ crashes = 0
    /\ ending = "no"
    /\ pc = "idle"
    /\ left = {}
    /\ snap = [d \in Deps |-> "idle"]
    /\ held = {}
    /\ cur = "nobody"
    /\ reply = NoReply
    /\ seen = saved
    /\ shadow = [d \in Deps |-> None]
    /\ keys = {}
    /\ sent = {}
    /\ astray = {}
----------------------------------------------------------------------------
(* The market, the broker, the advisor and the dashboard.                  *)

(* A bar opens while the runner works on the last one: the bar a           *)
(* deployment acts on is fixed when its candles are fetched.               *)
NewBar(d) ==
    /\ bar[d] < MaxBars
    /\ cur # d
    /\ bar' = [bar EXCEPT ![d] = @ + 1]
    /\ UNCHANGED <<status, requests, positions, saved, process, memory,
                   astray>>

(* OnTimer and do_order_send; the reply file of a request nobody waits for *)
(* is never read.                                                          *)
Answer(r, rep) ==
    reply' = IF pc = "wait" /\ Request = r THEN rep ELSE reply

Execute(r) ==
    /\ r \in requests
    /\ requests' = requests \ {r}
    /\ positions' = positions \cup
          {[ticket |-> NextTicket, request |-> r, state |-> "filled"]}
    /\ Answer(r, [kind |-> "filled", ticket |-> NextTicket])
    /\ UNCHANGED <<bar, status, saved, process, pc, left, snap, held, cur,
                   seen, book, sent, astray>>

Reject(r) ==
    /\ r \in requests
    /\ requests' = requests \ {r}
    /\ Answer(r, [kind |-> "rejected", ticket |-> 0])
    /\ UNCHANGED <<bar, status, positions, saved, process, pc, left, snap,
                   held, cur, seen, book, sent, astray>>

Move(p, s) == positions' = (positions \ {p}) \cup {[p EXCEPT !.state = s]}

(* positions_get shows a fill some time later.                             *)
List(p) ==
    /\ p.state = "filled"
    /\ Move(p, "listed")
    /\ UNCHANGED <<bar, status, requests, saved, process, memory, astray>>

(* Server-side stop or target, or a close by hand.                         *)
ClosePosition(p) ==
    /\ p.state # "closed"
    /\ Move(p, "closed")
    /\ UNCHANGED <<bar, status, requests, saved, process, memory, astray>>

(* _check_idempotency drops keys older than seen_window_seconds.           *)
KeyExpires(r) ==
    /\ sent' = sent \ {r}
    /\ UNCHANGED <<bar, status, requests, positions, saved, process, thread,
                   seen, book, astray>>

DashboardSet(d, s) ==
    /\ status[d] # s
    /\ status' = [status EXCEPT ![d] = s]
    /\ UNCHANGED <<bar, requests, positions, saved, process, memory, astray>>
----------------------------------------------------------------------------
(* The runner.                                                             *)

(* Mutant of BeginTick: the deployments are loaded once and kept.          *)
BeginTick_Kept ==
    /\ up
    /\ pc = "idle"
    /\ ending = "no"
    /\ \E d \in Deps : status[d] \in Active
    /\ snap' = IF \E d \in Deps : snap[d] \in Active THEN snap ELSE status
    /\ held' \in {Snapshot(snap'), PaperHeld(snap')}
    /\ left' = {d \in Deps : snap'[d] \in Active}
    /\ pc' = "tick"
    /\ UNCHANGED <<bar, status, requests, positions, saved, process, cur,
                   reply, seen, book, sent, astray>>

(* A tick that gets past the breaker and the account check.  The positions *)
(* may not be readable.                                                    *)
BeginTick ==
    /\ up
    /\ pc = "idle"
    /\ ending = "no"
    /\ \E d \in Deps : status[d] \in Active
    /\ snap' = status
    /\ held' \in {Snapshot(status), PaperHeld(status)}
    /\ left' = {d \in Deps : status[d] \in Active}
    /\ pc' = "tick"
    /\ UNCHANGED <<bar, status, requests, positions, saved, process, cur,
                   reply, seen, book, sent, astray>>

Leave(d) == /\ left' = left \ {d}
            /\ cur' = "nobody"
            /\ pc' = "tick"

(* no_new_bar, or the candles could not be fetched.                        *)
NoNewBar(d) ==
    /\ up
    /\ pc = "tick"
    /\ d \in left
    /\ bar[d] <= seen[d] \/ "candles" \in Gates
    /\ Leave(d)
    /\ UNCHANGED <<bar, status, requests, positions, saved, process, snap,
                   held, reply, seen, book, sent, astray>>

Marked(d) == /\ up
             /\ pc = "tick"
             /\ d \in left
             /\ bar[d] > seen[d]
             /\ seen' = [seen EXCEPT ![d] = bar[d]]

(* The bar is marked, then sizing inputs turn out to be missing: the       *)
(* shadow book does not see this bar at all.                               *)
SizingRefused(d) ==
    /\ "sizing" \in Gates
    /\ Marked(d)
    /\ Leave(d)
    /\ UNCHANGED <<bar, status, requests, positions, saved, process, snap,
                   held, reply, book, sent, astray>>

(* update_bar: the shadow position may hit its stop or target.             *)
Updated(d) ==
    {shadow, [shadow EXCEPT ![d] = None]}

(* The strategy is silent, opens are blocked, another deployment holds the *)
(* symbol, or the shadow book refuses the open.                            *)
Quiet(d, sh) == \/ <<d, bar[d]>> \notin Fires
                \/ "blocked" \in Gates
                \/ GuardBlocks(d)
                \/ Collides(d, sh)

(* Mutant of TickQuiet: only a bar that opened something is marked.        *)
TickQuiet_Unmarked(d) ==
    /\ up
    /\ pc = "tick"
    /\ d \in left
    /\ bar[d] > seen[d]
    /\ \E sh \in Updated(d) : Quiet(d, sh) /\ shadow' = sh
    /\ Leave(d)
    /\ UNCHANGED <<bar, status, requests, positions, saved, process, snap,
                   held, reply, seen, keys, sent, astray>>

TickQuiet(d) ==
    /\ Marked(d)
    /\ \E sh \in Updated(d) : Quiet(d, sh) /\ shadow' = sh
    /\ Leave(d)
    /\ UNCHANGED <<bar, status, requests, positions, saved, process, snap,
                   held, reply, keys, sent, astray>>

ShadowOpen(d, sh) ==
    /\ <<d, bar[d]>> \in Fires
    /\ ~GuardBlocks(d)
    /\ ~Collides(d, sh)
    /\ shadow' = [sh EXCEPT ![d] = bar[d]]
    /\ keys' = keys \cup {<<d, bar[d]>>}

(* An open of a paper deployment ends here; so does a live one if the      *)
(* shadow book closed on the same bar and that close cannot be persisted:  *)
(* _persist_closed_trade raises before the mirror is reached.              *)
TickOpenNotMirrored(d) ==
    /\ Marked(d)
    /\ \E sh \in Updated(d) :
          /\ ShadowOpen(d, sh)
          /\ snap[d] = "paper" \/ (sh # shadow /\ "journal" \in Gates)
    /\ Leave(d)
    /\ UNCHANGED <<bar, status, requests, positions, saved, process, snap,
                   held, reply, sent, astray>>

(* Mutant of TickOpen: the marker is saved when it is set.                 *)
TickOpen_SaveFirst(d) ==
    /\ Marked(d)
    /\ snap[d] = "live"
    /\ \E sh \in Updated(d) : ShadowOpen(d, sh)
    /\ cur' = d
    /\ pc' = "guard"
    /\ saved' = seen'
    /\ UNCHANGED <<bar, status, requests, positions, process, left,
                   snap, held, reply, sent, astray>>

TickOpen(d) ==
    /\ Marked(d)
    /\ snap[d] = "live"
    /\ \E sh \in Updated(d) : ShadowOpen(d, sh)
    /\ cur' = d
    /\ pc' = "guard"
    /\ UNCHANGED <<bar, status, requests, positions, saved, process, left,
                   snap, held, reply, sent, astray>>

(* The ticket-already-open guard reads the positions again.                *)
GuardRefuses ==
    /\ up
    /\ pc = "guard"
    /\ Ticker[cur] \in ListedSymbols
    /\ Leave(cur)
    /\ UNCHANGED <<bar, status, requests, positions, saved, process, snap,
                   held, reply, seen, book, sent, astray>>

(* Mutant of GuardPasses: nothing is read before the send.                 *)
GuardPasses_Always ==
    /\ up
    /\ pc = "guard"
    /\ pc' = "send"
    /\ UNCHANGED <<bar, status, requests, positions, saved, process, left,
                   snap, held, cur, reply, seen, book, sent, astray>>

GuardPasses ==
    /\ up
    /\ pc = "guard"
    /\ Ticker[cur] \notin ListedSymbols
    /\ pc' = "send"
    /\ UNCHANGED <<bar, status, requests, positions, saved, process, left,
                   snap, held, cur, reply, seen, book, sent, astray>>

(* positions_get raises: the error is logged and the order sent.           *)
GuardBlind ==
    /\ up
    /\ pc = "guard"
    /\ pc' = "send"
    /\ astray' = astray \cup {Request}
    /\ UNCHANGED <<bar, status, requests, positions, saved, process, left,
                   snap, held, cur, reply, seen, book, sent>>

(* _last_seen_bar.pop: the bar is to be evaluated again.                   *)
Forget(d) == seen' = [seen EXCEPT ![d] = None]

(* SafetyCheckRejection, from the idempotency gate or another one.         *)
SendDenied ==
    /\ up
    /\ pc = "send"
    /\ Job \in sent \/ "blocked" \in Gates
    /\ Forget(cur)
    /\ Leave(cur)
    /\ UNCHANGED <<bar, status, requests, positions, saved, process, snap,
                   held, reply, book, sent, astray>>

Send ==
    /\ up
    /\ pc = "send"
    /\ Job \notin sent
    /\ sent' = sent \cup {Job}
    /\ requests' = requests \cup {Request}
    /\ reply' = NoReply
    /\ pc' = "wait"
    /\ UNCHANGED <<bar, status, positions, saved, process, left, snap,
                   held, cur, seen, book, astray>>

ReplyFilled ==
    /\ up
    /\ pc = "wait"
    /\ reply.kind = "filled"
    /\ pc' = "verify"
    /\ UNCHANGED <<bar, status, requests, positions, saved, process, left,
                   snap, held, cur, reply, seen, book, sent, astray>>

ReplyRejected ==
    /\ up
    /\ pc = "wait"
    /\ reply.kind = "rejected"
    /\ Forget(cur)
    /\ Leave(cur)
    /\ UNCHANGED <<bar, status, requests, positions, saved, process, snap,
                   held, reply, book, sent, astray>>

(* TimeoutError after 10 s: the request file stays where it is.            *)
ReplyTimeout ==
    /\ up
    /\ pc = "wait"
    /\ Forget(cur)
    /\ Leave(cur)
    /\ astray' = astray \cup {Request}
    /\ UNCHANGED <<bar, status, requests, positions, saved, process, snap,
                   held, reply, book, sent>>

(* The position is found; the next statement reads op.entry_price, which a *)
(* PaperPosition does not have, and the AttributeError ends this           *)
(* deployment's tick before the ticket is added to the map.                *)
Verified ==
    /\ up
    /\ pc = "verify"
    /\ \E p \in Listed : p.ticket = reply.ticket
    /\ Leave(cur)
    /\ UNCHANGED <<bar, status, requests, positions, saved, process, snap,
                   held, reply, seen, book, sent, astray>>

(* 15 s without a sight of it, or without a read that works: PHANTOM OPEN. *)
Phantom ==
    /\ up
    /\ pc = "verify"
    /\ Forget(cur)
    /\ Leave(cur)
    /\ astray' = astray \cup {Request}
    /\ UNCHANGED <<bar, status, requests, positions, saved, process, snap,
                   held, reply, book, sent>>

EndTick ==
    /\ up
    /\ pc = "tick"
    /\ left = {}
    /\ saved' \in {saved, seen}
    /\ held' = {}
    /\ reply' = NoReply
    /\ pc' = "idle"
    /\ UNCHANGED <<bar, status, requests, positions, process, left, snap,
                   cur, seen, book, sent, astray>>

(* The process ends; an order nobody has an answer for yet is lost from    *)
(* sight with it.                                                          *)
ProcessEnds ==
    /\ up' = FALSE
    /\ crashes' = crashes + 1
    /\ ending' = "no"
    /\ astray' = IF pc \in {"wait", "verify"} THEN astray \cup {Request}
                                             ELSE astray
    /\ pc' = "idle"
    /\ left' = {}
    /\ snap' = [d \in Deps |-> "idle"]
    /\ held' = {}
    /\ cur' = "nobody"
    /\ reply' = NoReply
    /\ seen' = [d \in Deps |-> None]
    /\ shadow' = [d \in Deps |-> None]
    /\ keys' = {}
    /\ sent' = {}
    /\ UNCHANGED <<bar, status, requests, positions, saved>>

(* A kill, or the machine goes down.                                       *)
Crash ==
    /\ up
    /\ crashes < MaxCrashes
    /\ ProcessEnds

(* SIGTERM or SIGINT: stop() lets no further tick begin, and waits for the *)
(* running one at most poll_seconds + 5 s; a mirror may take longer.       *)
Shutdown ==
    /\ up
    /\ crashes < MaxCrashes
    /\ ending = "no"
    /\ ending' = "join"
    /\ UNCHANGED <<bar, status, requests, positions, saved, up, crashes,
                   memory, astray>>

(* Then it saves the markers, wherever the tick is; the save may fail.     *)
LastSave ==
    /\ ending = "join"
    /\ saved' \in {saved, seen}
    /\ ending' = "saved"
    /\ UNCHANGED <<bar, status, requests, positions, up, crashes, memory,
                   astray>>

(* sys.exit ends the thread, a daemon, with the process.                   *)
Exit == ending = "saved" /\ ProcessEnds

Restart ==
    /\ ~up
    /\ up' = TRUE
    /\ seen' = saved
    /\ UNCHANGED <<bar, status, requests, positions, saved, crashes, ending,
                   thread, book, sent, astray>>
----------------------------------------------------------------------------
Environment ==
    \/ \E d \in Deps : NewBar(d)
    \/ \E r \in requests : Execute(r) \/ Reject(r)
    \/ \E p \in positions : List(p) \/ ClosePosition(p)
    \/ \E r \in sent : KeyExpires(r)
    \/ \E d \in Deps, s \in DashStatuses : DashboardSet(d, s)

TickDeployment(d) ==
    \/ NoNewBar(d) \/ SizingRefused(d)
    \/ TickQuiet(d) \/ TickOpenNotMirrored(d) \/ TickOpen(d)

Mirror ==
    \/ GuardRefuses \/ GuardPasses \/ GuardBlind
    \/ SendDenied \/ Send
    \/ ReplyFilled \/ ReplyRejected \/ ReplyTimeout
    \/ Verified \/ Phantom

Runner ==
    \/ BeginTick
    \/ \E d \in Deps : TickDeployment(d)
    \/ Mirror
    \/ EndTick
    \/ Shutdown \/ LastSave \/ Exit
    \/ Crash \/ Restart

Next == Environment \/ Runner

Spec == Init /\ [][Next]_vars

(* The runner's thread and its restart are scheduled for ever; nothing is  *)
(* assumed of the advisor, whose silence ends in a timeout.                *)
Fairness ==
    /\ WF_vars(BeginTick)
    /\ \A d \in Deps : WF_vars(TickDeployment(d))
    /\ WF_vars(Mirror)
    /\ WF_vars(EndTick)
    /\ WF_vars(LastSave) /\ WF_vars(Exit)
    /\ WF_vars(Restart)

FairSpec == Spec /\ Fairness
----------------------------------------------------------------------------
(* Properties.                                                             *)

(* "if either fails open (e.g. positions_get latency, race) we still won't *)
(* double-up exposure" (deployment_runner.py, _mirror_opens_to_broker):    *)
(* the account never holds two positions on a symbol.                      *)
OnePositionPerSymbol ==
    \A p, q \in OpenPositions : SymbolOf(p) = SymbolOf(q) => p = q

(* What the two guards do achieve: of two positions open on a symbol, one  *)
(* at least comes from an order sent while the positions could not be      *)
(* read, or whose answer or fill the runner gave up waiting for or did not *)
(* live to see.  Deployments that share a symbol and decide on one         *)
(* snapshot per tick, fills that are listed late, refusals, rolled-back    *)
(* markers and restarts between two orders do not double a position.       *)
DoublesAreAstray ==
    \A p, q \in OpenPositions :
        SymbolOf(p) = SymbolOf(q) /\ p # q
            => p.request \in astray \/ q.request \in astray

(* One signal, at most one order in the life of a process: no rejection,   *)
(* timeout, phantom or rolled-back marker executes a signal twice.         *)
OneOrderPerSignal ==
    \A p, q \in positions : p.request = q.request => p = q

(* A bar whose order is in the making is not on disk as handled: whatever  *)
(* interrupts the order, the restarted runner evaluates the bar again.     *)
(* Except a shutdown that did not wait for the order: stop() saves the     *)
(* markers of a tick that still runs.                                      *)
SavedMeansHandled ==
    cur \in Deps /\ saved[cur] = bar[cur] => ending = "saved"

(* Rolled-back markers and crashes do not keep the runner on a bar, or     *)
(* from a bar, for ever: for a deployment that stays active it always gets *)
(* level with the market again.                                            *)
BarsAreEvaluated ==
    \A d \in Deps : <>[](status[d] \in Active) => []<>(seen[d] = bar[d])
============================================================================
