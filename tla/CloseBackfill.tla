--------------------------- MODULE CloseBackfill ---------------------------
(***************************************************************************)
(* The recovery script scripts/reconcile_missing_live_closes.py beside the *)
(* runner of CloseReconciler: a second process that reads the same broker  *)
(* history and writes the same trades table, with a counter of its own, a  *)
(* mode column that is always "live" and, for a position the runner has no *)
(* context of, a context made up from the deal that opened it.             *)
(***************************************************************************)
EXTENDS CloseReconciler

CONSTANTS InDeal,       \* number of the deal that opened each position
          Candidates,   \* the deployments on the symbol of each position
          MaxRows       \* bound: rows after which the script is not started

ASSUME BackfillAssumption ==
    /\ InDeal \in [Tickets -> Nat \ {0}]
    /\ Candidates \in [Tickets -> SUBSET Deps]
    /\ MaxRows \in Nat

VARIABLES
    bpc,        \* where the script is
    bsnap,      \* deployments it loaded
    bctx,       \* tracked contexts it read from runner_state.json
    bdeals,     \* OUT deals still to be handled
    bjob,       \* the close being persisted
    bnext,      \* its trade_idx_by_dep
    beside      \* may the script run while the runner does? (fixed)

script  == <<bpc, bsnap, bctx, bdeals, bjob, bnext>>
allVars == <<vars, script, beside>>

BPCs  == {"off", "fetch", "loop", "hydrate", "insert"}
BJobs == [run : Deps, ticket : Tickets, key : Nat, deal : Parts]

BackfillTypeOK ==
    /\ TypeOK
    /\ bpc \in BPCs
    /\ bsnap \in [Deps -> Statuses \cup {Removed}]
    /\ bctx \subseteq Tickets
    /\ bdeals \subseteq Tickets \X Parts
    /\ bjob \in BJobs \cup {NoJob}
    /\ bnext \in [Deps -> Nat \cup {Unknown}]
    /\ beside \in BOOLEAN

BackfillInit ==
    /\ Init
    /\ bpc = "off"
    /\ bsnap = NoSnap
    /\ bctx = {}
    /\ bdeals = {}
    /\ bjob = NoJob
    /\ bnext = [d \in Deps |-> Unknown]
    /\ beside \in BOOLEAN
----------------------------------------------------------------------------
(* Mutant of WindowDeals: deals that open a position are not filtered out. *)
WindowDeals_AllDeals ==
    {x \in Tickets \X Parts : deal[x[1]][x[2]] \in {"shown", "aged"}}
        \cup {<<t, "final">> : t \in OpenTickets}

(* The script's window is 168 h: it still shows deals that have left the   *)
(* runner's 48 h.  Every OUT deal is taken, of bot positions and others.   *)
WindowDeals == {x \in Tickets \X Parts : deal[x[1]][x[2]] \in {"shown", "aged"}}

(* Deals come in the order of the history: the partial one first.          *)
NextDeal(t, p) ==
    /\ <<t, p>> \in bdeals
    /\ p = "final" => <<t, "partial">> \notin bdeals

(* _build_ctx_from_open_deal: an active deployment on the deal's symbol,   *)
(* a live one if there is one.                                             *)
Guess(t) ==
    LET act  == {d \in Candidates[t] : bsnap[d] \in Active}
        live == {d \in act : bsnap[d] = "live"}
    IN  IF live # {} THEN live ELSE act

(* Mutant of Contexts: both kinds are keyed by the opening deal.           *)
Contexts_DealKeyed(t) ==
    IF t \in bctx THEN {[run |-> Owner[t], key |-> InDeal[t]]}
    ELSE {[run |-> d, key |-> InDeal[t]] : d \in Guess(t)}

(* The tracked context if there is one, keyed by the position's ticket;    *)
(* otherwise the made-up one, keyed by the number of the opening deal.     *)
Contexts(t) ==
    IF t \in bctx THEN {[run |-> Owner[t], key |-> t]}
    ELSE {[run |-> d, key |-> InDeal[t]] : d \in Guess(t)}

ScriptStart ==
    /\ bpc = "off"
    /\ beside \/ ~up
    /\ Cardinality(trades) < MaxRows
    /\ bsnap' = status
    /\ bctx' = saved
    /\ bpc' = "fetch"
    /\ UNCHANGED <<vars, beside, bdeals, bjob, bnext>>

ScriptFetch ==
    /\ bpc = "fetch"
    /\ bdeals' = WindowDeals
    /\ bpc' = "loop"
    /\ UNCHANGED <<vars, beside, bsnap, bctx, bjob, bnext>>

(* already_persisted(match_ticket), or no context to attribute it to.      *)
ScriptSkip(t, p) ==
    /\ bpc = "loop"
    /\ NextDeal(t, p)
    /\ KeyStored(t) \/ Contexts(t) = {}
    /\ bdeals' = bdeals \ {<<t, p>>}
    /\ UNCHANGED <<vars, beside, bpc, bsnap, bctx, bjob, bnext>>

ScriptPersist(t, p) ==
    /\ bpc = "loop"
    /\ NextDeal(t, p)
    /\ SeenUnstored(t)
    /\ \E c \in Contexts(t) :
          bjob' = [run |-> c.run, ticket |-> t, key |-> c.key, deal |-> p]
    /\ bdeals' = bdeals \ {<<t, p>>}
    /\ bpc' = "hydrate"
    /\ UNCHANGED <<vars, beside, bsnap, bctx, bnext>>

(* Its _next_trade_idx hands the number out for good, with no rollback,    *)
(* and starts from 0 if the table cannot be read.                          *)
ScriptIndex(d) ==
    IF bnext[d] # Unknown THEN {bnext[d]}
    ELSE {NextIndex(d)} \cup (IF ReadFaults THEN {0} ELSE {})

ScriptHydrate ==
    /\ bpc = "hydrate"
    /\ \E i \in ScriptIndex(bjob.run) : bnext' = [bnext EXCEPT ![bjob.run] = i]
    /\ bpc' = "insert"
    /\ UNCHANGED <<vars, beside, bsnap, bctx, bdeals, bjob>>

ScriptRow == [run |-> bjob.run, idx |-> bnext[bjob.run], key |-> bjob.key,
              ticket |-> bjob.ticket, mode |-> "live", deal |-> bjob.deal]

ScriptInsert ==
    /\ bpc = "insert"
    /\ bnext[bjob.run] \notin Indices(bjob.run)
    /\ trades' = trades \cup {ScriptRow}
    /\ bnext' = [bnext EXCEPT ![bjob.run] = @ + 1]
    /\ bjob' = NoJob
    /\ bpc' = "loop"
    /\ UNCHANGED <<broker, status, saved, up, memory, beside, bsnap, bctx,
                   bdeals>>

ScriptInsertFails ==
    /\ bpc = "insert"
    /\ bnext' = [bnext EXCEPT ![bjob.run] = @ + 1]
    /\ bjob' = NoJob
    /\ bpc' = "loop"
    /\ UNCHANGED <<vars, beside, bsnap, bctx, bdeals>>

(* The script ends, or is killed anywhere.                                 *)
ScriptEnd ==
    /\ bpc # "off"
    /\ bpc' = "off"
    /\ bsnap' = NoSnap
    /\ bctx' = {}
    /\ bdeals' = {}
    /\ bjob' = NoJob
    /\ bnext' = [d \in Deps |-> Unknown]
    /\ UNCHANGED <<vars, beside>>

Script ==
    \/ ScriptStart \/ ScriptFetch
    \/ \E t \in Tickets, p \in Parts : ScriptSkip(t, p) \/ ScriptPersist(t, p)
    \/ ScriptHydrate \/ ScriptInsert \/ ScriptInsertFails
    \/ ScriptEnd

(* Unless beside, the operator starts the runner again only after the      *)
(* script has ended.                                                       *)
OneAtATime == ~beside /\ bpc # "off" => up' = up

BackfillNext ==
    \/ Next /\ OneAtATime /\ UNCHANGED <<script, beside>>
    \/ Script

BackfillSpec == BackfillInit /\ [][BackfillNext]_allVars
----------------------------------------------------------------------------
(* Properties.  Beside a running runner the script may write a close twice *)
(* and collide on numbers: nothing locks check and insert together.        *)

(* Even then no close is journalled that did not happen, and no ticket     *)
(* leaves the runner's map before a close of it is in the table: the       *)
(* second writer neither runs ahead of the broker nor hides a close from   *)
(* the first.                                                              *)
BesideInOrder == JournalOnlyDealt /\ NothingForgotten

(* With the runner stopped, as the script's usage has it, the close of a   *)
(* tracked position is one row through runs of the script, crashes and     *)
(* restarts, and neither counter holds a number the other has taken, on    *)
(* which inserts would fail for ever.  (The close of a position nobody     *)
(* tracks is keyed by its opening deal and looked up by its ticket: a      *)
(* second run of the script writes it again.)                              *)
TrackedOnce ==
    \A r, s \in trades : r.ticket = s.ticket /\ r.ticket \in Tracked => r = s

ScriptIndexFresh ==
    bpc = "insert" => bnext[bjob.run] \notin Indices(bjob.run)

AloneInOrder == ~beside => TrackedOnce /\ FreshIndex /\ ScriptIndexFresh
============================================================================
