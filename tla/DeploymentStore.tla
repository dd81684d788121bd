-------------------------- MODULE DeploymentStore --------------------------
(***************************************************************************)
(* deployments.json, the list of what trades and how, and everyone who     *)
(* rewrites it: the runner (the circuit breaker's enforce, the demotion of *)
(* a decayed edge, the flush of freshness fields at the end of a tick) and *)
(* the pages of the dashboard (buttons, forms, settings, the emergency     *)
(* stop).  Nobody locks.  Every change loads the file, changes the list    *)
(* and writes it back in place: the file is truncated, then written, and   *)
(* whoever looks in between finds it empty.                                *)
(***************************************************************************)
EXTENDS Naturals, FiniteSets, Sequences, Functions

CONSTANTS Deps,        \* deployment ids
          Sessions,    \* dashboard sessions
          Wishes,      \* bound: what users ask for; "removed" removes
          MaxCrashes   \* bound: deaths of writers

Removed  == "removed"
Runner   == "runner"
Writers  == Sessions \cup {Runner}

(* DeploymentStatus, and the status only the command centre writes.        *)
Statuses == {"idle", "paper", "live", "paused", "halted", "archived"}
Lists    == [Deps -> Statuses \cup {Removed}]

(* What a page asks of the store: update_status or remove_deployment of    *)
(* one id, the upsert of a row, or a save of the list as loaded with a     *)
(* note on one row.  A row is a wish when the user chose its status, an    *)
(* edit when the page filled in the one it had loaded.                     *)
Asks == [how : {"update", "row", "edit", "note"}, dep : Deps,
         status : Statuses \cup {Removed}]

ASSUME StoreAssumption ==
    /\ IsFiniteSet(Deps)
    /\ Runner \notin Sessions
    /\ Wishes \subseteq Statuses \cup {Removed}
    /\ MaxCrashes \in Nat

VARIABLES
    form,       \* is the file whole, empty, or a mixture of two writes?
    disk,       \* the list in it when it is whole
    stage,      \* per writer: idle, a page has been loaded, about to
                \* truncate, about to write
    mem,        \* per writer: the list of its page, or the list to write
    todo,       \* per session: what the clicked button still has to ask
    goal,       \* per session: the wishes in the list being written
    pc,         \* where the runner is in tick_once
    left,       \* the active deployments still to be ticked, as loaded
    breach,     \* the breaker's verdict, and whether it halts
    crashes,    \* how many writers died
    stopped,    \* deployments a user last took out of live trading
    promoted,   \* deployments a user ever asked to be live
    careful     \* no two updates of the file overlap, and a row is edited
                \* only as it is in the file (fixed in every behaviour)

file   == <<form, disk>>
local  == <<stage, mem>>
users  == <<todo, goal>>
tick   == <<pc, left>>
wishes == <<stopped, promoted>>
vars   == <<file, local, users, tick, breach, crashes, wishes, careful>>

PCs   == {"idle", "enforce", "halting", "halted", "tick", "demoting", "flushing"}
Lefts == [Deps -> {"paper", "live", "done"}]
(* A HALT with halt_on_breach switched off is only an alarm.               *)
Verdicts == {"none", "alarm", "halt"}

StoreTypeOK ==
    /\ form \in {"whole", "empty", "mixed"}
    /\ disk \in Lists
    /\ stage \in [Writers -> {"idle", "page", "loaded", "truncated"}]
    /\ mem \in [Writers -> Lists]
    /\ todo \in [Sessions -> Seq(Asks)]
    /\ goal \in [Sessions -> SUBSET (Deps \X (Statuses \cup {Removed}))]
    /\ pc \in PCs
    /\ left \in Lefts
    /\ breach \in Verdicts
    /\ crashes \in 0..MaxCrashes
    /\ stopped \subseteq Deps
    /\ promoted \subseteq Deps
    /\ careful \in BOOLEAN

Nothing == [d \in Deps |-> Removed]
AllDone == [d \in Deps |-> "done"]
LiveIn(list) == {d \in Deps : list[d] = "live"}
Active(list) == {d \in Deps : list[d] \in {"paper", "live"}}

Init ==
    /\ form = "whole"
    /\ disk \in [Deps -> {"live", "paper"}]
    /\ stage = [w \in Writers |-> "idle"]
    /\ mem = [w \in Writers |-> Nothing]
    /\ todo = [s \in Sessions |-> <<>>]
    /\ goal = [s \in Sessions |-> {}]
    /\ pc = "idle"
    /\ left = AllDone
    /\ breach = "none"
    /\ crashes = 0
    /\ stopped = Deps \ LiveIn(disk)
    /\ promoted = LiveIn(disk)
    /\ careful \in BOOLEAN
----------------------------------------------------------------------------
(* Writing, the same for everyone.                                         *)

Writing == {w \in Writers : stage[w] \in {"loaded", "truncated"}}

(* enforce goes on with the list it loaded from one save to the next.      *)
Updating == Writing \cup {w \in {Runner} : pc = "halting"}

(* load_deployments returns: anything but a whole file raises.             *)
Loads == form = "whole" /\ (careful => Updating = {})

(* save_deployments(list) has been called.                                 *)
Save(w, list) ==
    /\ stage' = [stage EXCEPT ![w] = "loaded"]
    /\ mem' = [mem EXCEPT ![w] = list]

(* write_text opens the file for writing: it is empty from here on.        *)
Truncate(w) ==
    /\ stage[w] = "loaded"
    /\ form' = "empty"
    /\ disk' = Nothing
    /\ stage' = [stage EXCEPT ![w] = "truncated"]
    /\ UNCHANGED <<mem, users, tick, breach, crashes, wishes, careful>>

(* What the file is after a write at its beginning.  Over the longer write *)
(* of another a tail of that one stays behind.                             *)
Written == IF form = "empty" THEN {"whole"} ELSE {"whole", "mixed"}

Free(w) == mem' = [mem EXCEPT ![w] = Nothing]

(* What follows the write of a session: its wishes have come true, and the *)
(* button's next one is asked, or the page is done.                        *)
SessionWrote(s) ==
    LET live == {d \in Deps : <<d, "live">> \in goal[s]}
    IN  /\ stopped' = (stopped \cup {g[1] : g \in goal[s]}) \ live
        /\ goal' = [goal EXCEPT ![s] = {}]
        /\ stage' = [stage EXCEPT ![s] = IF todo[s] = <<>> THEN "idle" ELSE "page"]
        /\ Free(s)
        /\ UNCHANGED tick

(* What follows the write of the runner.                                   *)
RunnerWrote ==
    /\ stage' = [stage EXCEPT ![Runner] = "idle"]
    /\ IF pc = "halting" THEN UNCHANGED <<mem, pc>>
       ELSE /\ Free(Runner)
            /\ pc' = IF pc = "demoting" THEN "tick" ELSE "idle"
    /\ UNCHANGED <<left, stopped, goal>>

Write(w) ==
    /\ stage[w] = "truncated"
    /\ form' \in Written
    /\ disk' = IF form' = "whole" THEN mem[w] ELSE Nothing
    /\ IF w = Runner THEN RunnerWrote ELSE SessionWrote(w)
    /\ UNCHANGED <<todo, breach, crashes, promoted, careful>>
----------------------------------------------------------------------------
(* The dashboard.  A page is a script: every click runs it again, from the *)
(* load of the list to the handler of the button that was clicked.         *)

OpenPage(s) ==
    /\ stage[s] = "idle"
    /\ form = "whole"
    /\ stage' = [stage EXCEPT ![s] = "page"]
    /\ mem' = [mem EXCEPT ![s] = disk]
    /\ UNCHANGED <<file, users, tick, breach, crashes, wishes, careful>>

(* No button was clicked, a load raised, or the script is started afresh.  *)
LeavePage(s) ==
    /\ stage[s] = "page"
    /\ stage' = [stage EXCEPT ![s] = "idle"]
    /\ todo' = [todo EXCEPT ![s] = <<>>]
    /\ Free(s)
    /\ UNCHANGED <<file, goal, tick, breach, crashes, wishes, careful>>

OnPage(s) == stage[s] = "page" /\ todo[s] = <<>>

Update(d, status) == [how |-> "update", dep |-> d, status |-> status]
Row(d, status)    == [how |-> "row", dep |-> d, status |-> status]
Note(d)           == [how |-> "note", dep |-> d, status |-> "live"]

(* The handler of the clicked button asks the store for these, in turn.    *)
Click(s, asks) ==
    /\ OnPage(s)
    /\ asks # <<>>
    /\ todo' = [todo EXCEPT ![s] = asks]
    /\ promoted' = promoted \cup {asks[i].dep : i \in {j \in DOMAIN asks :
                       asks[j].status = "live" /\ asks[j].how # "edit"}}
    /\ Free(s)
    /\ UNCHANGED <<file, stage, goal, tick, breach, crashes, stopped, careful>>

(* The buttons of a card, by the status the page has loaded.               *)
PaperCard(cur) ==
    {IF cur = "paper" THEN "paused" ELSE "paper", "halted", Removed}
        \cup (IF cur \in {"idle", "halted"} THEN {} ELSE {"idle"})
        \cup (IF cur = "live" THEN {} ELSE {"live"})
LiveCard(cur) ==
    IF cur = "live" THEN {"paused", "paper", "halted", Removed} ELSE {}
OperationsCard(cur) ==
    {"paper", "live", Removed, IF cur = "paused" THEN "idle" ELSE "paused"}
RunPanel(cur) == IF cur \in {"paper", "live"} THEN {"idle"} ELSE {}

(* A promotion without a parity pass is followed by a note on the row.     *)
Press(s, d) ==
    \E status \in Wishes :
       /\ mem[s][d] # Removed
       /\ status \in PaperCard(mem[s][d]) \cup LiveCard(mem[s][d])
                        \cup OperationsCard(mem[s][d]) \cup RunPanel(mem[s][d])
       /\ \/ Click(s, <<Update(d, status)>>)
          \/ /\ status = "live"
             /\ mem[s][d] # "live"
             /\ Click(s, <<Update(d, status), Note(d)>>)

(* One request per deployment of a set, in the order of the page.          *)
ClickEach(s, ds, ask) ==
    \E order \in [1..Cardinality(ds) -> ds] :
       /\ IsInjective(order)
       /\ Click(s, [i \in DOMAIN order |-> ask[order[i]]])

(* "Start ALL idle as paper" and "Stop ALL paper", one after the other.    *)
ClickAll(s, ds, status) ==
    /\ status \in Wishes
    /\ ClickEach(s, ds, [d \in ds |-> Update(d, status)])
StartAll(s) == ClickAll(s, {d \in Deps : mem[s][d] \in {"idle", "paused"}}, "paper")
StopAll(s)  == ClickAll(s, {d \in Deps : mem[s][d] = "paper"}, "idle")

(* A new Deployment made from a form replaces a row of the same id.  The   *)
(* backtest page updates the status of what it has just stored.            *)
DeployCell(s, d) ==
    \E status \in Wishes \cap {"paper", "live"} :
       Click(s, <<Row(d, status), Update(d, status)>>)
AddRow(s, d) ==
    \E status \in Wishes \cap {"idle", "paper", "live"} :
       Click(s, <<Row(d, status)>>)

(* The composer stores a row for every chosen cell, live or, where a gate  *)
(* objects, paper.                                                         *)
DeployPortfolio(s) ==
    \E ds \in SUBSET Deps : \E choice \in [ds -> Wishes \cap {"paper", "live"}] :
       ClickEach(s, ds, [d \in ds |-> Row(d, choice[d])])

(* The health panel of the command centre and the paper page's "Promote"   *)
(* write the row the page holds with a status of their own.                *)
Rewrite(s, d) ==
    \E status \in Wishes \cap {"paper", "archived", "live"} :
       /\ mem[s][d] # Removed
       /\ Click(s, <<Row(d, status)>>)

Edit(d, status) == [how |-> "edit", dep |-> d, status |-> status]

(* Mutant of EditSetting: on a live page the status is taken to be "live". *)
EditSetting_LivePage(s, d) ==
    /\ mem[s][d] # Removed
    /\ Click(s, <<Edit(d, "live")>>)

(* A risk setting edited on a card: the row as loaded, status and all.     *)
EditSetting(s, d) ==
    /\ mem[s][d] # Removed
    /\ Click(s, <<Edit(d, mem[s][d])>>)

(* The table of the command centre saves every edited row, one by one.     *)
EditTable(s) ==
    \E ds \in SUBSET {d \in Deps : mem[s][d] # Removed} :
       ClickEach(s, ds, [d \in ds |-> Edit(d, mem[s][d])])

(* The list with one row changed.                                          *)
Changed(list, ask) ==
    IF ask.how = "note" THEN list ELSE [list EXCEPT ![ask.dep] = ask.status]

(* The next thing the handler asks.  An unknown id changes nothing.        *)
Ask(s) ==
    /\ stage[s] = "page"
    /\ todo[s] # <<>>
    /\ Loads
    /\ LET ask == Head(todo[s]) IN
          /\ careful /\ ask.how = "edit" => disk[ask.dep] = ask.status
          /\ IF ask.how = "update" /\ disk[ask.dep] = Removed
             THEN /\ stage' = [stage EXCEPT ![s] =
                                   IF Len(todo[s]) = 1 THEN "idle" ELSE "page"]
                  /\ UNCHANGED <<mem, goal>>
             ELSE /\ Save(s, Changed(disk, ask))
                  /\ goal' = [goal EXCEPT ![s] =
                        IF ask.how \in {"edit", "note"} THEN {} ELSE {<<ask.dep, ask.status>>}]
    /\ todo' = [todo EXCEPT ![s] = Tail(@)]
    /\ UNCHANGED <<file, tick, breach, crashes, wishes, careful>>

(* The settings page saves the whole list it has loaded.                   *)
SaveSettings(s) ==
    /\ OnPage(s)
    /\ careful => Updating = {} /\ form = "whole" /\ mem[s] = disk
    /\ Save(s, mem[s])
    /\ UNCHANGED <<file, users, tick, breach, crashes, wishes, careful>>

(* The emergency stop of the command centre: one save for all.             *)
EmergencyStop(s) ==
    /\ OnPage(s)
    /\ Loads
    /\ LiveIn(disk) # {}
    /\ Save(s, [d \in Deps |-> IF disk[d] = "live" THEN "halted" ELSE disk[d]])
    /\ goal' = [goal EXCEPT ![s] = LiveIn(disk) \X {"halted"}]
    /\ UNCHANGED <<file, todo, tick, breach, crashes, wishes, careful>>

Dashboard(s) ==
    \/ OpenPage(s) \/ LeavePage(s) \/ StartAll(s) \/ StopAll(s)
    \/ DeployPortfolio(s) \/ EditTable(s)
    \/ Ask(s) \/ SaveSettings(s) \/ EmergencyStop(s)
    \/ \E d \in Deps : \/ Press(s, d) \/ DeployCell(s, d) \/ AddRow(s, d)
                       \/ Rewrite(s, d) \/ EditSetting(s, d)
----------------------------------------------------------------------------
(* The runner.  A load that raises ends the tick (at its beginning), or    *)
(* what was being done (enforce, demotion, flush); all three are caught.   *)

(* An active deployment, and the verdict.  The tick of a HALT only halts.  *)
BeginTick ==
    /\ pc = "idle"
    /\ Loads
    /\ Active(disk) # {}
    /\ IF breach # "none" THEN pc' = "enforce" /\ left' = AllDone
       ELSE /\ pc' = "tick"
            /\ left' = [d \in Deps |-> IF d \in Active(disk) THEN disk[d] ELSE "done"]
    /\ UNCHANGED <<file, local, users, breach, crashes, wishes, careful>>

(* Mutant of HaltNext: halts in a copy and saves the list as loaded.       *)
HaltNext_Unsaved(list) ==
    /\ Save(Runner, list)
    /\ pc' = "halted"

(* enforce saves after each deployment it halts, and once more at the end. *)
HaltNext(list) ==
    IF LiveIn(list) = {} THEN Save(Runner, list) /\ pc' = "halted"
    ELSE \E d \in LiveIn(list) :
            Save(Runner, [list EXCEPT ![d] = "halted"]) /\ pc' = "halting"

(* With halting switched off the file is not even loaded.                  *)
Enforce ==
    /\ pc = "enforce"
    /\ \/ breach = "alarm" /\ pc' = "idle" /\ UNCHANGED local
       \/ /\ breach = "halt"
          /\ Loads
          /\ IF LiveIn(disk) = {} THEN pc' = "idle" /\ UNCHANGED local
                                  ELSE HaltNext(disk)
    /\ UNCHANGED <<file, users, left, breach, crashes, wishes, careful>>

Halting ==
    /\ pc = "halting"
    /\ stage[Runner] = "idle"
    /\ HaltNext(mem[Runner])
    /\ UNCHANGED <<file, users, left, breach, crashes, wishes, careful>>

(* Mutant of Demote: a status nobody declares.                             *)
Demote_Demoted(d) ==
    /\ pc = "tick"
    /\ left[d] = "live"
    /\ Loads
    /\ Save(Runner, [disk EXCEPT ![d] = "demoted"])
    /\ left' = [left EXCEPT ![d] = "done"]
    /\ pc' = "demoting"
    /\ UNCHANGED <<file, users, breach, crashes, wishes, careful>>

(* Mutant of Demote: saves the rows the tick has loaded.                   *)
Demote_TickRows(d) ==
    /\ pc = "tick"
    /\ left[d] = "live"
    /\ Loads
    /\ Save(Runner, [e \in Deps |-> IF e = d THEN "paper"
                                    ELSE IF left[e] = "done" THEN disk[e] ELSE left[e]])
    /\ left' = [left EXCEPT ![d] = "done"]
    /\ pc' = "demoting"
    /\ UNCHANGED <<file, users, breach, crashes, wishes, careful>>

(* A live deployment whose edge has decayed or whose parity is stale:      *)
(* whatever its status is by now, it becomes "paper".                      *)
Demote(d) ==
    /\ pc = "tick"
    /\ left[d] = "live"
    /\ Loads
    /\ Save(Runner, IF disk[d] = Removed THEN disk
                    ELSE [disk EXCEPT ![d] = "paper"])
    /\ left' = [left EXCEPT ![d] = "done"]
    /\ pc' = "demoting"
    /\ UNCHANGED <<file, users, breach, crashes, wishes, careful>>

(* _tick_deployment: trades on the status the tick has loaded.             *)
TickDeployment(d) ==
    /\ pc = "tick"
    /\ left[d] # "done"
    /\ left' = [left EXCEPT ![d] = "done"]
    /\ UNCHANGED <<file, local, users, pc, breach, crashes, wishes, careful>>

(* The flush re-reads the file and changes no status.                      *)
Flush ==
    /\ pc = "tick"
    /\ left = AllDone
    /\ Loads
    /\ Save(Runner, disk)
    /\ pc' = "flushing"
    /\ UNCHANGED <<file, users, left, breach, crashes, wishes, careful>>

(* Nothing to flush, or a load that raised.                                *)
EndTick ==
    /\ \/ pc = "tick" /\ left = AllDone
       \/ pc = "enforce" /\ breach = "halt" /\ form # "whole"
    /\ pc' = "idle"
    /\ UNCHANGED <<file, local, users, left, breach, crashes, wishes, careful>>

RunnerStep ==
    \/ BeginTick \/ Enforce \/ Halting \/ Flush \/ EndTick
    \/ \E d \in Deps : Demote(d) \/ TickDeployment(d)
----------------------------------------------------------------------------
(* A writer dies (the runner is restarted by launchd, the dashboard by its *)
(* user); the file stays as it is.                                         *)
Crash(w) ==
    /\ crashes < MaxCrashes
    /\ w \in Writing \/ (w = Runner /\ pc # "idle")
    /\ crashes' = crashes + 1
    /\ stage' = [stage EXCEPT ![w] = "idle"]
    /\ Free(w)
    /\ IF w = Runner THEN pc' = "idle" /\ left' = AllDone /\ UNCHANGED users
       ELSE /\ goal' = [goal EXCEPT ![w] = {}]
            /\ todo' = [todo EXCEPT ![w] = <<>>]
            /\ UNCHANGED tick
    /\ UNCHANGED <<file, breach, wishes, careful>>

(* Losses are booked, or a new day begins.  A tick asks for the verdict    *)
(* once, at its beginning, so that it may as well change between ticks.    *)
Verdict ==
    /\ pc = "idle"
    /\ breach' \in IF breach = "none" THEN {"alarm", "halt"} ELSE {"none"}
    /\ UNCHANGED <<file, local, users, tick, crashes, wishes, careful>>

(* halt_on_breach, in a settings file of its own, saved from one of three  *)
(* pages.  A tick reads it with the verdict.  (Without a breach it means   *)
(* nothing, and Verdict finds it either way.)                              *)
SetHalting ==
    /\ pc = "idle"
    /\ breach # "none"
    /\ breach' = IF breach = "halt" THEN "alarm" ELSE "halt"
    /\ UNCHANGED <<file, local, users, tick, crashes, wishes, careful>>

Next ==
    \/ \E w \in Writers : Truncate(w) \/ Write(w) \/ Crash(w)
    \/ \E s \in Sessions : Dashboard(s)
    \/ RunnerStep
    \/ Verdict \/ SetHalting

Spec == Init /\ [][Next]_vars

(* The runner's loop goes on, and a write once begun is finished.          *)
FairSpec ==
    /\ Spec
    /\ WF_vars(BeginTick) /\ WF_vars(Enforce) /\ WF_vars(Halting)
    /\ WF_vars(EndTick)
    /\ \A d \in Deps : WF_vars(TickDeployment(d))
    /\ \A w \in Writers : WF_vars(Truncate(w)) /\ WF_vars(Write(w))
----------------------------------------------------------------------------
(* Properties.                                                             *)

(* What a reader of the file would trade with real money.                  *)
Tradable == IF form = "whole" THEN LiveIn(disk) ELSE {}

(* A deployment a user took out of live trading does not come back by      *)
(* itself: neither the breach, nor a demotion, nor the flush, nor a       *)
(* change of another deployment asked on a page loaded before writes an    *)
(* older status back.  It needs updates that do not overlap and no row     *)
(* edited when it has changed since (the README says what happens          *)
(* otherwise).                                                             *)
StopsHold == careful => Tradable \cap stopped = {}

(* With overlapping updates, half-written files, stale pages and crashes a *)
(* status may be lost, but none is invented: only a deployment that a user *)
(* once made live can be traded live.                                      *)
NoneInvented == Tradable \subseteq promoted

(* While a breach lasts, halting is switched on and the dashboard is left  *)
(* alone, live trading ends for good, in spite of overlapping updates and  *)
(* crashes before.                                                         *)
Quiet == Sessions \cap Writing = {} /\ \A s \in Sessions : todo[s] = <<>>
BreachEndsLive == <>[](breach = "halt" /\ Quiet) => <>[](Tradable = {})
============================================================================
