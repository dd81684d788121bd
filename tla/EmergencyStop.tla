--------------------------- MODULE EmergencyStop ---------------------------
(***************************************************************************)
(* The operator's emergency stop beside the runner of LiveOrders: the file *)
(* EMERGENCY_STOP (core/account_manager.py), the handler of the command    *)
(* centre that touches it, closes what is open, kills the runner and halts *)
(* the live deployments (dashboards/pages/_⚡_Command_Center.py), and      *)
(* PositionManager.close_all (core/position_manager.py).                   *)
(*                                                                         *)
(* The handler is one thread of a dashboard process; each of its calls is  *)
(* a step, and runner, advisor and broker go on between them.              *)
(***************************************************************************)
EXTENDS LiveOrders

VARIABLES
    stops,  \* directories that hold a file EMERGENCY_STOP
    desk,   \* where the handler is
    todo,   \* tickets close_all has still to close
    due,    \* tickets it listed, without those it gave up (recorded)
    late    \* what was under way when the handler halted (recorded)

panel    == <<stops, desk, todo, due, late>>
stopVars == <<vars, panel>>

(* account_manager.EMERGENCY_STOP_FILE lies in data/; the runner passes no *)
(* emergency_stop_dir, and LiveExecutor falls back on the directory of the *)
(* account's database.                                                     *)
StopDir          == "data"
EmergencyStopDir == "data/accounts/login"

(* Before the handler has halted anything, and again once something was    *)
(* made live, nothing is claimed.                                          *)
NotHalted == [halted |-> FALSE, known |-> 0, requests |-> {}]

EmergencyTypeOK ==
    /\ LiveOrdersTypeOK
    /\ stops \subseteq {StopDir}
    /\ desk \in {"off", "list", "close", "kill", "halt"}
    /\ todo \subseteq due
    /\ due \subseteq 1..Cardinality(positions)
    /\ desk # "close" => todo = {}
    /\ desk \in {"off", "list"} => due = {}
    /\ late \in [halted : BOOLEAN, known : 0..Cardinality(positions),
                 requests : SUBSET Requests]
----------------------------------------------------------------------------
EmergencyInit ==
    /\ Init
    /\ stops = {}
    /\ desk = "off"
    /\ todo = {}
    /\ due = {}
    /\ late = NotHalted
----------------------------------------------------------------------------
(* Everything LiveOrders does goes on.  The executor looks for the file on *)
(* every send; a refusal on its account is one of the reasons "blocked" of *)
(* SendDenied.                                                             *)
RunnerStep ==
    /\ Next
    /\ Send => EmergencyStopDir \notin stops
    /\ late' = IF \E d \in Deps : status'[d] = "live" THEN NotHalted ELSE late
    /\ UNCHANGED <<stops, desk, todo, due>>

(* touch_emergency_stop, from the banner, the risk page or a shell.        *)
TouchOnly ==
    /\ StopDir \notin stops
    /\ stops' = stops \cup {StopDir}
    /\ UNCHANGED <<vars, desk, todo, due, late>>

(* clear_emergency_stop, from any page.                                    *)
ClearStop ==
    /\ StopDir \in stops
    /\ stops' = stops \ {StopDir}
    /\ UNCHANGED <<vars, desk, todo, due, late>>

(* ACTIVATE NOW, with or without the box that closes everything.           *)
Activate ==
    /\ desk = "off"
    /\ StopDir \notin stops
    /\ stops' = stops \cup {StopDir}
    /\ desk' \in {"list", "kill"}
    /\ UNCHANGED <<vars, todo, due, late>>

(* close_all starts from one fresh list of the account's positions.        *)
ListOpen ==
    /\ desk = "list"
    /\ todo' = {p.ticket : p \in Listed}
    /\ due' = todo'
    /\ desk' = "close"
    /\ UNCHANGED <<vars, stops, late>>

(* The bridge fails: close_all raises, the handler shows it and goes on.   *)
ListFails ==
    /\ desk = "list"
    /\ desk' = "kill"
    /\ UNCHANGED <<vars, stops, todo, due, late>>

(* close_one: one of at most three attempts is answered with ok; the       *)
(* reason "emergency_flatten" passes the stop.                             *)
CloseOk(p) ==
    /\ desk = "close"
    /\ p.ticket \in todo
    /\ p.state # "closed"
    /\ Move(p, "closed")
    /\ todo' = todo \ {p.ticket}
    /\ UNCHANGED <<bar, status, requests, saved, process, memory, astray,
                   stops, desk, due, late>>

(* Mutant of GiveUp: the first ticket that cannot be closed ends the batch. *)
GiveUp_Abort(p) ==
    /\ desk = "close"
    /\ p.ticket \in todo
    /\ todo' = {}
    /\ due' = due \ {p.ticket}
    /\ UNCHANGED <<vars, stops, desk, late>>

(* Three attempts without success: closed meanwhile, refused, or no reply. *)
(* A request executed after its caller gave up is a ClosePosition.         *)
GiveUp(p) ==
    /\ desk = "close"
    /\ p.ticket \in todo
    /\ todo' = todo \ {p.ticket}
    /\ due' = due \ {p.ticket}
    /\ UNCHANGED <<vars, stops, desk, late>>

CloseAllDone ==
    /\ desk = "close"
    /\ todo = {}
    /\ desk' = "kill"
    /\ UNCHANGED <<vars, stops, todo, due, late>>

(* pkill, if the box was ticked and a runner is there: a SIGTERM, which    *)
(* the runner answers with its shutdown while the handler goes on.         *)
KillRunner ==
    /\ desk = "kill"
    /\ Shutdown
    /\ desk' = "halt"
    /\ UNCHANGED <<stops, todo, due, late>>

LeaveRunner ==
    /\ desk = "kill"
    /\ desk' = "halt"
    /\ UNCHANGED <<vars, stops, todo, due, late>>

(* What can still become a position: requests not executed yet, the order  *)
(* in the making, and what the running tick has still to handle, on the    *)
(* bar it then finds.                                                      *)
Rest == IF pc = "tick" THEN left ELSE left \ {cur}

UnderWay ==
    requests
    \cup (IF pc \in {"guard", "send"} THEN {Request} ELSE {})
    \cup {r \in Requests : /\ r.life = crashes
                           /\ r.signal[1] \in Rest
                           /\ snap[r.signal[1]] = "live"
                           /\ r.signal[2] > seen[r.signal[1]]}

(* The live deployments are loaded, flipped and saved.                     *)
HaltLive ==
    /\ desk = "halt"
    /\ status' = [d \in Deps |-> IF status[d] = "live" THEN "halted"
                                                       ELSE status[d]]
    /\ late' = [halted |-> TRUE, known |-> Cardinality(positions),
                requests |-> UnderWay]
    /\ due' = {}
    /\ desk' = "off"
    /\ UNCHANGED <<bar, requests, positions, saved, process, memory, astray,
                   stops, todo>>
----------------------------------------------------------------------------
CloseAll == \/ ListOpen \/ ListFails
            \/ \E p \in positions : CloseOk(p) \/ GiveUp(p)
            \/ CloseAllDone

EmergencyNext ==
    \/ RunnerStep
    \/ TouchOnly \/ ClearStop
    \/ Activate \/ CloseAll \/ KillRunner \/ LeaveRunner \/ HaltLive

EmergencySpec == EmergencyInit /\ [][EmergencyNext]_stopVars

(* Nothing is assumed of the operator and the dashboard.                   *)
EmergencyFairSpec == EmergencySpec /\ Fairness
----------------------------------------------------------------------------
(* Properties.                                                             *)

(* What may be open after an emergency stop.  Every position close_all     *)
(* listed is closed unless its own close failed; and once the handler has  *)
(* halted the live deployments, only what was under way at that moment (a  *)
(* request already written, the rest of the running tick) still becomes a  *)
(* position, until somebody makes a deployment live again.                 *)
OpenAfterStop ==
    \A p \in OpenPositions :
        /\ desk # "close" => p.ticket \notin due
        /\ late.halted /\ p.ticket > late.known => p.request \in late.requests

(* "When data/EMERGENCY_STOP exists, every live order is refused."         *)
(* (emergency_stop_bar.py): no order request is written while the file is  *)
(* there.                                                                  *)
StopRefusesOrders ==
    [][(StopDir \in stops) => (requests' \subseteq requests)]_stopVars
============================================================================
