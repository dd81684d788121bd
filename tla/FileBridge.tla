---------------------------- MODULE FileBridge ----------------------------
(***************************************************************************)
(* The file protocol between the Python processes and the expert advisor   *)
(* in the MT5 terminal (core/mt5_account.py: _default_bridge_call;         *)
(* mql5/MT5BridgeFile.mq5: OnTimer, read_all, write_all).                  *)
(*                                                                         *)
(* A call writes a request file, polls for the reply file and removes both *)
(* when it has parsed the reply.  The advisor performs a request, writes   *)
(* the reply and deletes the request.  Callers run side by side (runner,   *)
(* dashboards, scripts), give up after a deadline or die; the terminal may *)
(* be stopped between any two steps and started again.  File names are     *)
(* fresh uuids, so a call is its file name; what is in a file is left out  *)
(* except for whether it is complete.                                      *)
(***************************************************************************)
EXTENDS Naturals, FiniteSets

CONSTANTS Calls,      \* every call there may ever be
          MaxStops,   \* bound: stops of the terminal
          Nobody      \* no call

ASSUME BridgeAssumption ==
    /\ MaxStops \in Nat
    /\ Nobody \notin Calls

VARIABLES
    caller,     \* where each call is
    req,        \* its request file
    rep,        \* its reply file
    advisor,    \* where OnTimer is
    serving,    \* the request OnTimer has read
    effects,    \* how often each request was performed
    stops       \* how often the terminal was stopped

files    == <<req, rep>>
terminal == <<advisor, serving>>
vars     == <<caller, files, terminal, effects, stops>>

Callers   == {"new", "written", "waiting", "parsed", "unlinked", "returned",
              "timeout", "dead"}
Requests  == {"none", "tmp", "ready"}
Replies   == {"none", "torn", "whole"}
Advisors  == {"off", "idle", "execute", "open", "write", "delete"}

BridgeTypeOK ==
    /\ caller \in [Calls -> Callers]
    /\ req \in [Calls -> Requests]
    /\ rep \in [Calls -> Replies]
    /\ advisor \in Advisors
    /\ serving \in Calls \cup {Nobody}
    /\ effects \in [Calls -> 0..(MaxStops + 1)]
    /\ stops \in 0..MaxStops

Init ==
    /\ caller = [c \in Calls |-> "new"]
    /\ req = [c \in Calls |-> "none"]
    /\ rep = [c \in Calls |-> "none"]
    /\ advisor = "idle"
    /\ serving = Nobody
    /\ effects = [c \in Calls |-> 0]
    /\ stops = 0
---------------------------------------------------------------------------
(* _default_bridge_call.                                                   *)

Goes(c, from, to) == /\ caller[c] = from
                     /\ caller' = [caller EXCEPT ![c] = to]

WriteTmp(c) ==
    /\ Goes(c, "new", "written")
    /\ req' = [req EXCEPT ![c] = "tmp"]
    /\ UNCHANGED <<rep, terminal, effects, stops>>

Rename(c) ==
    /\ Goes(c, "written", "waiting")
    /\ req' = [req EXCEPT ![c] = "ready"]
    /\ UNCHANGED <<rep, terminal, effects, stops>>

(* An empty or cut reply does not parse, and the poll goes on.             *)
ParseReply(c) ==
    /\ rep[c] = "whole"
    /\ Goes(c, "waiting", "parsed")
    /\ UNCHANGED <<files, terminal, effects, stops>>

UnlinkReply(c) ==
    /\ Goes(c, "parsed", "unlinked")
    /\ rep' = [rep EXCEPT ![c] = "none"]
    /\ UNCHANGED <<req, terminal, effects, stops>>

UnlinkRequest(c) ==
    /\ Goes(c, "unlinked", "returned")
    /\ req' = [req EXCEPT ![c] = "none"]
    /\ UNCHANGED <<rep, terminal, effects, stops>>

(* Mutant of Timeout: the request is withdrawn, though the advisor may     *)
(* have read it.                                                           *)
Timeout_Withdraw(c) ==
    /\ Goes(c, "waiting", "timeout")
    /\ req' = [req EXCEPT ![c] = "none"]
    /\ UNCHANGED <<rep, terminal, effects, stops>>

(* The deadline passes: both files stay where they are.                    *)
Timeout(c) ==
    /\ Goes(c, "waiting", "timeout")
    /\ UNCHANGED <<files, terminal, effects, stops>>

(* The calling process ends.                                               *)
Die(c) ==
    /\ caller[c] \in {"written", "waiting", "parsed", "unlinked"}
    /\ caller' = [caller EXCEPT ![c] = "dead"]
    /\ UNCHANGED <<files, terminal, effects, stops>>
---------------------------------------------------------------------------
(* OnTimer.                                                                *)

(* A listed request that is gone when it is read, is read as "": skipped.  *)
ReadRequest(c) ==
    /\ advisor = "idle"
    /\ req[c] = "ready"
    /\ advisor' = "execute"
    /\ serving' = c
    /\ UNCHANGED <<caller, files, effects, stops>>

Execute ==
    /\ advisor = "execute"
    /\ effects' = [effects EXCEPT ![serving] = @ + 1]
    /\ advisor' = "open"
    /\ UNCHANGED <<caller, files, serving, stops>>

(* FileOpen(FILE_WRITE) truncates.                                         *)
OpenReply ==
    /\ advisor = "open"
    /\ rep' = [rep EXCEPT ![serving] = "torn"]
    /\ advisor' = "write"
    /\ UNCHANGED <<caller, req, serving, effects, stops>>

(* Mutant of OpenReplyFails: the request is left for the next round.       *)
OpenReplyFails_Retry ==
    /\ advisor = "open"
    /\ advisor' = "idle"
    /\ serving' = Nobody
    /\ UNCHANGED <<caller, files, effects, stops>>

(* write_all returns without a word if the file cannot be opened, and the  *)
(* request is deleted all the same.                                        *)
OpenReplyFails ==
    /\ advisor = "open"
    /\ advisor' = "delete"
    /\ UNCHANGED <<caller, files, serving, effects, stops>>

(* A reply its caller has removed meanwhile is not there any more.         *)
WriteReply ==
    /\ advisor = "write"
    /\ rep' = [rep EXCEPT ![serving] = IF @ = "none" THEN "none" ELSE "whole"]
    /\ advisor' = "delete"
    /\ UNCHANGED <<caller, req, serving, effects, stops>>

(* Mutant of DeleteRequest: the caller is left to remove its request.      *)
DeleteRequest_Not ==
    /\ advisor = "delete"
    /\ advisor' = "idle"
    /\ serving' = Nobody
    /\ UNCHANGED <<caller, files, effects, stops>>

DeleteRequest ==
    /\ advisor = "delete"
    /\ req' = [req EXCEPT ![serving] = "none"]
    /\ advisor' = "idle"
    /\ serving' = Nobody
    /\ UNCHANGED <<caller, rep, effects, stops>>

Stop ==
    /\ advisor # "off"
    /\ stops < MaxStops
    /\ stops' = stops + 1
    /\ advisor' = "off"
    /\ serving' = Nobody
    /\ UNCHANGED <<caller, files, effects>>

(* OnInit does not look at what is left in the two directories.            *)
Start ==
    /\ advisor = "off"
    /\ advisor' = "idle"
    /\ UNCHANGED <<caller, files, serving, effects, stops>>
---------------------------------------------------------------------------
Client(c) ==
    \/ WriteTmp(c) \/ Rename(c)
    \/ ParseReply(c) \/ UnlinkReply(c) \/ UnlinkRequest(c)
    \/ Timeout(c) \/ Die(c)

OnTimer ==
    \/ \E c \in Calls : ReadRequest(c)
    \/ Execute
    \/ OpenReply \/ OpenReplyFails \/ WriteReply
    \/ DeleteRequest

Next ==
    \/ \E c \in Calls : Client(c)
    \/ OnTimer
    \/ Stop \/ Start

Spec == Init /\ [][Next]_vars

(* The terminal's timer keeps firing, a stopped terminal is started again  *)
(* (scripts/keep_mt5_alive.sh), and the directory listing does not pass    *)
(* over the same request for ever.  Nothing is assumed of the callers.     *)
FairSpec ==
    /\ Spec
    /\ WF_vars(OnTimer)
    /\ WF_vars(Start)
    /\ \A c \in Calls : SF_vars(ReadRequest(c))
---------------------------------------------------------------------------
(* Properties.                                                             *)

(* Only a stop of the terminal makes it perform a request again, and one   *)
(* stop one request once, whichever of the two sides removes the file and  *)
(* whether the caller waits, gives up or dies.                             *)
OncePlusStops == \A c \in Calls : effects[c] <= 1 + stops

(* A request that was made visible is performed, though its caller has     *)
(* given up or died: a timeout is not a refusal.                           *)
EveryRequestPerformed ==
    \A c \in Calls : (req[c] = "ready") ~> (effects[c] > 0)

(* Every performance of a call but its first, as the call and a number.    *)
Repetitions == {x \in Calls \X (2..(MaxStops + 1)) : x[2] <= effects[x[1]]}

Made     == {c \in Calls : caller[c] # "new" /\ req[c] # "tmp"}
Returned == {c \in Calls : caller[c] = "returned"}

(* The protocol implements the abstract calls: a call that returned has    *)
(* taken effect, only requests made visible take effect, and all stops     *)
(* together repeat no more calls than there were stops.                    *)
Abstract == INSTANCE BridgeCalls
    WITH Retries <- MaxStops,
         made <- Made,
         performed <- effects,
         repeated <- Cardinality(Repetitions),
         returned <- Returned
BridgeCallsSpec == Abstract!Spec
===========================================================================
