-------------------------- MODULE FileBridgeProofs --------------------------
(***************************************************************************)
(* For any calls and any number of stops of the terminal: no request is    *)
(* performed more often than once and once more for every stop, all stops  *)
(* together repeat no more calls than there were stops, and the protocol   *)
(* implements the abstract calls of BridgeCalls.                           *)
(***************************************************************************)
EXTENDS FileBridge, FiniteSetTheorems, TLAPS

(* The caller has renamed its request: only then can the advisor see it.   *)
Visible(c) == caller[c] \notin {"new", "written"}

(* The advisor has performed the request it is serving and not yet deleted *)
(* it, so that it does not read it again.                                  *)
BeingRetired(c) == /\ serving = c
                   /\ advisor \in {"open", "write", "delete"}

(* Only a request that is visible and not being retired may be performed   *)
(* (again), and it has been performed at most once for every stop.         *)
MayBePerformed(c) == \/ ~Visible(c)
                     \/ req[c] = "ready" /\ ~BeingRetired(c)
                     \/ advisor = "execute" /\ serving = c

BridgeTypes ==
    /\ caller \in [Calls -> Callers]
    /\ req \in [Calls -> Requests]
    /\ rep \in [Calls -> Replies]
    /\ advisor \in Advisors
    /\ serving \in Calls \cup {Nobody}
    /\ effects \in [Calls -> Nat]
    /\ stops \in 0..MaxStops

BridgeInv ==
    /\ BridgeTypes
    /\ advisor \notin {"off", "idle"} => serving \in Calls /\ Visible(serving)
    /\ \A c \in Calls : req[c] = "ready" => Visible(c)
    /\ \A c \in Calls : /\ effects[c] <= 1 + stops
                        /\ MayBePerformed(c) => effects[c] <= stops

(* Each of the two phases of a call and each step of the advisor keeps     *)
(* BridgeInv; only Execute adds an effect, and only Stop and the end of a  *)
(* deletion let the advisor read again.                                    *)
LEMMA InitBridge == Init => BridgeInv
  BY BridgeAssumption DEF Init, BridgeInv, BridgeTypes, MayBePerformed, Visible,
     BeingRetired, Callers, Requests, Replies, Advisors

(* A step of a caller.                                                     *)
LEMMA ClientBridge ==
  ASSUME BridgeInv, NEW d \in Calls, Client(d)
  PROVE  BridgeInv'
<1> USE BridgeAssumption DEF BridgeInv, BridgeTypes, MayBePerformed, Visible,
        BeingRetired, Goes, files, terminal, Callers, Requests
<1>1. CASE WriteTmp(d)
  BY <1>1 DEF WriteTmp
<1>2. CASE Rename(d)
  BY <1>2 DEF Rename
<1>3. CASE ParseReply(d)
  BY <1>3 DEF ParseReply
<1>4. CASE UnlinkReply(d)
  BY <1>4 DEF UnlinkReply, Replies
<1>5. CASE UnlinkRequest(d)
  BY <1>5 DEF UnlinkRequest
<1>6. CASE Timeout(d)
  BY <1>6 DEF Timeout
<1>7. CASE Die(d)
  BY <1>7 DEF Die
<1> QED
  BY <1>1, <1>2, <1>3, <1>4, <1>5, <1>6, <1>7 DEF Client

(* A step of the advisor.                                                  *)
LEMMA OnTimerBridge ==
  ASSUME BridgeInv, OnTimer
  PROVE  BridgeInv'
<1> USE BridgeAssumption DEF BridgeInv, BridgeTypes, MayBePerformed, Visible,
        BeingRetired, files, terminal, Advisors
<1>1. CASE \E c \in Calls : ReadRequest(c)
  BY <1>1 DEF ReadRequest
<1>2. CASE Execute
  BY <1>2 DEF Execute
<1>3. CASE OpenReply
  BY <1>3 DEF OpenReply, Replies
<1>4. CASE OpenReplyFails
  BY <1>4 DEF OpenReplyFails
<1>5. CASE WriteReply
  BY <1>5 DEF WriteReply, Replies
<1>6. CASE DeleteRequest
  BY <1>6 DEF DeleteRequest, Requests
<1> QED
  BY <1>1, <1>2, <1>3, <1>4, <1>5, <1>6 DEF OnTimer

(* The terminal goes down or comes back.                                   *)
LEMMA TerminalBridge ==
  ASSUME BridgeInv, Stop \/ Start
  PROVE  BridgeInv'
<1> USE BridgeAssumption DEF BridgeInv, BridgeTypes, MayBePerformed, Visible,
        BeingRetired, files, terminal, Advisors
<1>1. CASE Stop
  BY <1>1 DEF Stop
<1>2. CASE Start
  BY <1>2 DEF Start
<1> QED
  BY <1>1, <1>2

(* Any step keeps BridgeInv.                                               *)
LEMMA BridgeStep == BridgeInv /\ [Next]_vars => BridgeInv'
<1>1. BridgeInv /\ UNCHANGED vars => BridgeInv'
  BY DEF BridgeInv, BridgeTypes, MayBePerformed, Visible, BeingRetired, vars,
         files, terminal
<1> QED
  BY <1>1, ClientBridge, OnTimerBridge, TerminalBridge DEF Next

(* BridgeInv holds in every reachable state.                               *)
LEMMA BridgeInvariant == Spec => []BridgeInv
BY InitBridge, BridgeStep, PTL DEF Spec

(* A request is performed at most once, and once more for every stop of    *)
(* the terminal that fell between its execution and its deletion.          *)
THEOREM RepeatedByStopsOnly == Spec => []OncePlusStops
<1>1. BridgeInv => OncePlusStops
  BY DEF BridgeInv, OncePlusStops
<1> QED
  BY <1>1, BridgeInvariant, PTL

(* Every variable stays in its set, the effects within their bound.        *)
THEOREM BridgeTypeCorrect == Spec => []BridgeTypeOK
<1>1. BridgeInv => BridgeTypeOK
  <2> SUFFICES ASSUME BridgeInv PROVE BridgeTypeOK
    OBVIOUS
  <2>1. \A c \in Calls : effects[c] \in 0..(MaxStops + 1)
    BY BridgeAssumption DEF BridgeInv, BridgeTypes
  <2> QED
    BY <2>1 DEF BridgeInv, BridgeTypes, BridgeTypeOK
<1> QED
  BY <1>1, BridgeInvariant, PTL

---------------------------------------------------------------------------
(* The refinement.  A reply is written, and so parsed, only after the      *)
(* request was performed; a request file is temporary only until its       *)
(* caller renames it, or for ever if that caller dies.                     *)
ReplyInv ==
    /\ \A c \in Calls : ~Visible(c) => effects[c] = 0
    /\ \A c \in Calls : rep[c] # "none" => effects[c] > 0
    /\ \A c \in Calls :
          caller[c] \in {"parsed", "unlinked", "returned"} => effects[c] > 0
    /\ advisor \in {"open", "write", "delete"} => effects[serving] > 0
    /\ \A c \in Calls : caller[c] = "new" => req[c] = "none"
    /\ \A c \in Calls : caller[c] = "written" => req[c] = "tmp"
    /\ \A c \in Calls : req[c] = "tmp" => caller[c] \in {"written", "dead"}
    /\ advisor \notin {"off", "idle"} => req[serving] # "tmp"

(* A performed request whose file the advisor may still read, or is about  *)
(* to perform again, owes one repetition; the number of a call's           *)
(* performances when all is paid.                                          *)
Owed(c)  == effects[c] > 0 /\ MayBePerformed(c)
Total(c) == IF Owed(c) THEN effects[c] + 1 ELSE effects[c]

(* The repetitions made and owed: never more than there were stops.        *)
Debt == {x \in Calls \X Nat : 2 <= x[2] /\ x[2] <= Total(x[1])}

DebtInv == IsFiniteSet(Debt) /\ Cardinality(Debt) <= stops

RefineInv == BridgeInv /\ ReplyInv /\ DebtInv

(* Nothing is written, served or performed at first.                       *)
LEMMA ReplyInit == Init => ReplyInv
BY BridgeAssumption DEF Init, ReplyInv, Visible

(* The caller's steps and the advisor's keep ReplyInv.                     *)
LEMMA ReplyNext ==
  ASSUME BridgeInv, ReplyInv, [Next]_vars
  PROVE  ReplyInv'
<1> USE BridgeAssumption DEF BridgeInv, BridgeTypes, ReplyInv, Visible, files,
        terminal
<1>1. ASSUME NEW d \in Calls, Client(d) PROVE ReplyInv'
  <2> USE DEF Goes
  <2>1. CASE WriteTmp(d)
    BY <2>1 DEF WriteTmp
  <2>2. CASE Rename(d)
    BY <2>2 DEF Rename
  <2>3. CASE ParseReply(d)
    BY <2>3 DEF ParseReply
  <2>4. CASE UnlinkReply(d)
    BY <2>4 DEF UnlinkReply
  <2>5. CASE UnlinkRequest(d)
    BY <2>5 DEF UnlinkRequest
  <2>6. CASE Timeout(d)
    BY <2>6 DEF Timeout
  <2>7. CASE Die(d)
    BY <2>7 DEF Die
  <2> QED
    BY <1>1, <2>1, <2>2, <2>3, <2>4, <2>5, <2>6, <2>7 DEF Client
<1>2. CASE \E c \in Calls : ReadRequest(c)
  BY <1>2 DEF ReadRequest
<1>3. CASE Execute
  BY <1>3 DEF Execute
<1>4. CASE OpenReply
  BY <1>4 DEF OpenReply
<1>5. CASE OpenReplyFails
  BY <1>5 DEF OpenReplyFails
<1>6. CASE WriteReply
  BY <1>6 DEF WriteReply
<1>7. CASE DeleteRequest
  BY <1>7 DEF DeleteRequest
<1>8. CASE Stop
  BY <1>8 DEF Stop
<1>9. CASE Start
  BY <1>9 DEF Start
<1>10. CASE UNCHANGED vars
  BY <1>10 DEF vars
<1> QED
  BY <1>1, <1>2, <1>3, <1>4, <1>5, <1>6, <1>7, <1>8, <1>9, <1>10
     DEF Next, OnTimer

(* At first nothing is owed.                                               *)
LEMMA DebtInit == Init => DebtInv
<1> SUFFICES ASSUME Init PROVE DebtInv
  OBVIOUS
<1>1. Debt = {}
  BY DEF Init, Debt, Total, Owed
<1>2. stops = 0
  BY DEF Init
<1> QED
  BY <1>1, <1>2, FS_EmptySet DEF DebtInv

(* A step that raises no call's total, or to no more than 1, adds nothing. *)
LEMMA DebtShrinks ==
  ASSUME BridgeInv, BridgeInv', DebtInv, stops' = stops,
         \A c \in Calls : Total(c)' <= Total(c) \/ Total(c)' <= 1
  PROVE  DebtInv'
<1>1. \A c \in Calls : Total(c) \in Nat /\ Total(c)' \in Nat
  BY DEF Total, BridgeInv, BridgeTypes
<1>2. Debt' \subseteq Debt
  <2> SUFFICES ASSUME NEW x \in Debt' PROVE x \in Debt
    OBVIOUS
  <2>1. x \in Calls \X Nat /\ 2 <= x[2] /\ x[2] <= Total(x[1])'
    BY DEF Debt
  <2>2. x[1] \in Calls /\ x[2] \in Nat
    BY <2>1
  <2>3. x[2] <= Total(x[1])
    BY <1>1, <2>1, <2>2
  <2> QED
    BY <2>1, <2>3 DEF Debt
<1>3. IsFiniteSet(Debt') /\ Cardinality(Debt') <= Cardinality(Debt)
  BY <1>2, FS_Subset DEF DebtInv
<1>4. Cardinality(Debt) \in Nat /\ Cardinality(Debt') \in Nat /\ stops \in Nat
  BY <1>3, FS_CardinalityType DEF DebtInv, BridgeInv, BridgeTypes
<1> QED
  BY <1>3, <1>4 DEF DebtInv

(* Only a stop runs into debt, and by one: the request being retired.      *)
LEMMA DebtStop ==
  ASSUME BridgeInv, BridgeInv', DebtInv, Stop
  PROVE  DebtInv'
<1> USE BridgeAssumption DEF BridgeInv, BridgeTypes
<1> DEFINE more == <<serving, Total(serving) + 1>>
<1>1. \A c \in Calls : Total(c) \in Nat /\ Total(c)' \in Nat
  BY DEF Total
<1>2. ASSUME NEW c \in Calls
      PROVE  Total(c)' <= IF c = serving THEN Total(c) + 1 ELSE Total(c)
  BY DEF Stop, Total, Owed, MayBePerformed, Visible, BeingRetired, files
<1>3. Debt' \subseteq Debt \cup {more}
  <2> SUFFICES ASSUME NEW x \in Debt' PROVE x \in Debt \cup {more}
    OBVIOUS
  <2>1. x \in Calls \X Nat /\ 2 <= x[2] /\ x[2] <= Total(x[1])'
    BY DEF Debt
  <2>2. x = <<x[1], x[2]>> /\ x[1] \in Calls /\ x[2] \in Nat
    BY <2>1
  <2>3. CASE x[2] <= Total(x[1])
    BY <2>1, <2>3 DEF Debt
  <2>4. CASE ~(x[2] <= Total(x[1]))
    <3>1. x[1] = serving
      BY <1>1, <1>2, <2>1, <2>2, <2>4
    <3>2. x[2] = Total(serving) + 1
      BY <1>1, <1>2, <2>1, <2>2, <2>4, <3>1
    <3> QED
      BY <2>2, <3>1, <3>2
  <2> QED
    BY <2>3, <2>4
<1>4. IsFiniteSet(Debt \cup {more})
      /\ Cardinality(Debt \cup {more}) \in {Cardinality(Debt), Cardinality(Debt) + 1}
  <2>1. Cardinality(Debt) \in Nat
    BY FS_CardinalityType DEF DebtInv
  <2> HIDE DEF more
  <2>2. CASE more \in Debt
    BY <2>2, Debt \cup {more} = Debt DEF DebtInv
  <2>3. CASE more \notin Debt
    BY <2>3, FS_AddElement DEF DebtInv
  <2> QED
    BY <2>2, <2>3
<1> HIDE DEF more
<1>5. IsFiniteSet(Debt') /\ Cardinality(Debt') <= Cardinality(Debt \cup {more})
  BY <1>3, <1>4, FS_Subset
<1>6. Cardinality(Debt) \in Nat /\ Cardinality(Debt') \in Nat
  BY <1>5, FS_CardinalityType DEF DebtInv
<1>7. stops' = stops + 1 /\ stops \in Nat
  BY DEF Stop
<1> QED
  BY <1>4, <1>5, <1>6, <1>7 DEF DebtInv

(* To be performed again takes what was owed; everything else that is not  *)
(* a stop leaves the debt as it is, or forgives it with the request.       *)
LEMMA DebtNext ==
  ASSUME RefineInv, BridgeInv', [Next]_vars
  PROVE  DebtInv'
<1> USE BridgeAssumption DEF RefineInv
<1>1. ASSUME stops' = stops,
             \A c \in Calls : Total(c)' <= Total(c) \/ Total(c)' <= 1
      PROVE  DebtInv'
  BY <1>1, DebtShrinks
<1>2. CASE Stop
  BY <1>2, DebtStop
<1> USE DEF BridgeInv, BridgeTypes, ReplyInv, Total, Owed, MayBePerformed,
        Visible, BeingRetired, files, terminal
<1>3. ASSUME NEW d \in Calls, Client(d) PROVE DebtInv'
  <2> USE DEF Goes
  <2>1. \A c \in Calls : Total(c)' <= Total(c) \/ Total(c)' <= 1
    <3>1. CASE WriteTmp(d)
      BY <3>1 DEF WriteTmp
    <3>2. CASE Rename(d)
      BY <3>2 DEF Rename
    <3>3. CASE ParseReply(d)
      BY <3>3 DEF ParseReply
    <3>4. CASE UnlinkReply(d)
      BY <3>4 DEF UnlinkReply
    <3>5. CASE UnlinkRequest(d)
      BY <3>5 DEF UnlinkRequest
    <3>6. CASE Timeout(d)
      BY <3>6 DEF Timeout
    <3>7. CASE Die(d)
      BY <3>7 DEF Die
    <3> QED
      BY <1>3, <3>1, <3>2, <3>3, <3>4, <3>5, <3>6, <3>7 DEF Client
  <2>2. stops' = stops
    BY <1>3 DEF Client, WriteTmp, Rename, ParseReply, UnlinkReply,
                UnlinkRequest, Timeout, Die
  <2> QED
    BY <1>1, <2>1, <2>2
<1>4. CASE OnTimer
  <2>1. \A c \in Calls : Total(c)' <= Total(c) \/ Total(c)' <= 1
    <3>1. CASE \E c \in Calls : ReadRequest(c)
      BY <3>1 DEF ReadRequest
    <3>2. CASE Execute
      BY <3>2 DEF Execute
    <3>3. CASE OpenReply
      BY <3>3 DEF OpenReply
    <3>4. CASE OpenReplyFails
      BY <3>4 DEF OpenReplyFails
    <3>5. CASE WriteReply
      BY <3>5 DEF WriteReply
    <3>6. CASE DeleteRequest
      BY <3>6 DEF DeleteRequest
    <3> QED
      BY <1>4, <3>1, <3>2, <3>3, <3>4, <3>5, <3>6 DEF OnTimer
  <2>2. stops' = stops
    BY <1>4 DEF OnTimer, ReadRequest, Execute, OpenReply, OpenReplyFails,
                WriteReply, DeleteRequest
  <2> QED
    BY <1>1, <2>1, <2>2
<1>5. CASE Start
  <2>1. \A c \in Calls : Total(c)' <= Total(c) \/ Total(c)' <= 1
    BY <1>5 DEF Start
  <2> QED
    BY <1>1, <1>5, <2>1 DEF Start
<1>6. CASE UNCHANGED vars
  <2>1. \A c \in Calls : Total(c)' <= Total(c) \/ Total(c)' <= 1
    BY <1>6 DEF vars
  <2> QED
    BY <1>1, <1>6, <2>1 DEF vars
<1> QED
  BY <1>2, <1>3, <1>4, <1>5, <1>6 DEF Next

(* The repetitions that have happened are part of the debt.                *)
LEMMA RepetitionsInDebt ==
  ASSUME RefineInv
  PROVE  /\ Repetitions \subseteq Debt
         /\ IsFiniteSet(Repetitions) /\ Cardinality(Repetitions) \in Nat
         /\ Cardinality(Repetitions) <= stops
<1> USE BridgeAssumption DEF RefineInv, BridgeInv, BridgeTypes
<1>1. ASSUME NEW x \in Repetitions PROVE x \in Debt
  <2>1. x \in Calls \X (2..(MaxStops + 1)) /\ x[2] <= effects[x[1]]
    BY DEF Repetitions
  <2>2. x \in Calls \X Nat /\ x[1] \in Calls /\ x[2] \in Nat /\ 2 <= x[2]
    BY <2>1
  <2>3. x[2] <= Total(x[1])
    BY <2>1, <2>2 DEF Total
  <2> QED
    BY <2>2, <2>3 DEF Debt
<1>2. IsFiniteSet(Repetitions) /\ Cardinality(Repetitions) <= Cardinality(Debt)
  BY <1>1, FS_Subset DEF DebtInv
<1>3. Cardinality(Repetitions) \in Nat /\ Cardinality(Debt) \in Nat
  BY <1>2, FS_CardinalityType DEF DebtInv
<1> QED
  BY <1>1, <1>2, <1>3 DEF DebtInv

(* In every state the refinement invariant allows.                         *)
LEMMA RepeatedAtMostStops == RefineInv => Cardinality(Repetitions) <= stops
BY RepetitionsInDebt

(* A further performance, of which there are at most MaxStops + 1, is one  *)
(* more repetition unless it is the first.                                 *)
LEMMA RepetitionsGrow ==
  ASSUME BridgeInv, BridgeInv', NEW c \in Calls,
         effects' = [effects EXCEPT ![c] = @ + 1]
  PROVE  Repetitions' = IF effects[c] = 0 THEN Repetitions
                        ELSE Repetitions \cup {<<c, effects[c] + 1>>}
<1> USE BridgeAssumption DEF BridgeInv, BridgeTypes
<1> DEFINE Pairs == Calls \X (2..(MaxStops + 1))
<1>1. effects[c] \in Nat /\ effects'[c] = effects[c] + 1
      /\ \A d \in Calls : d # c => effects'[d] = effects[d]
  OBVIOUS
<1>2. effects'[c] <= MaxStops + 1
  <2>1. effects'[c] <= 1 + stops' /\ stops' \in 0..MaxStops
    OBVIOUS
  <2> QED
    BY <1>1, <2>1
<1>3. ASSUME NEW x \in Pairs
      PROVE  x[2] <= effects'[x[1]] <=>
                 \/ x[2] <= effects[x[1]]
                 \/ x = <<c, effects[c] + 1>>
  <2>1. x = <<x[1], x[2]>> /\ x[1] \in Calls /\ x[2] \in Nat
    BY <1>3
  <2>2. CASE x[1] # c
    BY <1>1, <2>1, <2>2
  <2>3. CASE x[1] = c
    <3>1. x[2] <= effects[c] + 1 <=> x[2] <= effects[c] \/ x[2] = effects[c] + 1
      BY <1>1, <2>1
    <3> QED
      BY <1>1, <2>1, <2>3, <3>1
  <2> QED
    BY <2>2, <2>3
<1>4. <<c, effects[c] + 1>> \in Pairs <=> effects[c] # 0
  BY <1>1, <1>2
<1> QED
  BY <1>3, <1>4 DEF Repetitions

(* The invariant of the refinement holds initially and is kept.            *)
LEMMA RefineInit == Init => RefineInv
BY InitBridge, ReplyInit, DebtInit DEF RefineInv

LEMMA RefineNext == RefineInv /\ [Next]_vars => RefineInv'
<1> SUFFICES ASSUME RefineInv, [Next]_vars PROVE RefineInv'
  OBVIOUS
<1>1. BridgeInv'
  BY BridgeStep DEF RefineInv
<1> QED
  BY <1>1, ReplyNext, DebtNext DEF RefineInv

(* A step that performs nothing repeats nothing.                           *)
LEMMA MapStable ==
  ASSUME UNCHANGED <<effects, Made, Returned>>
  PROVE  UNCHANGED Abstract!vars
BY DEF Abstract!vars, Repetitions

(* Rename is Make, UnlinkRequest is Return, Execute is Perform the first   *)
(* time and Repeat from then on; every other step is a stutter.            *)
LEMMA SimulateClient ==
  ASSUME RefineInv, NEW d \in Calls, Client(d)
  PROVE  [Abstract!Next]_(Abstract!vars)
<1> USE DEF RefineInv, BridgeInv, BridgeTypes, ReplyInv, Goes, files, terminal
<1>1. effects' = effects
  BY DEF Client, WriteTmp, Rename, ParseReply, UnlinkReply, UnlinkRequest,
         Timeout, Die
<1>2. Repetitions' = Repetitions
  BY <1>1 DEF Repetitions
<1>3. CASE Rename(d)
  <2>1. d \notin Made /\ Made' = Made \cup {d}
    BY <1>3 DEF Rename, Made
  <2>2. Returned' = Returned
    BY <1>3 DEF Rename, Returned
  <2>3. Abstract!Make(d)
    BY <1>1, <1>2, <2>1, <2>2 DEF Abstract!Make
  <2> QED
    BY <2>3 DEF Abstract!Next
<1>4. CASE UnlinkRequest(d)
  <2>1. effects[d] > 0 /\ Returned' = Returned \cup {d}
    BY <1>4 DEF UnlinkRequest, Returned
  <2>2. Made' = Made
    BY <1>4 DEF UnlinkRequest, Made
  <2>3. Abstract!Return(d)
    BY <1>1, <1>2, <2>1, <2>2 DEF Abstract!Return
  <2> QED
    BY <2>3 DEF Abstract!Next
<1>5. ASSUME ~Rename(d), ~UnlinkRequest(d) PROVE UNCHANGED <<Made, Returned>>
  BY <1>5 DEF Client, WriteTmp, ParseReply, UnlinkReply, Timeout, Die, Made,
              Returned
<1> QED
  BY <1>1, <1>3, <1>4, <1>5, MapStable

(* The first performance is Perform; a further one was owed, so there is   *)
(* a stop it can be charged to.                                            *)
LEMMA SimulateExecute ==
  ASSUME RefineInv, RefineInv', Execute
  PROVE  Abstract!Next
<1> USE DEF RefineInv, BridgeInv, BridgeTypes, ReplyInv, files, terminal
<1>1. /\ serving \in Calls /\ serving \in Made
      /\ effects' = [effects EXCEPT ![serving] = @ + 1]
      /\ effects[serving] \in Nat
      /\ Made' = Made /\ Returned' = Returned
  BY DEF Execute, Made, Returned, Visible
<1>2. CASE effects[serving] = 0
  <2>1. Repetitions' = Repetitions
    BY <1>1, <1>2, RepetitionsGrow
  <2>2. effects' = [effects EXCEPT ![serving] = 1]
    BY <1>1, <1>2
  <2>3. Abstract!Perform(serving)
    BY <1>1, <1>2, <2>1, <2>2 DEF Abstract!Perform
  <2> QED
    BY <1>1, <2>3 DEF Abstract!Next
<1>3. CASE effects[serving] # 0
  <2>1. Repetitions' = Repetitions \cup {<<serving, effects[serving] + 1>>}
    BY <1>1, <1>3, RepetitionsGrow
  <2>2. <<serving, effects[serving] + 1>> \notin Repetitions
    BY <1>1 DEF Repetitions
  <2>3. Cardinality(Repetitions') = Cardinality(Repetitions) + 1
    BY <2>1, <2>2, RepetitionsInDebt, FS_AddElement
  <2>4. Cardinality(Repetitions) \in Nat /\ Cardinality(Repetitions') <= stops'
    <3>1. RefineInv' => (Cardinality(Repetitions) <= stops)'
      BY RepeatedAtMostStops, PTL
    <3> QED
      BY <3>1, RepetitionsInDebt
  <2>5. Cardinality(Repetitions) < MaxStops
    BY <2>3, <2>4, BridgeAssumption
  <2>6. effects[serving] > 0
    BY <1>1, <1>3
  <2>7. Abstract!Repeat(serving)
    BY <1>1, <2>3, <2>5, <2>6 DEF Abstract!Repeat
  <2> QED
    BY <1>1, <2>7 DEF Abstract!Next
<1> QED
  BY <1>1, <1>2, <1>3

(* Every step is one of the abstract calls' or a stutter.                  *)
LEMMA SimulateStep ==
  RefineInv /\ RefineInv' /\ [Next]_vars => [Abstract!Next]_(Abstract!vars)
<1> SUFFICES ASSUME RefineInv, RefineInv', [Next]_vars
             PROVE  [Abstract!Next]_(Abstract!vars)
  OBVIOUS
<1>1. CASE \E c \in Calls : Client(c)
  BY <1>1, SimulateClient
<1>2. CASE Execute
  BY <1>2, SimulateExecute
<1>3. ASSUME OnTimer \/ Stop \/ Start \/ UNCHANGED vars, ~Execute
      PROVE  UNCHANGED <<effects, Made, Returned>>
  <2> USE DEF RefineInv, BridgeInv, BridgeTypes, ReplyInv, files, terminal
  <2>1. UNCHANGED <<caller, effects>>
    BY <1>3 DEF OnTimer, ReadRequest, OpenReply, OpenReplyFails, WriteReply,
                DeleteRequest, Stop, Start, vars
  <2>2. \A c \in Calls : req'[c] = "tmp" <=> req[c] = "tmp"
    <3>1. CASE DeleteRequest
      BY <3>1 DEF DeleteRequest
    <3>2. ~DeleteRequest => req' = req
      BY <1>3 DEF OnTimer, ReadRequest, OpenReply, OpenReplyFails, WriteReply,
                  Stop, Start, vars
    <3> QED
      BY <3>1, <3>2
  <2> QED
    BY <2>1, <2>2 DEF Made, Returned
<1> QED
  BY <1>1, <1>2, <1>3, MapStable DEF Next, OnTimer

(* The initial state maps to the initial state.                            *)
LEMMA AbstractInit == Init => Abstract!Init
<1> SUFFICES ASSUME Init PROVE Abstract!Init
  OBVIOUS
<1>1. Made = {} /\ Returned = {} /\ effects = [c \in Calls |-> 0]
  BY DEF Init, Made, Returned
<1>2. Repetitions = {}
  BY <1>1 DEF Repetitions
<1> QED
  BY <1>1, <1>2, FS_EmptySet DEF Abstract!Init

(* FileBridge implements BridgeCalls, for any set of calls, infinite ones  *)
(* included, and any number of stops.                                      *)
THEOREM ImplementsCalls == Spec => BridgeCallsSpec
<1> QED
  BY RefineInit, RefineNext, SimulateStep, AbstractInit, PTL
     DEF Spec, BridgeCallsSpec, Abstract!Spec
=============================================================================
