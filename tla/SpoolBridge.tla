---------------------------- MODULE SpoolBridge ----------------------------
(***************************************************************************)
(* The file queue between the server and the strategy inside the QMT       *)
(* terminal: integrations/bigqmt/spool.py (request, the callers' side) and *)
(* qmt_strategy/probiga_big_qmt_bridge.py (the bridge).  A call writes a   *)
(* request file and polls for the response file of its request id, until   *)
(* its deadline; the bridge takes one request per timer tick.  Calls with  *)
(* one idempotency key share a request id.                                 *)
(*                                                                         *)
(* There are no locks.  Each step is one write, rename or removal that     *)
(* another process can see, with the tests before it: a test that was made *)
(* earlier comes out the same then, as markers and deadlines only come     *)
(* while it matters, and responses to an id only from the bridge.          *)
(* The payloads, heartbeats and the checkpoints' contents are left out.    *)
(* Any read, write, rename or removal of the bridge may fail; a failure of *)
(* the listing or of the first rename only costs a tick and is left out.   *)
(***************************************************************************)
EXTENDS Naturals, FiniteSets

CONSTANTS
  Calls,      \* calls of request(), each made once
  Ids, IdOf,  \* request ids, and the one each call uses
  Keyed,      \* ids that are made from an idempotency key
  Priority,   \* _request_priority: the smaller goes first
  NoCall,     \* the bridge has no request in hand
  MaxFaults   \* bound: deaths and failing file operations

ASSUME SpoolAssumption ==
  /\ IdOf \in [Calls -> Ids] /\ Keyed \subseteq Ids
  /\ \A c, d \in Calls : IdOf[c] = IdOf[d] => c = d \/ IdOf[c] \in Keyed
  /\ Priority \in [Calls -> Nat]
  /\ IsFiniteSet(Calls) /\ NoCall \notin Calls
  /\ MaxFaults \in Nat

VARIABLES
  file,       \* the directory each call's request file is in
  response,   \* responses/, by request id
  cancelled,  \* request ids with a marker in cancelled/
  call,       \* how far each call is
  late,       \* calls whose deadline has passed
  bridge,     \* what the bridge does, with the request of which call
  answered,   \* ids a response was ever written for (history)
  withdrawn,  \* ids that were ever cancelled (history)
  failed,     \* what the bridge failed to do with which request (history)
  faults      \* faults so far (for the bound)

vars == <<file, response, cancelled, call, late, bridge, answered, withdrawn, failed, faults>>
callVars == <<call, withdrawn, late>>
bridgeVars == <<bridge, answered, failed>>
faultVars == <<failed, faults>>

-----------------------------------------------------------------------------

(* "removed": by the bridge when it is done with it. *)
Places == {"none", "requests", "inflight", "cancelled", "dead_letter", "removed"}
Responses == {"none", "ok", "error"}
CallStages == {"new", "waiting", "marked", "leaving", "over"}
BridgeStages == {"idle", "working", "noting", "failing", "closing", "down"}
(* The request was not read, its error response not written, its file not  *)
(* moved to dead_letter/, or the recovery did not get it back.             *)
FileOps == {"read", "respond", "move", "recover"}

Queued == {c \in Calls : file[c] = "requests"}
Responded(c) == response[IdOf[c]] # "none"
(* Nobody waits for the request any more, as far as the bridge can see. *)
Hopeless(c) == IdOf[c] \in cancelled \/ c \in late

Fault == faults < MaxFaults /\ faults' = faults + 1
Fails(c, op) == Fault /\ failed' = failed \cup {<<c, op>>}
At(c, stages) == call[c] \in stages
Stage(c, stage) == call' = [call EXCEPT ![c] = stage]
Move(c, place) == file' = [file EXCEPT ![c] = place]

Init ==
  /\ file = [c \in Calls |-> "none"]
  /\ response = [i \in Ids |-> "none"] /\ cancelled = {}
  /\ call = [c \in Calls |-> "new"] /\ late = {}
  /\ bridge = [stage |-> "idle", call |-> NoCall]
  /\ answered = {} /\ withdrawn = {} /\ failed = {} /\ faults = 0

-----------------------------------------------------------------------------
(* request() *)

(* A key that was answered is answered with that, good or bad. *)
ReuseAnswer(c) ==
  /\ At(c, {"new"}) /\ IdOf[c] \in Keyed /\ Responded(c)
  /\ Stage(c, "over")
  /\ UNCHANGED <<file, response, cancelled, late, withdrawn, bridgeVars, faults>>

WriteRequest(c) ==
  /\ At(c, {"new"}) /\ ~(IdOf[c] \in Keyed /\ Responded(c))
  /\ Stage(c, "waiting")
  /\ Move(c, "requests")
  /\ UNCHANGED <<response, cancelled, late, withdrawn, bridgeVars, faults>>

(* What request() leaves of a response on its way out. *)
Unlinked(c) == IF IdOf[c] \in Keyed THEN response ELSE [response EXCEPT ![IdOf[c]] = "none"]

ReadResponse(c) ==
  /\ At(c, {"waiting"}) /\ Responded(c)
  /\ response' = Unlinked(c)
  /\ Stage(c, "over")
  /\ UNCHANGED <<file, cancelled, late, withdrawn, bridgeVars, faults>>

(* A call without a key has a response to unlink before it is over. *)
Departs(c) == Stage(c, IF IdOf[c] \in Keyed THEN "over" ELSE "leaving")

(* The marker of a timeout, which it may fail to write; or of a caller     *)
(* that leaves the wait by another exception.  The last look for a         *)
(* response was made before the deadline.                                  *)
GiveUp(c) ==
  /\ At(c, {"waiting"})
  /\ \/ /\ IF c \in late THEN UNCHANGED faults ELSE Fault
        /\ cancelled' = cancelled \cup {IdOf[c]} /\ withdrawn' = withdrawn \cup {IdOf[c]}
        /\ Stage(c, "marked")
     \/ /\ c \in late /\ Fault
        /\ Departs(c) /\ UNCHANGED <<cancelled, withdrawn>>
  /\ UNCHANGED <<file, response, late, bridgeVars>>

Withdraw(c) ==
  /\ At(c, {"marked"})
  /\ IF file[c] = "requests" THEN Move(c, "cancelled") ELSE UNCHANGED file
  /\ Departs(c)
  /\ UNCHANGED <<response, cancelled, late, withdrawn, bridgeVars, faults>>

Leave(c) ==
  /\ At(c, {"leaving"})
  /\ response' = Unlinked(c)
  /\ Stage(c, "over")
  /\ UNCHANGED <<file, cancelled, late, withdrawn, bridgeVars, faults>>

Kill(c) ==
  /\ At(c, {"waiting", "marked", "leaving"})
  /\ Fault
  /\ Stage(c, "over")
  /\ UNCHANGED <<file, response, cancelled, late, withdrawn, bridgeVars>>

DeadlinePasses(c) ==
  /\ file[c] \in {"requests", "inflight"} \/ At(c, {"waiting"})
  /\ c \notin late
  /\ late' = late \cup {c}
  /\ UNCHANGED <<file, response, cancelled, call, withdrawn, bridgeVars, faults>>

-----------------------------------------------------------------------------
(* _process_one_request *)

BridgeAt(stage) == bridge.stage = stage
Goes(stage) == bridge' = [bridge EXCEPT !.stage = stage]
Rests == bridge' = [stage |-> "idle", call |-> NoCall]
InHand == bridge.call

(* File names begin with the priority; what follows is the time of         *)
(* creation, by each process's clock: the order among equals is left open. *)
First == {c \in Queued : \A d \in Queued : Priority[c] <= Priority[d]}

Hold(stage, c) == bridge' = [stage |-> stage, call |-> c]

(* The finally clause removes the file; a removal that fails is passed     *)
(* over, and counted unless it comes with another failure.                 *)
Finally(c) ==
  /\ \/ Move(c, "removed") /\ UNCHANGED faults
     \/ Move(c, "inflight") /\ Fault
  /\ Rests
FinallyAfter(c, op) ==
  /\ \E place \in {"removed", "inflight"} : Move(c, place)
  /\ Fails(c, op)
  /\ Rests

(* _dead_letter_claim: the file is moved; or only its note fails, which is *)
(* handled like a failure of the work; or the rename fails and the file is *)
(* left to the finally clause.                                             *)
DeadLetter(c) ==
  \/ Move(c, "dead_letter") /\ Rests /\ UNCHANGED faultVars
  \/ Move(c, "dead_letter") /\ Hold("failing", c) /\ Fault /\ UNCHANGED failed
  \/ FinallyAfter(c, "move")

(* The first file goes to inflight/ and is read, and before the work it is *)
(* seen to that nothing is done again, or for nobody.  What fails before   *)
(* the response path is known is answered to nobody, and the file removed. *)
Take ==
  /\ BridgeAt("idle")
  /\ \E c \in First :
       \/ FinallyAfter(c, "read")
       \/ Responded(c) /\ Finally(c) /\ UNCHANGED failed
       \/ ~Responded(c) /\ Hopeless(c) /\ DeadLetter(c)
       \/ /\ ~Responded(c) /\ ~Hopeless(c)
          /\ Move(c, "inflight") /\ Hold("working", c) /\ UNCHANGED faultVars
  /\ UNCHANGED <<response, cancelled, callVars, answered>>

Write(result) ==
  /\ response' = [response EXCEPT ![IdOf[InHand]] = result]
  /\ answered' = answered \cup {IdOf[InHand]}

(* The end of _execute_request: the answer is written unless nobody wants  *)
(* it; else the work or the writing failed, and AnswerError follows.       *)
Answer ==
  /\ BridgeAt("working")
  /\ \/ /\ IdOf[InHand] \in cancelled
        /\ DeadLetter(InHand) /\ UNCHANGED <<response, answered>>
     \/ /\ IdOf[InHand] \notin cancelled
        /\ Goes("noting") /\ Write("ok") /\ UNCHANGED <<file, faultVars>>
  /\ UNCHANGED <<cancelled, callVars>>

(* The COMPLETED checkpoint: if it fails, the answer turns into an error.  *)
Note ==
  /\ BridgeAt("noting")
  /\ \/ Finally(InHand)
     \/ Goes("failing") /\ Fault /\ UNCHANGED file
  /\ UNCHANGED <<response, cancelled, callVars, answered, failed>>

(* Mutated form: a failure is only noted in the checkpoint. *)
AnswerError_NoteOnly ==
  /\ BridgeAt("working") \/ BridgeAt("failing")
  /\ Goes("closing")
  /\ UNCHANGED <<file, response, answered, cancelled, callVars, faultVars>>
(* The handler of what failed in the work or after it; when the response   *)
(* cannot be written either, only the finally clause is left.              *)
AnswerError ==
  /\ BridgeAt("working") \/ BridgeAt("failing")
  /\ \/ /\ IF IdOf[InHand] \in cancelled THEN UNCHANGED <<response, answered>> ELSE Write("error")
        /\ UNCHANGED faultVars
     \/ /\ IdOf[InHand] \notin cancelled /\ Fails(InHand, "respond")
        /\ UNCHANGED <<response, answered>>
  /\ Goes("closing")
  /\ UNCHANGED <<file, cancelled, callVars>>

Close ==
  /\ BridgeAt("closing")
  /\ \/ file[InHand] = "inflight" /\ Finally(InHand)
     \/ file[InHand] = "dead_letter" /\ Rests /\ UNCHANGED <<file, faults>>
  /\ UNCHANGED <<response, cancelled, callVars, answered, failed>>

(* The terminal or the strategy is stopped at any point. *)
Crash ==
  /\ ~BridgeAt("down") /\ Fault
  /\ bridge' = [stage |-> "down", call |-> NoCall]
  /\ UNCHANGED <<file, response, cancelled, callVars, answered, failed>>

(* Mutated form: what was in hand counts as a failure. *)
Recovered_DeadLetter(c) ==
  IF Responded(c) THEN "removed" ELSE "dead_letter"
Recovered(c) ==
  IF Responded(c) THEN "removed" ELSE IF Hopeless(c) THEN "dead_letter" ELSE "requests"
Inflight == {c \in Calls : file[c] = "inflight"}
(* _recover_inflight_requests in init().  The files for which an operation *)
(* fails go to dead_letter/, or stay if that fails; not counted as a fault *)
(* beyond the one that brought the strategy down.  When the recovery ends  *)
(* in an exception the strategy does not start: the same as a Crash then.  *)
Recover ==
  /\ BridgeAt("down")
  /\ \E bad \in SUBSET Inflight : \E stay \in SUBSET bad :
       /\ file' = [c \in Calls |->
            IF c \notin Inflight \/ c \in stay THEN file[c]
            ELSE IF c \in bad THEN "dead_letter" ELSE Recovered(c)]
       /\ failed' = failed \cup (bad \X {"recover"})
  /\ Rests
  /\ UNCHANGED <<response, cancelled, callVars, answered, faults>>

(* _cleanup_queue_artifacts, days after every call of the id. *)
Forgotten(i) ==
  \A c \in Calls : IdOf[c] = i =>
    At(c, {"new", "over"}) /\ file[c] \notin {"requests", "inflight"}
CleanUp ==
  /\ BridgeAt("idle")
  /\ \E i \in Ids :
       /\ Forgotten(i)
       /\ i \in cancelled \/ response[i] # "none"
       /\ \/ response' = [response EXCEPT ![i] = "none"] /\ UNCHANGED cancelled
          \/ cancelled' = cancelled \ {i} /\ UNCHANGED response
  /\ UNCHANGED <<file, callVars, bridgeVars, faults>>

-----------------------------------------------------------------------------

Caller(c) == ReadResponse(c) \/ GiveUp(c) \/ Withdraw(c) \/ Leave(c)
BridgeWork ==
  Take \/ Answer \/ Note \/ AnswerError \/ Close \/ Recover

Next ==
  \/ \E c \in Calls :
       ReuseAnswer(c) \/ WriteRequest(c) \/ Caller(c) \/ Kill(c) \/ DeadlinePasses(c)
  \/ BridgeWork \/ Crash \/ CleanUp

Spec == Init /\ [][Next]_vars

(* The timer of the strategy keeps firing, the duties that come before the *)
(* requests in a tick do not fail for ever, and a stopped strategy is      *)
(* started again; callers poll.  No deadline need pass.                    *)
FairSpec == Spec /\ WF_vars(BridgeWork) /\ \A c \in Calls : WF_vars(ReadResponse(c))

-----------------------------------------------------------------------------
(* Properties *)

TypeOK ==
  /\ file \in [Calls -> Places]
  /\ response \in [Ids -> Responses]
  /\ cancelled \subseteq withdrawn /\ withdrawn \subseteq Ids /\ answered \subseteq Ids
  /\ call \in [Calls -> CallStages] /\ late \subseteq Calls
  /\ bridge \in [stage : BridgeStages, call : Calls \cup {NoCall}]
  /\ bridge.call = NoCall <=> bridge.stage \in {"idle", "down"}
  /\ failed \subseteq Calls \X FileOps
  /\ faults \in 0..MaxFaults

(* The three ways in which one failing file operation costs a request: it  *)
(* could not be read, its error response could not be written, or it was   *)
(* late and could not be moved to dead_letter/.                            *)
Mishap(c) ==
  \/ <<c, "read">> \in failed \/ <<c, "respond">> \in failed
  \/ <<c, "move">> \in failed /\ c \in late

(* A request the bridge has removed was answered, with a result or with an *)
(* error, or a call of its id withdrew, or it met one of the mishaps above:*)
(* through crashes between any two writes, failing checkpoints, removals   *)
(* and recoveries, late marks and shared ids, no other just disappears.    *)
NoneDisappears ==
  \A c \in Calls : file[c] = "removed" => IdOf[c] \in answered \cup withdrawn \/ Mishap(c)

(* A call gets its answer, whatever the bridge's crashes and however many  *)
(* requests go before, unless its deadline passes, a call of its id        *)
(* withdraws, or a file operation failed on its own request when it was    *)
(* read, answered with an error or recovered; one that fails on another    *)
(* request, a checkpoint, a dead letter or a removal costs it nothing.     *)
(* As each call waits once, it is enough that again and again none waits.  *)
Served(c) ==
  \/ ~At(c, {"waiting"}) \/ c \in late \/ IdOf[c] \in withdrawn
  \/ \E op \in {"read", "respond", "recover"} : <<c, op>> \in failed
CallsAreServed == []<>(\A c \in Calls : Served(c))
=============================================================================
