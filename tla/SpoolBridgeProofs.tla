-------------------------- MODULE SpoolBridgeProofs --------------------------
(***************************************************************************)
(* Proofs about SpoolBridge: which requests disappear without an answer,   *)
(* and that no others do, for any number of calls, ids and faults.         *)
(***************************************************************************)
EXTENDS SpoolBridge, TLAPS

(* A response that is there was written; when the bridge is about to       *)
(* remove a request, an answer was written for it, or could not be, or its *)
(* id was withdrawn.                                                       *)
ResponsesWritten == \A i \in Ids : response[i] # "none" => i \in answered
HandAnswered ==
  /\ bridge.stage = "noting" => IdOf[bridge.call] \in answered
  /\ bridge.stage = "closing" =>
       IdOf[bridge.call] \in answered \cup withdrawn \/ <<bridge.call, "respond">> \in failed
AnswerInv == TypeOK /\ ResponsesWritten /\ HandAnswered /\ NoneDisappears

-----------------------------------------------------------------------------

LEMMA InitAnswers == Init => AnswerInv
  BY SpoolAssumption
  DEF SpoolAssumption, Init, AnswerInv, TypeOK, ResponsesWritten, HandAnswered, NoneDisappears,
      Mishap, Places, Responses, CallStages, BridgeStages

(* The steps of a caller write no answer and remove no request; markers    *)
(* and history grow together.                                              *)
LEMMA CallerKeeps ==
  ASSUME AnswerInv, NEW c \in Calls,
         \/ ReuseAnswer(c) \/ WriteRequest(c) \/ ReadResponse(c) \/ GiveUp(c)
         \/ Withdraw(c) \/ Leave(c) \/ Kill(c) \/ DeadlinePasses(c)
  PROVE  AnswerInv'
<1> USE SpoolAssumption DEF SpoolAssumption
<1>1. CASE ReuseAnswer(c)
  BY <1>1 DEF ReuseAnswer, At, Stage, bridgeVars, AnswerInv, TypeOK, ResponsesWritten,
     HandAnswered, NoneDisappears, Mishap, CallStages
<1>2. CASE WriteRequest(c)
  BY <1>2 DEF WriteRequest, At, Stage, Move, bridgeVars, AnswerInv, TypeOK, ResponsesWritten,
     HandAnswered, NoneDisappears, Mishap, CallStages, Places
<1>3. CASE ReadResponse(c)
  BY <1>3 DEF ReadResponse, Unlinked, At, Stage, bridgeVars, AnswerInv, TypeOK, ResponsesWritten,
     HandAnswered, NoneDisappears, Mishap, CallStages, Responses
<1>4. CASE GiveUp(c)
  BY <1>4 DEF GiveUp, Departs, At, Stage, Fault, bridgeVars, AnswerInv, TypeOK, ResponsesWritten,
     HandAnswered, NoneDisappears, Mishap, CallStages
<1>5. CASE Withdraw(c)
  BY <1>5 DEF Withdraw, Departs, At, Stage, Move, bridgeVars, AnswerInv, TypeOK, ResponsesWritten,
     HandAnswered, NoneDisappears, Mishap, CallStages, Places
<1>6. CASE Leave(c)
  BY <1>6 DEF Leave, Unlinked, At, Stage, bridgeVars, AnswerInv, TypeOK, ResponsesWritten,
     HandAnswered, NoneDisappears, Mishap, CallStages, Responses
<1>7. CASE Kill(c)
  BY <1>7 DEF Kill, At, Stage, Fault, bridgeVars, AnswerInv, TypeOK, ResponsesWritten,
     HandAnswered, NoneDisappears, Mishap, CallStages
<1>8. CASE DeadlinePasses(c)
  BY <1>8 DEF DeadlinePasses, bridgeVars, AnswerInv, TypeOK, ResponsesWritten,
     HandAnswered, NoneDisappears, Mishap
<1> QED BY <1>1, <1>2, <1>3, <1>4, <1>5, <1>6, <1>7, <1>8

(* A claim nobody waits for any more is moved, or removed although it      *)
(* could not be: then its id was withdrawn, or its deadline had passed.    *)
LEMMA LetterKeeps ==
  ASSUME AnswerInv, NEW c \in Calls, Hopeless(c), DeadLetter(c),
         bridge.stage \in {"idle", "working"}, UNCHANGED <<response, cancelled, callVars, answered>>
  PROVE  AnswerInv'
<1> USE SpoolAssumption DEF SpoolAssumption
<1>1. CASE Move(c, "dead_letter") /\ Rests /\ UNCHANGED faultVars
  BY <1>1 DEF Rests, Move, faultVars, callVars, AnswerInv, TypeOK,
     ResponsesWritten, HandAnswered, NoneDisappears, Mishap, Places, BridgeStages
<1>2. CASE Move(c, "dead_letter") /\ Hold("failing", c) /\ Fault /\ UNCHANGED failed
  BY <1>2 DEF Hold, Move, Fault, callVars, AnswerInv, TypeOK,
     ResponsesWritten, HandAnswered, NoneDisappears, Mishap, Places, BridgeStages
<1>3. CASE FinallyAfter(c, "move")
  BY <1>3 DEF FinallyAfter, Fails, Fault, Hopeless, Rests, Move, callVars, AnswerInv, TypeOK,
     ResponsesWritten, HandAnswered, NoneDisappears, Mishap, Places, BridgeStages, FileOps
<1> QED BY <1>1, <1>2, <1>3 DEF DeadLetter

(* The bridge removes what it has answered: Take because a response that   *)
(* is there was written, Note and Close because of HandAnswered, Recover   *)
(* for the same reason as Take.                                            *)
LEMMA BridgeKeeps ==
  ASSUME AnswerInv, BridgeWork \/ Crash \/ CleanUp
  PROVE  AnswerInv'
<1> USE SpoolAssumption DEF SpoolAssumption
<1>1. CASE Take
  <2> PICK c \in First :
         \/ FinallyAfter(c, "read")
         \/ Responded(c) /\ Finally(c) /\ UNCHANGED failed
         \/ ~Responded(c) /\ Hopeless(c) /\ DeadLetter(c)
         \/ /\ ~Responded(c) /\ ~Hopeless(c)
            /\ Move(c, "inflight") /\ Hold("working", c) /\ UNCHANGED faultVars
    BY <1>1 DEF Take
  <2>1. c \in Calls /\ BridgeAt("idle") /\ UNCHANGED <<response, cancelled, callVars, answered>>
    BY <1>1 DEF Take, First, Queued
  <2>2. CASE FinallyAfter(c, "read")
    BY <2>1, <2>2 DEF FinallyAfter, Fails, Fault, Rests, BridgeAt, Move, callVars, AnswerInv, TypeOK,
       ResponsesWritten, HandAnswered, NoneDisappears, Mishap, Places, BridgeStages, FileOps
  <2>3. CASE Responded(c) /\ Finally(c) /\ UNCHANGED failed
    BY <2>1, <2>3 DEF Finally, Fault, Rests, Responded, BridgeAt, Move, callVars, AnswerInv, TypeOK,
       ResponsesWritten, HandAnswered, NoneDisappears, Mishap, Places, BridgeStages
  <2>4. CASE ~Responded(c) /\ Hopeless(c) /\ DeadLetter(c)
    BY <2>1, <2>4, LetterKeeps DEF BridgeAt
  <2>5. CASE Move(c, "inflight") /\ Hold("working", c) /\ UNCHANGED faultVars
    BY <2>1, <2>5 DEF Hold, faultVars, BridgeAt, Move, callVars, AnswerInv, TypeOK,
       ResponsesWritten, HandAnswered, NoneDisappears, Mishap, Places, BridgeStages
  <2> QED BY <2>2, <2>3, <2>4, <2>5
<1>2. CASE Answer
  <2>1. CASE IdOf[InHand] \in cancelled
    <3>1. InHand \in Calls /\ Hopeless(InHand) /\ DeadLetter(InHand)
      BY <1>2, <2>1 DEF Answer, InHand, BridgeAt, Hopeless, AnswerInv, TypeOK, BridgeStages
    <3>2. bridge.stage = "working" /\ UNCHANGED <<response, cancelled, callVars, answered>>
      BY <1>2, <2>1 DEF Answer, BridgeAt
    <3> QED BY <3>1, <3>2, LetterKeeps
  <2>2. CASE IdOf[InHand] \notin cancelled
    BY <1>2, <2>2 DEF Answer, Write, InHand, BridgeAt, Goes, callVars, faultVars, AnswerInv, TypeOK,
       ResponsesWritten, HandAnswered, NoneDisappears, Mishap, Places, Responses, BridgeStages
  <2> QED BY <2>1, <2>2
<1>3. CASE Note
  BY <1>3 DEF Note, InHand, Finally, BridgeAt, Goes, Rests, Fault, Move, callVars, AnswerInv, TypeOK,
     ResponsesWritten, HandAnswered, NoneDisappears, Mishap, Places, BridgeStages
<1>4. CASE AnswerError
  BY <1>4 DEF AnswerError, Write, InHand, BridgeAt, Goes, Fails, Fault, callVars, faultVars, AnswerInv,
     TypeOK, ResponsesWritten, HandAnswered, NoneDisappears, Mishap, Responses, BridgeStages, FileOps
<1>5. CASE Close
  BY <1>5 DEF Close, InHand, Finally, Fault, BridgeAt, Rests, Move, callVars, AnswerInv, TypeOK,
     ResponsesWritten, HandAnswered, NoneDisappears, Mishap, Places, BridgeStages
<1>6. CASE Recover
  BY <1>6 DEF Recover, Recovered, Inflight, Responded, BridgeAt, Rests, callVars, AnswerInv, TypeOK,
     ResponsesWritten, HandAnswered, NoneDisappears, Mishap, Places, BridgeStages, FileOps
<1>7. CASE Crash
  BY <1>7 DEF Crash, BridgeAt, Fault, callVars, AnswerInv, TypeOK,
     ResponsesWritten, HandAnswered, NoneDisappears, Mishap, BridgeStages
<1>8. CASE CleanUp
  BY <1>8 DEF CleanUp, BridgeAt, callVars, bridgeVars, AnswerInv, TypeOK,
     ResponsesWritten, HandAnswered, NoneDisappears, Mishap, Responses
<1> QED BY <1>1, <1>2, <1>3, <1>4, <1>5, <1>6, <1>7, <1>8 DEF BridgeWork

LEMMA StepAnswers == AnswerInv /\ [Next]_vars => AnswerInv'
<1> SUFFICES ASSUME AnswerInv, [Next]_vars PROVE AnswerInv'
  OBVIOUS
<1>1. CASE BridgeWork \/ Crash \/ CleanUp
  BY <1>1, BridgeKeeps
<1>2. CASE UNCHANGED vars
  BY <1>2 DEF vars, AnswerInv, TypeOK, ResponsesWritten, HandAnswered, NoneDisappears, Mishap
<1>3. CASE \E c \in Calls :
             ReuseAnswer(c) \/ WriteRequest(c) \/ Caller(c) \/ Kill(c) \/ DeadlinePasses(c)
  BY <1>3, CallerKeeps DEF Caller
<1> QED BY <1>1, <1>2, <1>3 DEF Next

(* A request that was removed was answered or withdrawn, or could not be   *)
(* read, or its error response not written, or it was late and could not   *)
(* be moved: _process_one_request and _recover_inflight_requests lose no   *)
(* other, whatever dies when and whichever other file operations fail.     *)
THEOREM NothingLost == Spec => []NoneDisappears
<1>1. AnswerInv => NoneDisappears
  BY DEF AnswerInv
<1> QED BY <1>1, InitAnswers, StepAnswers, PTL DEF Spec

(* Markers and answers belong to ids that exist, and the bridge holds a    *)
(* request exactly while it works on one.                                  *)
THEOREM SpoolTypeCorrect == Spec => []TypeOK
<1>1. AnswerInv => TypeOK
  BY DEF AnswerInv
<1> QED BY <1>1, InitAnswers, StepAnswers, PTL DEF Spec
=============================================================================
