----------------------------- MODULE FencedJobs -----------------------------
(***************************************************************************)
(* What the V4 job store promises its callers, without clocks, leases or   *)
(* token tables: a job is granted to one claim after another, at most      *)
(* `limit` times; a claim is granted once and for one job only; the result *)
(* of a job is that of its last claim; succeeded and failed jobs stay so.  *)
(***************************************************************************)
EXTENDS Naturals, Sequences, SequencesExt

CONSTANTS Jobs, Claims, NoClaim, Limits

VARIABLES
  phase,    \* "ABSENT", "PENDING", "RUNNING", "SUCCEEDED" or "FAILED"
  limit,    \* how often each job may be granted
  grants,   \* the claims each job was granted to, in order
  result    \* the claim whose run is the job's result

fenced == <<phase, limit, grants, result>>

Used == UNION {Range(grants[j]) : j \in Jobs}

Init ==
  /\ phase = [j \in Jobs |-> "ABSENT"]
  /\ limit = [j \in Jobs |-> 0]
  /\ grants = [j \in Jobs |-> <<>>]
  /\ result = [j \in Jobs |-> NoClaim]

Submit(j, n) ==
  /\ phase[j] = "ABSENT"
  /\ phase' = [phase EXCEPT ![j] = "PENDING"]
  /\ limit' = [limit EXCEPT ![j] = n]
  /\ UNCHANGED <<grants, result>>

(* Jobs whose last grant is used up may be given up, several at a time and *)
(* together with the grant of another job.                                 *)
GivenUp == {j \in Jobs : phase[j] = "RUNNING" /\ Len(grants[j]) = limit[j]}
WithoutHope(S) == [j \in Jobs |-> IF j \in S THEN "FAILED" ELSE phase[j]]

GiveUp(S) ==
  /\ phase' = WithoutHope(S)
  /\ UNCHANGED <<limit, grants, result>>

Grant(S, j, c) ==
  /\ phase[j] \in {"PENDING", "RUNNING"}
  /\ Len(grants[j]) < limit[j]
  /\ c \notin Used
  /\ phase' = [WithoutHope(S) EXCEPT ![j] = "RUNNING"]
  /\ grants' = [grants EXCEPT ![j] = Append(@, c)]
  /\ UNCHANGED <<limit, result>>

Succeed(j) ==
  /\ phase[j] = "RUNNING"
  /\ phase' = [phase EXCEPT ![j] = "SUCCEEDED"]
  /\ result' = [result EXCEPT ![j] = Last(grants[j])]
  /\ UNCHANGED <<limit, grants>>

GoBack(j) ==
  /\ phase[j] = "RUNNING"
  /\ Len(grants[j]) < limit[j]
  /\ phase' = [phase EXCEPT ![j] = "PENDING"]
  /\ UNCHANGED <<limit, grants, result>>

Fail(j) ==
  /\ phase[j] = "RUNNING"
  /\ phase' = [phase EXCEPT ![j] = "FAILED"]
  /\ UNCHANGED <<limit, grants, result>>

Next ==
  \/ \E j \in Jobs, n \in Limits : Submit(j, n)
  \/ \E S \in SUBSET GivenUp :
       GiveUp(S) \/ \E j \in Jobs \ S, c \in Claims : Grant(S, j, c)
  \/ \E j \in Jobs : Succeed(j) \/ GoBack(j) \/ Fail(j)

Spec == Init /\ [][Next]_fenced
=============================================================================
