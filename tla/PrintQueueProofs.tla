-------------------------- MODULE PrintQueueProofs --------------------------
(***************************************************************************)
(* Theorems about PrintQueue for any number of rows, agents, bridges and   *)
(* faults.                                                                 *)
(***************************************************************************)
EXTENDS PrintQueue, TLAPS

-----------------------------------------------------------------------------
(* Type correctness.                                                       *)

LEMMA RequeueTypes ==
  ASSUME TypeOK, NEW S \in SUBSET Jobs, Requeue(S)
  PROVE  round' \in [Jobs -> Rounds]
<1>1. ASSUME NEW j \in Jobs
      PROVE  (IF j \in S THEN round[j] + 1 ELSE round[j]) \in Rounds
  BY BoundsAssumption DEF TypeOK, Requeue, Rounds
<1> QED
  BY <1>1 DEF Requeue

LEMMA FaultTypes ==
  ASSUME TypeOK, Fault
  PROVE  faults' \in 0..MaxFaults
BY BoundsAssumption DEF TypeOK, Fault

LEMMA ClaimTypes ==
  ASSUME TypeOK, NEW a \in Agents, ClaimStep(a)
  PROVE  TypeOK'
<1>1. CASE BeginClaim(a)
  <2>1. round' \in [Jobs -> Rounds]
    BY <1>1, RequeueTypes DEF BeginClaim, Release, StaleJobs
  <2> QED
    BY <1>1, <2>1 DEF TypeOK, BeginClaim, Release, tables
<1>2. CASE TakeClaim(a)
  <2>1. PICK S \in Claimable(a) :
           MarkClaimed(S, a) /\ held' = [held EXCEPT ![a] = @ \cup HandOutsOf(S)]
    BY <1>2 DEF TakeClaim
  <2>2. S \subseteq Jobs
    BY DEF Claimable, Candidates
  <2>3. HandOutsOf(S) \subseteq HandOuts
    BY <2>2 DEF HandOutsOf, HandOuts, TypeOK
  <2>4. held' \in [Holders -> SUBSET HandOuts]
    BY <2>1, <2>3 DEF TypeOK, Holders
  <2> QED
    BY <1>2, <2>1, <2>2, <2>4, BridgeOfAssumption DEF TypeOK, TakeClaim, MarkClaimed, tables
<1>3. CASE ClaimReplyLost(a)
  <2>1. PICK S \in Claimable(a) : MarkClaimed(S, a)
    BY <1>3 DEF ClaimReplyLost
  <2> QED
    BY <1>3, <2>1, BridgeOfAssumption, FaultTypes DEF TypeOK, ClaimReplyLost, MarkClaimed, tables
<1>4. CASE EmptyClaim(a)
  BY <1>4 DEF TypeOK, EmptyClaim, row, tables
<1> QED
  BY <1>1, <1>2, <1>3, <1>4 DEF ClaimStep

LEMMA PaperTypes ==
  ASSUME TypeOK, NEW t \in HandOuts, PutOnPaper(t)
  PROVE  copies' \in [Jobs -> [Rounds -> Nat]]
BY DEF TypeOK, PutOnPaper, HandOuts

LEMMA DropTypes ==
  ASSUME TypeOK, NEW h \in Holders, NEW t, Drop(h, t)
  PROVE  held' \in [Holders -> SUBSET HandOuts]
BY DEF TypeOK, Drop

LEMMA CallTyped ==
  ASSUME NEW a \in Agents, NEW t \in HandOuts, NEW op \in {"complete", "fail"}
  PROVE  Call(a, t, op) \in Calls
BY DEF Call, Calls

LEMMA AgentTypes ==
  ASSUME TypeOK, NEW a \in Agents, AgentStep(a)
  PROVE  TypeOK'
<1>h. a \in Holders /\ held[a] \subseteq HandOuts
  BY DEF TypeOK, Holders
<1>1. CASE AgentCrash(a)
  BY <1>1, <1>h, FaultTypes DEF TypeOK, AgentCrash, row, tables
<1>2. ASSUME NEW t \in held[a], AgentPrint(a, t)
      PROVE  TypeOK'
  <2>1. copies' \in [Jobs -> [Rounds -> Nat]] /\ held' \in [Holders -> SUBSET HandOuts]
    BY <1>2, <1>h, PaperTypes, DropTypes DEF AgentPrint
  <2>2. calls' \subseteq Calls
    BY <1>2, <1>h, CallTyped DEF AgentPrint, TypeOK
  <2> QED
    <3>1. UNCHANGED <<row, tables, claiming, dispatching, round, vouched, faults>>
      BY <1>2 DEF AgentPrint
    <3> QED
      BY <2>1, <2>2, <3>1 DEF TypeOK, row, tables
<1>3. ASSUME NEW t \in held[a], AgentFail(a, t)
      PROVE  TypeOK'
  <2>1. copies' \in [Jobs -> [Rounds -> Nat]] /\ held' \in [Holders -> SUBSET HandOuts]
    BY <1>3, <1>h, PaperTypes, DropTypes DEF AgentFail, TypeOK
  <2>2. calls' \subseteq Calls
    BY <1>3, <1>h, CallTyped DEF AgentFail, TypeOK
  <2> QED
    <3>1. UNCHANGED <<row, tables, claiming, dispatching, round, vouched, faults>>
      BY <1>3 DEF AgentFail
    <3> QED
      BY <2>1, <2>2, <3>1 DEF TypeOK, row, tables
<1>4. ASSUME NEW t \in held[a], AgentDefer(a, t)
      PROVE  TypeOK'
  BY <1>4, <1>h, DropTypes, FaultTypes DEF TypeOK, AgentDefer, row, tables
<1> QED
  BY <1>1, <1>2, <1>3, <1>4 DEF AgentStep

LEMMA CallTypes ==
  ASSUME TypeOK, CallStep
  PROVE  TypeOK'
<1>1. PICK c \in calls :
         CheckCall(c) \/ ApplyCall(c) \/ LoseCall(c) \/ BrowserCompleteThrows(c)
  BY DEF CallStep
<1>c. c \in Calls
  BY DEF TypeOK
<1>2. CASE CheckCall(c)
  <2>1. [c EXCEPT !.checked = TRUE] \in Calls
    BY <1>c DEF Calls
  <2> QED
    BY <1>2, <2>1 DEF TypeOK, CheckCall, row, tables
<1>3. CASE ApplyCall(c)
  BY <1>3, <1>c DEF TypeOK, ApplyCall, Outcome, JobOf, Calls, HandOuts, tables
<1>4. CASE LoseCall(c)
  BY <1>4, FaultTypes DEF TypeOK, LoseCall, row, tables
<1>5. CASE BrowserCompleteThrows(c)
  <2>1. Call(c.by, c.handOut, "fail") \in Calls
    BY <1>c, CallTyped DEF Calls
  <2> QED
    BY <1>5, <2>1, FaultTypes DEF TypeOK, BrowserCompleteThrows, row, tables
<1> QED
  BY <1>1, <1>2, <1>3, <1>4, <1>5

LEMMA StationTypes ==
  ASSUME TypeOK, StationStep
  PROVE  TypeOK'
<1>h. Station \in Holders /\ held[Station] \subseteq HandOuts
  BY DEF TypeOK, Holders
<1>1. CASE StationPoll
  <2>1. HandOutsOf(Pollable) \subseteq HandOuts
    BY DEF HandOutsOf, HandOuts, Pollable, TypeOK
  <2>2. held' \in [Holders -> SUBSET HandOuts]
    BY <1>1, <2>1, <1>h DEF TypeOK, StationPoll
  <2> QED
    BY <1>1, <2>2 DEF TypeOK, StationPoll, MarkPolled, tables
<1>2. CASE StationPollReplyLost
  BY <1>2, FaultTypes DEF TypeOK, StationPollReplyLost, MarkPolled, tables
<1>3. CASE StationReload
  BY <1>3, <1>h, FaultTypes DEF TypeOK, StationReload, row, tables
<1>4. ASSUME NEW t \in held[Station], StationPrint(t)
      PROVE  TypeOK'
  <2>1. copies' \in [Jobs -> [Rounds -> Nat]] /\ held' \in [Holders -> SUBSET HandOuts]
    BY <1>4, <1>h, PaperTypes, DropTypes DEF StationPrint
  <2> QED
    BY <1>4, <2>1 DEF TypeOK, StationPrint, row, tables
<1>5. ASSUME NEW t \in held[Station], StationFail(t)
      PROVE  TypeOK'
  <2>1. copies' \in [Jobs -> [Rounds -> Nat]] /\ held' \in [Holders -> SUBSET HandOuts]
    BY <1>5, <1>h, PaperTypes, DropTypes DEF StationFail, TypeOK
  <2>2. /\ status' \in [Jobs -> {"absent", "pending", "dispatched", "completed", "failed"}]
        /\ faults' \in 0..MaxFaults
    BY <1>5, <1>h, FaultTypes DEF StationFail, TypeOK, HandOuts
  <2> QED
    BY <1>5, <2>1, <2>2 DEF TypeOK, StationFail, tables
<1> QED
  BY <1>1, <1>2, <1>3, <1>4, <1>5 DEF StationStep

LEMMA OperatorTypes ==
  ASSUME TypeOK, OperatorStep
  PROVE  TypeOK'
<1>1. ASSUME NEW j \in Jobs, FailJob(j) \/ CompleteJob(j) \/ ConfirmJob(j)
      PROVE  TypeOK'
  BY <1>1 DEF TypeOK, FailJob, CompleteJob, ConfirmJob, SetStatus, tables
<1>d. ASSUME NEW j \in Jobs, DispatchSend(j)
      PROVE  TypeOK'
  <2>1. dispatching' \subseteq Jobs \X {"ok", "error"} /\ vouched' \subseteq Jobs
    BY <1>d DEF TypeOK, DispatchSend
  <2> QED
    BY <1>d, <2>1 DEF TypeOK, DispatchSend, row, tables
<1>2. ASSUME NEW j \in Jobs, RetryJob(j)
      PROVE  TypeOK'
  <2>1. round' \in [Jobs -> Rounds]
    BY <1>2, RequeueTypes DEF RetryJob
  <2> QED
    BY <1>2, <2>1 DEF TypeOK, RetryJob, SetStatus, tables
<1>3. ASSUME NEW d \in dispatching, DispatchWrite(d) \/ DispatchLost(d)
      PROVE  TypeOK'
  <2>1. d[1] \in Jobs
    BY DEF TypeOK
  <2> QED
    BY <1>3, <2>1, FaultTypes DEF TypeOK, DispatchWrite, DispatchLost, SetStatus, row, tables
<1>4. ASSUME NEW b \in Bridges, DeleteBridge(b)
      PROVE  TypeOK'
  <2>1. PICK S \in SUBSET Jobs : Release(S)
    BY <1>4 DEF DeleteBridge, LiveJobsOf
  <2>2. round' \in [Jobs -> Rounds]
    BY <2>1, RequeueTypes DEF Release
  <2> QED
    BY <1>4, <2>1, <2>2 DEF TypeOK, DeleteBridge, Release
<1>5. ASSUME NEW b \in Bridges, RegisterBridge(b)
      PROVE  TypeOK'
  BY <1>5 DEF TypeOK, RegisterBridge, row
<1>6. ASSUME NEW b \in Bridges, NEW S \in SUBSET Areas, AssignAreas(b, S)
      PROVE  TypeOK'
  BY <1>6 DEF TypeOK, AssignAreas, row
<1> QED
  BY <1>1, <1>d, <1>2, <1>3, <1>4, <1>5, <1>6 DEF OperatorStep

\* Every column and every message keeps its type (the print_jobs contract).
THEOREM TypeCorrect == Spec => []TypeOK
<1>1. Init => TypeOK
  BY BoundsAssumption DEF Init, TypeOK, Rounds, Holders
<1>2. TypeOK /\ [Next]_vars => TypeOK'
  <2> SUFFICES ASSUME TypeOK, [Next]_vars PROVE TypeOK'
    OBVIOUS
  <2>1. ASSUME NEW j \in Jobs, CreateJob(j) \/ Age(j)
        PROVE  TypeOK'
    BY <2>1, FaultTypes DEF TypeOK, CreateJob, Age, tables
  <2>2. ASSUME NEW j \in Jobs, NEW b \in Bridges, CreateTestJob(j, b)
        PROVE  TypeOK'
    BY <2>2 DEF TypeOK, CreateTestJob, tables
  <2>3. CASE UNCHANGED vars
    BY <2>3 DEF TypeOK, vars, row, tables
  <2> QED
    BY <2>1, <2>2, <2>3, ClaimTypes, AgentTypes, CallTypes, StationTypes, OperatorTypes
       DEF Next
<1> QED
  BY <1>1, <1>2, PTL DEF Spec

-----------------------------------------------------------------------------
(* One copy per round.  OneCopyPerRound is not inductive: a hand-out must   *)
(* also be in one memory only, unprinted while it is there, and a round    *)
(* that is still to come, or still pending, must be untouched.             *)

Waiting(j) == status[j] \in {"absent", "pending"}

Untouched(j, g) == copies[j][g] = 0 /\ \A h \in Holders : <<j, g>> \notin held[h]

FutureUntouched ==
    \A j \in Jobs, g \in Rounds :
      (g > round[j] \/ (g = round[j] /\ Waiting(j))) => Untouched(j, g)

HeldOnce == \A h, k \in Holders : \A t \in held[h] : t \in held[k] => h = k

HeldUnprinted == \A h \in Holders : \A t \in held[h] : copies[t[1]][t[2]] = 0

CopiesInv == FutureUntouched /\ HeldOnce /\ HeldUnprinted /\ OneCopyPerRound

\* A step that prints nothing and hands nothing out, and makes a row wait only
\* by starting a new round.
Quiet ==
    /\ copies' = copies
    /\ \A h \in Holders : held'[h] \subseteq held[h]
    /\ \A j \in Jobs : \/ round'[j] = round[j] /\ (Waiting(j)' => Waiting(j))
                       \/ round'[j] = round[j] + 1

LEMMA QuietStep ==
  ASSUME TypeOK, TypeOK', CopiesInv, Quiet
  PROVE  CopiesInv'
<1>1. FutureUntouched'
  <2> SUFFICES ASSUME NEW j \in Jobs, NEW g \in Rounds,
                      g > round'[j] \/ (g = round'[j] /\ Waiting(j)')
               PROVE  Untouched(j, g)'
    BY DEF FutureUntouched
  <2>1. round[j] \in Nat /\ g \in Nat
    BY BoundsAssumption DEF TypeOK, Rounds
  <2>2. \/ round'[j] = round[j] /\ (Waiting(j)' => Waiting(j))
        \/ round'[j] = round[j] + 1
    BY DEF Quiet
  <2>3. g > round[j] \/ (g = round[j] /\ Waiting(j))
    <3>1. CASE round'[j] = round[j] /\ (Waiting(j)' => Waiting(j))
      BY <3>1
    <3>2. CASE round'[j] = round[j] + 1
      BY <3>2, <2>1
    <3> QED
      BY <2>2, <3>1, <3>2
  <2> QED
    BY <2>3 DEF Quiet, CopiesInv, FutureUntouched, Untouched
<1>2. HeldOnce'
  BY DEF Quiet, CopiesInv, HeldOnce
<1>3. HeldUnprinted' /\ OneCopyPerRound'
  BY DEF Quiet, CopiesInv, HeldUnprinted, OneCopyPerRound
<1> QED
  BY <1>1, <1>2, <1>3 DEF CopiesInv

\* A claim or a poll: h receives the current round of waiting rows, which
\* stop waiting.
LEMMA HandOutStep ==
  ASSUME TypeOK, TypeOK', CopiesInv,
         NEW h \in Holders, NEW S \in SUBSET Jobs,
         \A j \in S : Waiting(j),
         held' = [held EXCEPT ![h] = @ \cup HandOutsOf(S)],
         status' = [j \in Jobs |-> IF j \in S THEN "dispatched" ELSE status[j]],
         UNCHANGED <<copies, round>>
  PROVE  CopiesInv'
<1>1. \A t \in HandOutsOf(S) : \A k \in Holders : t \notin held[k]
  BY DEF HandOutsOf, CopiesInv, FutureUntouched, Untouched, TypeOK
<1>2. \A t \in HandOutsOf(S) : copies[t[1]][t[2]] = 0
  BY DEF HandOutsOf, CopiesInv, FutureUntouched, Untouched, TypeOK
<1>3. \A k \in Holders : held'[k] = IF k = h THEN held[k] \cup HandOutsOf(S) ELSE held[k]
  BY DEF TypeOK
<1>4. FutureUntouched'
  <2> SUFFICES ASSUME NEW j \in Jobs, NEW g \in Rounds,
                      g > round[j] \/ (g = round[j] /\ Waiting(j)')
               PROVE  Untouched(j, g)'
    BY DEF FutureUntouched
  <2>1. g > round[j] \/ (g = round[j] /\ Waiting(j))
    BY DEF Waiting
  <2>2. Untouched(j, g)
    BY <2>1 DEF CopiesInv, FutureUntouched
  <2>3. <<j, g>> \notin HandOutsOf(S)
    <3> SUFFICES ASSUME j \in S, g = round[j] PROVE FALSE
      BY DEF HandOutsOf
    <3> QED
      BY DEF Waiting, TypeOK, Rounds
  <2> QED
    BY <2>2, <2>3, <1>3 DEF Untouched
<1>5. HeldOnce'
  BY <1>1, <1>3 DEF CopiesInv, HeldOnce
<1>6. HeldUnprinted' /\ OneCopyPerRound'
  BY <1>2, <1>3 DEF CopiesInv, HeldUnprinted, OneCopyPerRound
<1> QED
  BY <1>4, <1>5, <1>6 DEF CopiesInv

\* A print: t leaves the only memory it was in and gets its first copy.
LEMMA PrintStep ==
  ASSUME TypeOK, TypeOK', CopiesInv,
         NEW h \in Holders, NEW t \in held[h],
         Drop(h, t), PutOnPaper(t), round' = round,
         \A j \in Jobs : Waiting(j)' => Waiting(j)
  PROVE  CopiesInv'
<1>1. t \in HandOuts /\ t = <<t[1], t[2]>> /\ t[1] \in Jobs /\ t[2] \in Rounds
  BY DEF TypeOK, HandOuts
<1>2. \A k \in Holders : held'[k] = IF k = h THEN held[k] \ {t} ELSE held[k]
  BY DEF TypeOK, Drop
<1>3. \A j \in Jobs, g \in Rounds :
        copies'[j][g] = IF <<j, g>> = t THEN copies[j][g] + 1 ELSE copies[j][g]
  BY <1>1 DEF TypeOK, PutOnPaper
<1>4. FutureUntouched'
  <2> SUFFICES ASSUME NEW j \in Jobs, NEW g \in Rounds,
                      g > round[j] \/ (g = round[j] /\ Waiting(j)')
               PROVE  Untouched(j, g)'
    BY DEF FutureUntouched
  <2>1. Untouched(j, g)
    BY DEF CopiesInv, FutureUntouched
  <2>2. <<j, g>> # t
    BY <2>1 DEF Untouched
  <2> QED
    BY <2>1, <2>2, <1>2, <1>3 DEF Untouched
<1>5. HeldOnce'
  BY <1>2 DEF CopiesInv, HeldOnce
<1>6. \A k \in Holders : t \notin held'[k]
  BY <1>2 DEF CopiesInv, HeldOnce
<1>7. HeldUnprinted'
  <2> SUFFICES ASSUME NEW k \in Holders, NEW u \in held'[k]
               PROVE  copies'[u[1]][u[2]] = 0
    BY DEF HeldUnprinted
  <2>1. u \in held[k] /\ u # t
    BY <1>2, <1>6
  <2>2. u = <<u[1], u[2]>> /\ u[1] \in Jobs /\ u[2] \in Rounds
    BY <2>1 DEF TypeOK, HandOuts
  <2>3. copies'[u[1]][u[2]] = copies[u[1]][u[2]]
    BY <2>1, <2>2, <1>3
  <2>4. copies[u[1]][u[2]] = 0
    BY <2>1 DEF CopiesInv, HeldUnprinted
  <2> QED
    BY <2>3, <2>4
<1>8. OneCopyPerRound'
  <2>1. copies[t[1]][t[2]] = 0
    BY DEF CopiesInv, HeldUnprinted
  <2> SUFFICES ASSUME NEW j \in Jobs, NEW g \in Rounds
               PROVE  copies'[j][g] <= 1
    BY DEF OneCopyPerRound
  <2>2. CASE <<j, g>> = t
    <3>1. copies[j][g] = 0
      BY <2>1, <2>2
    <3> QED
      BY <3>1, <2>2, <1>3
  <2>3. CASE <<j, g>> # t
    <3>1. copies'[j][g] = copies[j][g]
      BY <2>3, <1>3
    <3> QED
      BY <3>1 DEF CopiesInv, OneCopyPerRound
  <2> QED
    BY <2>2, <2>3
<1> QED
  BY <1>4, <1>5, <1>7, <1>8 DEF CopiesInv

LEMMA RequeueQuiet ==
  ASSUME TypeOK, NEW S \in SUBSET Jobs, Requeue(S), UNCHANGED <<copies, held>>,
         \A j \in Jobs \ S : status'[j] = status[j]
  PROVE  Quiet
<1>1. \A j \in Jobs \ S : round'[j] = round[j] /\ (Waiting(j)' => Waiting(j))
  BY DEF Requeue, Waiting
<1>2. \A j \in S : round'[j] = round[j] + 1
  BY DEF Requeue
<1> QED
  BY <1>1, <1>2 DEF Quiet

LEMMA ClaimCopies ==
  ASSUME TypeOK, TypeOK', CopiesInv, NEW a \in Agents, ClaimStep(a)
  PROVE  CopiesInv'
<1>1. CASE BeginClaim(a)
  <2>1. StaleJobs \in SUBSET Jobs /\ \A j \in Jobs \ StaleJobs : status'[j] = status[j]
    BY <1>1 DEF BeginClaim, Release, StaleJobs
  <2>2. Quiet
    BY <1>1, <2>1, RequeueQuiet DEF BeginClaim, Release
  <2> QED
    BY <2>2, QuietStep
<1>2. CASE TakeClaim(a)
  <2>1. PICK S \in Claimable(a) :
           MarkClaimed(S, a) /\ held' = [held EXCEPT ![a] = @ \cup HandOutsOf(S)]
    BY <1>2 DEF TakeClaim
  <2>2. S \in SUBSET Jobs /\ \A j \in S : Waiting(j)
    BY DEF Claimable, Candidates, Waiting
  <2>3. a \in Holders /\ UNCHANGED <<copies, round>>
    BY <1>2 DEF Holders, TakeClaim
  <2> QED
    BY <2>1, <2>2, <2>3, HandOutStep DEF MarkClaimed
<1>3. CASE ClaimReplyLost(a)
  <2>1. PICK S \in Claimable(a) : MarkClaimed(S, a)
    BY <1>3 DEF ClaimReplyLost
  <2>2. UNCHANGED <<copies, held, round>>
    BY <1>3 DEF ClaimReplyLost
  <2>3. \A j \in Jobs : Waiting(j)' => Waiting(j)
    BY <2>1 DEF MarkClaimed, Waiting
  <2> QED
    BY <2>2, <2>3, QuietStep DEF Quiet
<1>4. CASE EmptyClaim(a)
  BY <1>4, QuietStep DEF EmptyClaim, Quiet, row, Waiting
<1> QED
  BY <1>1, <1>2, <1>3, <1>4 DEF ClaimStep

LEMMA AgentCopies ==
  ASSUME TypeOK, TypeOK', CopiesInv, NEW a \in Agents, AgentStep(a)
  PROVE  CopiesInv'
<1>h. a \in Holders
  BY DEF Holders
<1>1. CASE AgentCrash(a)
  <2>1. \A h \in Holders : held'[h] \subseteq held[h]
    BY <1>1 DEF AgentCrash, TypeOK
  <2>2. UNCHANGED <<status, round, copies>>
    BY <1>1 DEF AgentCrash, row
  <2> QED
    BY <2>1, <2>2, QuietStep DEF Quiet, Waiting
<1>2. ASSUME NEW t \in held[a], AgentPrint(a, t) \/ AgentFail(a, t) \/ AgentDefer(a, t)
      PROVE  CopiesInv'
  <2>1. Drop(a, t) /\ UNCHANGED <<status, round>>
    BY <1>2 DEF AgentPrint, AgentFail, AgentDefer, row
  <2>2. \A h \in Holders : held'[h] \subseteq held[h]
    BY <2>1 DEF Drop, TypeOK
  <2>3. UNCHANGED copies \/ PutOnPaper(t)
    BY <1>2 DEF AgentPrint, AgentFail, AgentDefer
  <2>4. CASE UNCHANGED copies
    BY <2>1, <2>2, <2>4, QuietStep DEF Quiet, Waiting
  <2>5. CASE PutOnPaper(t)
    BY <2>1, <2>5, <1>h, PrintStep DEF Waiting
  <2> QED
    BY <2>3, <2>4, <2>5
<1> QED
  BY <1>1, <1>2 DEF AgentStep

LEMMA CallCopies ==
  ASSUME TypeOK, TypeOK', CopiesInv, CallStep
  PROVE  CopiesInv'
<1>1. PICK c \in calls :
         CheckCall(c) \/ ApplyCall(c) \/ LoseCall(c) \/ BrowserCompleteThrows(c)
  BY DEF CallStep
<1>2. UNCHANGED <<copies, held, round>>
  BY <1>1 DEF CheckCall, ApplyCall, LoseCall, BrowserCompleteThrows
<1>3. \A j \in Jobs : Waiting(j)' => Waiting(j)
  <2>1. UNCHANGED status \/ status' = [status EXCEPT ![JobOf(c)] = Outcome(c.op)]
    BY <1>1 DEF CheckCall, ApplyCall, LoseCall, BrowserCompleteThrows, row
  <2> QED
    BY <2>1 DEF Waiting, TypeOK, Outcome
<1> QED
  BY <1>2, <1>3, QuietStep DEF Quiet

LEMMA StationCopies ==
  ASSUME TypeOK, TypeOK', CopiesInv, StationStep
  PROVE  CopiesInv'
<1>h. Station \in Holders
  BY DEF Holders
<1>1. CASE StationPoll
  <2>1. Pollable \in SUBSET Jobs /\ \A j \in Pollable : Waiting(j)
    BY DEF Pollable, Waiting
  <2> QED
    BY <1>1, <1>h, <2>1, HandOutStep DEF StationPoll, MarkPolled
<1>2. CASE StationPollReplyLost
  <2>1. \A j \in Jobs : Waiting(j)' => Waiting(j)
    BY <1>2 DEF StationPollReplyLost, MarkPolled, Waiting
  <2> QED
    BY <1>2, <2>1, QuietStep DEF StationPollReplyLost, Quiet
<1>3. CASE StationReload
  <2>1. \A h \in Holders : held'[h] \subseteq held[h]
    BY <1>3 DEF StationReload, TypeOK
  <2>2. UNCHANGED <<status, round, copies>>
    BY <1>3 DEF StationReload, row
  <2> QED
    BY <2>1, <2>2, QuietStep DEF Quiet, Waiting
<1>4. ASSUME NEW t \in held[Station], StationPrint(t) \/ StationFail(t)
      PROVE  CopiesInv'
  <2>1. Drop(Station, t) /\ UNCHANGED round /\ (UNCHANGED copies \/ PutOnPaper(t))
    BY <1>4 DEF StationPrint, StationFail
  <2>2. UNCHANGED status \/ status' = [status EXCEPT ![t[1]] = "failed"]
    BY <1>4 DEF StationPrint, StationFail, row
  <2>3. \A j \in Jobs : Waiting(j)' => Waiting(j)
    BY <2>2 DEF Waiting, TypeOK
  <2>4. \A h \in Holders : held'[h] \subseteq held[h]
    BY <2>1 DEF Drop, TypeOK
  <2>5. CASE UNCHANGED copies
    BY <2>1, <2>3, <2>4, <2>5, QuietStep DEF Quiet
  <2>6. CASE PutOnPaper(t)
    BY <2>1, <2>3, <2>6, <1>h, PrintStep
  <2> QED
    BY <2>1, <2>5, <2>6
<1> QED
  BY <1>1, <1>2, <1>3, <1>4 DEF StationStep

LEMMA OperatorCopies ==
  ASSUME TypeOK, TypeOK', CopiesInv, OperatorStep
  PROVE  CopiesInv'
<1>1. ASSUME NEW j \in Jobs,
             FailJob(j) \/ CompleteJob(j) \/ ConfirmJob(j) \/ DispatchSend(j)
      PROVE  CopiesInv'
  <2>1. UNCHANGED <<copies, held, round>>
    BY <1>1 DEF FailJob, CompleteJob, ConfirmJob, DispatchSend
  <2>2. UNCHANGED status \/ \E s \in {"failed", "completed"} : SetStatus(j, s)
    BY <1>1 DEF FailJob, CompleteJob, ConfirmJob, DispatchSend, row
  <2>3. \A k \in Jobs : Waiting(k)' => Waiting(k)
    BY <2>2 DEF SetStatus, Waiting, TypeOK
  <2> QED
    BY <2>1, <2>3, QuietStep DEF Quiet
<1>2. ASSUME NEW j \in Jobs, RetryJob(j)
      PROVE  CopiesInv'
  <2>1. \A k \in Jobs \ {j} : status'[k] = status[k]
    BY <1>2 DEF RetryJob, SetStatus, TypeOK
  <2>2. Quiet
    BY <1>2, <2>1, RequeueQuiet DEF RetryJob
  <2> QED
    BY <2>2, QuietStep
<1>3. ASSUME NEW d \in dispatching, DispatchWrite(d) \/ DispatchLost(d)
      PROVE  CopiesInv'
  <2>1. UNCHANGED <<copies, held, round>>
    BY <1>3 DEF DispatchWrite, DispatchLost
  <2>2. UNCHANGED status \/ \E s \in {"dispatched", "failed"} : SetStatus(d[1], s)
    BY <1>3 DEF DispatchWrite, DispatchLost, row
  <2>3. \A k \in Jobs : Waiting(k)' => Waiting(k)
    BY <2>2 DEF SetStatus, Waiting, TypeOK
  <2> QED
    BY <2>1, <2>3, QuietStep DEF Quiet
<1>4. ASSUME NEW b \in Bridges, DeleteBridge(b)
      PROVE  CopiesInv'
  <2>1. PICK S \in SUBSET Jobs : Release(S)
    BY <1>4 DEF DeleteBridge, LiveJobsOf
  <2>2. \A k \in Jobs \ S : status'[k] = status[k]
    BY <2>1 DEF Release
  <2>3. Quiet
    BY <1>4, <2>1, <2>2, RequeueQuiet DEF DeleteBridge, Release
  <2> QED
    BY <2>3, QuietStep
<1>5. ASSUME NEW b \in Bridges, RegisterBridge(b)
      PROVE  CopiesInv'
  BY <1>5, QuietStep DEF RegisterBridge, Quiet, row, Waiting
<1>6. ASSUME NEW b \in Bridges, NEW S \in SUBSET Areas, AssignAreas(b, S)
      PROVE  CopiesInv'
  BY <1>6, QuietStep DEF AssignAreas, Quiet, row, Waiting
<1> QED
  BY <1>1, <1>2, <1>3, <1>4, <1>5, <1>6 DEF OperatorStep

LEMMA CopiesKept == Spec => []CopiesInv
<1>1. Init => CopiesInv
  <2> SUFFICES ASSUME Init PROVE CopiesInv
    OBVIOUS
  <2>1. /\ \A j \in Jobs, g \in Rounds : copies[j][g] = 0
        /\ \A h \in Holders : held[h] = {}
    BY DEF Init
  <2> QED
    BY <2>1 DEF CopiesInv, FutureUntouched, Untouched, HeldOnce, HeldUnprinted, OneCopyPerRound
<1>2. TypeOK /\ TypeOK' /\ CopiesInv /\ [Next]_vars => CopiesInv'
  <2> SUFFICES ASSUME TypeOK, TypeOK', CopiesInv, [Next]_vars PROVE CopiesInv'
    OBVIOUS
  <2>1. ASSUME NEW j \in Jobs,
               CreateJob(j) \/ Age(j) \/ \E b \in Bridges : CreateTestJob(j, b)
        PROVE  CopiesInv'
    <3>1. UNCHANGED <<copies, held, round>>
      BY <2>1 DEF CreateJob, Age, CreateTestJob
    <3>2. \A k \in Jobs : Waiting(k)' => Waiting(k)
      BY <2>1 DEF CreateJob, Age, CreateTestJob, Waiting, TypeOK
    <3> QED
      BY <3>1, <3>2, QuietStep DEF Quiet
  <2>2. CASE UNCHANGED vars
    BY <2>2, QuietStep DEF vars, row, Quiet, Waiting
  <2> QED
    BY <2>1, <2>2, ClaimCopies, AgentCopies, CallCopies, StationCopies, OperatorCopies
       DEF Next
<1> QED
  BY <1>1, <1>2, TypeCorrect, PTL DEF Spec

\* No two machines, and no machine twice, print the same round of a ticket
\* (claimPrintJobsForBridge and pollPrintJobs take rows out of "pending").
THEOREM OneCopy == Spec => []OneCopyPerRound
<1>1. CopiesInv => OneCopyPerRound
  BY DEF CopiesInv
<1> QED
  BY <1>1, CopiesKept, PTL

-----------------------------------------------------------------------------
(* No ticket is closed unprinted.  A complete call that is still under way  *)
(* must speak of paper too, since its UPDATE looks at nothing.             *)

ReportsOnPaper ==
    \A c \in calls : c.op = "complete" => copies[c.handOut[1]][c.handOut[2]] > 0

PaperInv == CompletedOnPaper /\ ReportsOnPaper

\* A step that closes no row and sends no complete call of its own accord.
Honest ==
    /\ \A j \in Jobs, g \in Rounds : copies'[j][g] >= copies[j][g]
    /\ vouched \subseteq vouched'
    /\ \A j \in Jobs : status'[j] = "completed" =>
                         status[j] = "completed" \/ OnPaper(j)' \/ j \in vouched'
    /\ \A c \in calls' : c.op = "complete" =>
          \/ \E d \in calls : d.op = "complete" /\ d.handOut = c.handOut
          \/ copies'[c.handOut[1]][c.handOut[2]] > 0

LEMMA HonestStep ==
  ASSUME TypeOK, TypeOK', PaperInv, Honest
  PROVE  PaperInv'
<1>1. \A j \in Jobs, g \in Rounds :
        /\ copies'[j][g] \in Nat /\ copies[j][g] \in Nat
        /\ copies[j][g] > 0 => copies'[j][g] > 0
  BY DEF Honest, TypeOK
<1>2. \A j \in Jobs : OnPaper(j) => OnPaper(j)'
  BY <1>1 DEF OnPaper
<1>3. CompletedOnPaper'
  BY <1>2 DEF Honest, PaperInv, CompletedOnPaper
<1>4. ReportsOnPaper'
  <2> SUFFICES ASSUME NEW c \in calls', c.op = "complete"
               PROVE  copies'[c.handOut[1]][c.handOut[2]] > 0
    BY DEF ReportsOnPaper
  <2>1. c.handOut[1] \in Jobs /\ c.handOut[2] \in Rounds
    BY DEF TypeOK, Calls, HandOuts
  <2>2. CASE \E d \in calls : d.op = "complete" /\ d.handOut = c.handOut
    BY <1>1, <2>1, <2>2 DEF PaperInv, ReportsOnPaper
  <2> QED
    BY <2>2 DEF Honest
<1> QED
  BY <1>3, <1>4 DEF PaperInv

LEMMA PaperGrows ==
  ASSUME TypeOK, NEW t \in HandOuts, PutOnPaper(t)
  PROVE  \A j \in Jobs, g \in Rounds : copies'[j][g] >= copies[j][g]
<1> SUFFICES ASSUME NEW j \in Jobs, NEW g \in Rounds
             PROVE  copies'[j][g] >= copies[j][g]
  OBVIOUS
<1>1. copies[j][g] \in Nat
  BY DEF TypeOK
<1>2. copies'[j][g] \in {copies[j][g], copies[j][g] + 1}
  BY DEF TypeOK, PutOnPaper, HandOuts
<1> QED
  BY <1>1, <1>2

\* Most steps touch neither the paper nor the calls.
LEMMA SilentStep ==
  ASSUME TypeOK, TypeOK', PaperInv, UNCHANGED <<copies, vouched>>, calls' \subseteq calls,
         \A j \in Jobs : status'[j] = "completed" => status[j] = "completed"
  PROVE  PaperInv'
<1>1. \A j \in Jobs, g \in Rounds : copies'[j][g] >= copies[j][g]
  BY DEF TypeOK
<1> QED
  BY <1>1, HonestStep DEF Honest

LEMMA ClaimPaper ==
  ASSUME TypeOK, TypeOK', PaperInv, NEW a \in Agents, ClaimStep(a)
  PROVE  PaperInv'
<1>1. UNCHANGED <<copies, vouched, calls>>
  BY DEF ClaimStep, BeginClaim, TakeClaim, ClaimReplyLost, EmptyClaim
<1>2. \A j \in Jobs : status'[j] = "completed" => status[j] = "completed"
  BY DEF ClaimStep, BeginClaim, Release, TakeClaim, ClaimReplyLost, EmptyClaim, MarkClaimed, row
<1> QED
  BY <1>1, <1>2, SilentStep

LEMMA AgentPaper ==
  ASSUME TypeOK, TypeOK', PaperInv, NEW a \in Agents, AgentStep(a)
  PROVE  PaperInv'
<1>1. UNCHANGED <<status, vouched>>
  BY DEF AgentStep, AgentCrash, AgentPrint, AgentFail, AgentDefer, row
<1>2. CASE UNCHANGED <<calls, copies>>
  BY <1>1, <1>2, SilentStep
<1>3. ASSUME NEW t \in held[a], AgentPrint(a, t) \/ AgentFail(a, t)
      PROVE  PaperInv'
  <2>1. t \in HandOuts /\ t[1] \in Jobs /\ t[2] \in Rounds
    BY DEF TypeOK, Holders, HandOuts
  <2>2. UNCHANGED copies \/ PutOnPaper(t)
    BY <1>3 DEF AgentPrint, AgentFail
  <2>3. \A j \in Jobs, g \in Rounds : copies'[j][g] >= copies[j][g]
    BY <2>1, <2>2, PaperGrows DEF TypeOK
  <2>4. CASE AgentPrint(a, t)
    <3>1. copies'[t[1]][t[2]] > 0
      BY <2>1, <2>4 DEF AgentPrint, PutOnPaper, TypeOK
    <3>2. calls' = calls \cup {Call(a, t, "complete")}
      BY <2>4 DEF AgentPrint
    <3> QED
      BY <1>1, <2>3, <3>1, <3>2, HonestStep DEF Honest, Call
  <2>5. CASE AgentFail(a, t)
    <3>1. calls' = calls \cup {Call(a, t, "fail")}
      BY <2>5 DEF AgentFail
    <3> QED
      BY <1>1, <2>3, <3>1, HonestStep DEF Honest, Call
  <2> QED
    BY <1>3, <2>4, <2>5
<1> QED
  BY <1>2, <1>3 DEF AgentStep, AgentCrash, AgentDefer

LEMMA CallPaper ==
  ASSUME TypeOK, TypeOK', PaperInv, CallStep
  PROVE  PaperInv'
<1>1. PICK c \in calls :
         CheckCall(c) \/ ApplyCall(c) \/ LoseCall(c) \/ BrowserCompleteThrows(c)
  BY DEF CallStep
<1>2. UNCHANGED <<copies, vouched>>
  BY <1>1 DEF CheckCall, ApplyCall, LoseCall, BrowserCompleteThrows
<1>3. \A j \in Jobs, g \in Rounds : copies'[j][g] >= copies[j][g]
  BY <1>2 DEF TypeOK
<1>4. CASE CheckCall(c)
  <2>1. status' = status
    BY <1>4 DEF CheckCall, row
  <2>2. \A d \in calls' : \E e \in calls : d.op = e.op /\ d.handOut = e.handOut
    <3>1. LET e == [c EXCEPT !.checked = TRUE]
          IN  e.op = c.op /\ e.handOut = c.handOut
      BY DEF TypeOK, Calls
    <3> QED
      BY <1>4, <3>1 DEF CheckCall
  <2> QED
    BY <1>2, <1>3, <2>1, <2>2, HonestStep DEF Honest
<1>5. CASE ApplyCall(c)
  <2>1. status' = [status EXCEPT ![JobOf(c)] = Outcome(c.op)] /\ calls' = calls \ {c}
    BY <1>5 DEF ApplyCall
  <2>2. c.op = "complete" => OnPaper(JobOf(c))'
    BY <1>2 DEF PaperInv, ReportsOnPaper, OnPaper, JobOf, TypeOK, Calls, HandOuts
  <2>3. \A j \in Jobs : status'[j] = "completed" => status[j] = "completed" \/ OnPaper(j)'
    BY <2>1, <2>2 DEF TypeOK, Outcome
  <2> QED
    BY <1>2, <1>3, <2>1, <2>3, HonestStep DEF Honest
<1>6. CASE LoseCall(c)
  BY <1>2, <1>6, SilentStep DEF LoseCall, row
<1>7. CASE BrowserCompleteThrows(c)
  <2>1. status' = status
    BY <1>7 DEF BrowserCompleteThrows, row
  <2>2. calls' \subseteq calls \cup {Call(c.by, c.handOut, "fail")}
    BY <1>7 DEF BrowserCompleteThrows
  <2> QED
    BY <1>2, <1>3, <2>1, <2>2, HonestStep DEF Honest, Call
<1> QED
  BY <1>1, <1>4, <1>5, <1>6, <1>7

LEMMA StationPaper ==
  ASSUME TypeOK, TypeOK', PaperInv, StationStep
  PROVE  PaperInv'
<1>1. UNCHANGED <<vouched, calls>>
  BY DEF StationStep, StationPoll, StationPollReplyLost, StationReload, StationPrint, StationFail
<1>2. \A j \in Jobs : status'[j] = "completed" => status[j] = "completed"
  BY DEF StationStep, StationPoll, StationPollReplyLost, StationReload, StationPrint,
         StationFail, MarkPolled, row, TypeOK
<1>3. UNCHANGED copies \/ \E t \in held[Station] : PutOnPaper(t)
  BY DEF StationStep, StationPoll, StationPollReplyLost, StationReload, StationPrint, StationFail
<1>4. \A j \in Jobs, g \in Rounds : copies'[j][g] >= copies[j][g]
  <2>1. held[Station] \subseteq HandOuts
    BY DEF TypeOK, Holders
  <2> QED
    BY <1>3, <2>1, PaperGrows DEF TypeOK
<1> QED
  BY <1>1, <1>2, <1>4, HonestStep DEF Honest

LEMMA OperatorPaper ==
  ASSUME TypeOK, TypeOK', PaperInv, OperatorStep
  PROVE  PaperInv'
<1>1. UNCHANGED <<copies, calls>> /\ vouched \subseteq vouched'
  BY DEF OperatorStep, FailJob, CompleteJob, ConfirmJob, RetryJob, DispatchSend,
         DispatchWrite, DispatchLost, DeleteBridge, RegisterBridge, AssignAreas
<1>2. \A j \in Jobs, g \in Rounds : copies'[j][g] >= copies[j][g]
  BY <1>1 DEF TypeOK
<1>3. \A j \in Jobs : status'[j] = "completed" => status[j] = "completed" \/ j \in vouched'
  <2>1. ASSUME NEW k \in Jobs,
               FailJob(k) \/ CompleteJob(k) \/ ConfirmJob(k) \/ RetryJob(k) \/ DispatchSend(k)
        PROVE  \A j \in Jobs : status'[j] = "completed" =>
                                 status[j] = "completed" \/ j \in vouched'
    BY <2>1 DEF FailJob, CompleteJob, ConfirmJob, RetryJob, DispatchSend, SetStatus, row, TypeOK
  <2>2. ASSUME NEW d \in dispatching, DispatchWrite(d) \/ DispatchLost(d)
        PROVE  \A j \in Jobs : status'[j] = "completed" => status[j] = "completed"
    BY <2>2 DEF DispatchWrite, DispatchLost, SetStatus, row, TypeOK
  <2>3. ASSUME NEW b \in Bridges,
               \/ DeleteBridge(b) \/ RegisterBridge(b)
               \/ \E S \in SUBSET Areas : AssignAreas(b, S)
        PROVE  \A j \in Jobs : status'[j] = "completed" => status[j] = "completed"
    BY <2>3 DEF DeleteBridge, Release, RegisterBridge, AssignAreas, row
  <2> QED
    BY <2>1, <2>2, <2>3 DEF OperatorStep
<1> QED
  BY <1>1, <1>2, <1>3, HonestStep DEF Honest

LEMMA PaperKept == Spec => []PaperInv
<1>1. Init => PaperInv
  BY DEF Init, PaperInv, CompletedOnPaper, ReportsOnPaper
<1>2. TypeOK /\ TypeOK' /\ PaperInv /\ [Next]_vars => PaperInv'
  <2> SUFFICES ASSUME TypeOK, TypeOK', PaperInv, [Next]_vars PROVE PaperInv'
    OBVIOUS
  <2>1. ASSUME NEW j \in Jobs,
               CreateJob(j) \/ Age(j) \/ \E b \in Bridges : CreateTestJob(j, b)
        PROVE  PaperInv'
    <3>1. UNCHANGED <<copies, vouched, calls>>
      BY <2>1 DEF CreateJob, Age, CreateTestJob
    <3>2. \A k \in Jobs : status'[k] = "completed" => status[k] = "completed"
      BY <2>1 DEF CreateJob, Age, CreateTestJob, TypeOK
    <3> QED
      BY <3>1, <3>2, SilentStep
  <2>2. CASE UNCHANGED vars
    BY <2>2, SilentStep DEF vars, row
  <2> QED
    BY <2>1, <2>2, ClaimPaper, AgentPaper, CallPaper, StationPaper, OperatorPaper DEF Next
<1> QED
  BY <1>1, <1>2, TypeCorrect, PTL DEF Spec

\* A row that is completed is on paper, or an operator answers for it
\* (processJob reports only what was printed, completeBridgeJob records it).
THEOREM NothingClosedUnprinted == Spec => []CompletedOnPaper
<1>1. PaperInv => CompletedOnPaper
  BY DEF PaperInv
<1> QED
  BY <1>1, PaperKept, PTL

-----------------------------------------------------------------------------
(* The claim columns of a row.  OwnerColumnsAgree needs to know that a row  *)
(* not yet inserted has no owner, for the test ticket binds its bridge.    *)

AbsentUnowned == \A j \in Jobs : status[j] = "absent" => claimedBy[j] = Null

RowInv == OwnerColumnsAgree /\ EveryDispatchDated /\ AbsentUnowned

LEMMA ClaimRows ==
  ASSUME TypeOK, RowInv, NEW a \in Agents, ClaimStep(a)
  PROVE  RowInv'
<1>1. CASE BeginClaim(a)
  BY <1>1 DEF BeginClaim, Release, RowInv, OwnerColumnsAgree, EveryDispatchDated, AbsentUnowned
<1>2. ASSUME NEW S \in Claimable(a), MarkClaimed(S, a), dispatchedAt' = dispatchedAt
      PROVE  RowInv'
  <2>1. S \subseteq Jobs /\ a # Null
    BY NullAssumption DEF Claimable, Candidates
  <2>2. OwnerColumnsAgree'
    BY <1>2, <2>1 DEF MarkClaimed, RowInv, OwnerColumnsAgree
  <2>3. EveryDispatchDated' /\ AbsentUnowned'
    BY <1>2, <2>1 DEF MarkClaimed, RowInv, EveryDispatchDated, AbsentUnowned
  <2> QED
    BY <2>2, <2>3 DEF RowInv
<1>3. CASE EmptyClaim(a)
  BY <1>3 DEF EmptyClaim, row, RowInv, OwnerColumnsAgree, EveryDispatchDated, AbsentUnowned
<1> QED
  BY <1>1, <1>2, <1>3 DEF ClaimStep, TakeClaim, ClaimReplyLost

\* Steps that leave the claim columns alone.
LEMMA UnclaimedStep ==
  ASSUME TypeOK, RowInv, UNCHANGED <<bridgeId, claimedBy, claimedAt>>,
         \A j \in Jobs : status'[j] = "absent" => status[j] = "absent",
         \A j \in Jobs : status'[j] = "dispatched" =>
            \/ dispatchedAt'[j]
            \/ status[j] = "dispatched" /\ dispatchedAt'[j] = dispatchedAt[j]
  PROVE  RowInv'
<1>1. OwnerColumnsAgree'
  BY DEF RowInv, OwnerColumnsAgree
<1>2. EveryDispatchDated'
  BY DEF RowInv, EveryDispatchDated
<1>3. AbsentUnowned'
  BY DEF RowInv, AbsentUnowned
<1> QED
  BY <1>1, <1>2, <1>3 DEF RowInv

LEMMA AgentRows ==
  ASSUME TypeOK, RowInv, NEW a \in Agents, AgentStep(a)
  PROVE  RowInv'
<1>1. UNCHANGED row
  BY DEF AgentStep, AgentCrash, AgentPrint, AgentFail, AgentDefer
<1> QED
  BY <1>1, UnclaimedStep DEF row

LEMMA CallRows ==
  ASSUME TypeOK, RowInv, CallStep
  PROVE  RowInv'
<1>1. PICK c \in calls :
         \/ UNCHANGED status
         \/ status' = [status EXCEPT ![JobOf(c)] = Outcome(c.op)]
  BY DEF CallStep, CheckCall, ApplyCall, LoseCall, BrowserCompleteThrows, row
<1>2. UNCHANGED <<bridgeId, claimedBy, claimedAt, dispatchedAt>>
  BY DEF CallStep, CheckCall, ApplyCall, LoseCall, BrowserCompleteThrows, row
<1>3. \A j \in Jobs : status'[j] \in {"absent", "dispatched"} => status[j] = status'[j]
  BY <1>1 DEF TypeOK, Outcome
<1> QED
  BY <1>2, <1>3, UnclaimedStep

LEMMA StationRows ==
  ASSUME TypeOK, RowInv, StationStep
  PROVE  RowInv'
<1>1. UNCHANGED <<bridgeId, claimedBy, claimedAt>>
  BY DEF StationStep, StationPoll, StationPollReplyLost, StationReload, StationPrint,
         StationFail, row
<1>2. CASE MarkPolled
  <2>1. \A j \in Jobs : status'[j] = IF j \in Pollable THEN "dispatched" ELSE status[j]
    BY <1>2 DEF MarkPolled
  <2>2. \A j \in Jobs : dispatchedAt'[j] = (j \in Pollable \/ dispatchedAt[j])
    BY <1>2, ZenonT(20) DEF MarkPolled
  <2>3. \A j \in Jobs : dispatchedAt[j] \in BOOLEAN
    BY DEF TypeOK
  <2>4. \A j \in Jobs \ Pollable : dispatchedAt'[j] = dispatchedAt[j]
    BY <2>2, <2>3
  <2>5. \A j \in Pollable : j \in Jobs /\ dispatchedAt'[j]
    BY <2>2, Zenon DEF Pollable
  <2> QED
    BY <1>1, <2>1, <2>4, <2>5, UnclaimedStep
<1>3. CASE StationReload \/ \E t \in held[Station] : StationPrint(t) \/ StationFail(t)
  <2>1. UNCHANGED dispatchedAt
    BY <1>3 DEF StationReload, StationPrint, StationFail, row
  <2>2. \A j \in Jobs : status'[j] \in {"absent", "dispatched"} => status[j] = status'[j]
    BY <1>3 DEF StationReload, StationPrint, StationFail, row, TypeOK
  <2> QED
    BY <1>1, <2>1, <2>2, UnclaimedStep
<1> QED
  BY <1>2, <1>3 DEF StationStep, StationPoll, StationPollReplyLost

LEMMA OperatorRows ==
  ASSUME TypeOK, RowInv, OperatorStep
  PROVE  RowInv'
<1>1. ASSUME NEW j \in Jobs,
             FailJob(j) \/ CompleteJob(j) \/ ConfirmJob(j) \/ RetryJob(j) \/ DispatchSend(j)
      PROVE  RowInv'
  <2>1. UNCHANGED <<bridgeId, claimedBy, claimedAt>>
    BY <1>1 DEF FailJob, CompleteJob, ConfirmJob, RetryJob, DispatchSend, row
  <2>2. \A k \in Jobs : status'[k] = "absent" => status[k] = "absent"
    BY <1>1 DEF FailJob, CompleteJob, ConfirmJob, RetryJob, DispatchSend, SetStatus, row, TypeOK
  <2>3. \A k \in Jobs : status'[k] = "dispatched" =>
                          status[k] = "dispatched" /\ dispatchedAt'[k] = dispatchedAt[k]
    BY <1>1 DEF FailJob, CompleteJob, ConfirmJob, RetryJob, DispatchSend, SetStatus, row, TypeOK
  <2> QED
    BY <2>1, <2>2, <2>3, UnclaimedStep
<1>2. ASSUME NEW d \in dispatching, DispatchWrite(d) \/ DispatchLost(d)
      PROVE  RowInv'
  <2>1. UNCHANGED <<bridgeId, claimedBy, claimedAt>>
    BY <1>2 DEF DispatchWrite, DispatchLost, row
  <2>2. \A k \in Jobs : status'[k] = "absent" => status[k] = "absent"
    BY <1>2 DEF DispatchWrite, DispatchLost, SetStatus, row, TypeOK
  <2>3. \A k \in Jobs : status'[k] = "dispatched" =>
            \/ dispatchedAt'[k]
            \/ status[k] = "dispatched" /\ dispatchedAt'[k] = dispatchedAt[k]
    BY <1>2 DEF DispatchWrite, DispatchLost, SetStatus, row, TypeOK
  <2> QED
    BY <2>1, <2>2, <2>3, UnclaimedStep
<1>3. ASSUME NEW b \in Bridges, DeleteBridge(b)
      PROVE  RowInv'
  BY <1>3 DEF DeleteBridge, Release, TypeOK,
              RowInv, OwnerColumnsAgree, EveryDispatchDated, AbsentUnowned
<1>4. ASSUME NEW b \in Bridges,
             RegisterBridge(b) \/ \E S \in SUBSET Areas : AssignAreas(b, S)
      PROVE  RowInv'
  BY <1>4, UnclaimedStep DEF RegisterBridge, AssignAreas, row
<1> QED
  BY <1>1, <1>2, <1>3, <1>4 DEF OperatorStep

LEMMA RowsKept == Spec => []RowInv
<1>1. Init => RowInv
  BY DEF Init, RowInv, OwnerColumnsAgree, EveryDispatchDated, AbsentUnowned
<1>2. TypeOK /\ RowInv /\ [Next]_vars => RowInv'
  <2> SUFFICES ASSUME TypeOK, RowInv, [Next]_vars PROVE RowInv'
    OBVIOUS
  <2>1. ASSUME NEW j \in Jobs, CreateJob(j)
        PROVE  RowInv'
    <3>1. \A k \in Jobs : status'[k] \in {"absent", "dispatched"} => status[k] = status'[k]
      BY <2>1 DEF CreateJob, TypeOK
    <3> QED
      BY <2>1, <3>1, UnclaimedStep DEF CreateJob
  <2>2. ASSUME NEW j \in Jobs, NEW b \in Bridges, CreateTestJob(j, b)
        PROVE  RowInv'
    <3>1. claimedBy[j] = Null
      BY <2>2 DEF CreateTestJob, RowInv, AbsentUnowned
    <3> QED
      BY <2>2, <3>1 DEF CreateTestJob, TypeOK, RowInv, OwnerColumnsAgree,
                        EveryDispatchDated, AbsentUnowned
  <2>3. ASSUME NEW j \in Jobs, Age(j)
        PROVE  RowInv'
    BY <2>3 DEF Age, TypeOK, RowInv, OwnerColumnsAgree, EveryDispatchDated, AbsentUnowned
  <2>4. CASE UNCHANGED vars
    BY <2>4, UnclaimedStep DEF vars, row
  <2> QED
    BY <2>1, <2>2, <2>3, <2>4, ClaimRows, AgentRows, CallRows, StationRows, OperatorRows
       DEF Next
<1> QED
  BY <1>1, <1>2, TypeCorrect, PTL DEF Spec

\* The two columns a report is checked against never contradict each other
\* (claimPrintJobsForBridge, reclaimStalePrintJobClaims, deletePrintBridge).
THEOREM OwnersAgree == Spec => []OwnerColumnsAgree
<1>1. RowInv => OwnerColumnsAgree
  BY DEF RowInv
<1> QED
  BY <1>1, RowsKept, PTL

\* A dispatched row always shows when it was handed out (pollPrintJobs,
\* dispatchPrintJob and the claim; retryPrintJob clears it with the status).
THEOREM DispatchesDated == Spec => []EveryDispatchDated
<1>1. RowInv => EveryDispatchDated
  BY DEF RowInv
<1> QED
  BY <1>1, RowsKept, PTL
=============================================================================
