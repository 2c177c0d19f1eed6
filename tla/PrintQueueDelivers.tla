------------------------- MODULE PrintQueueDelivers -------------------------
(***************************************************************************)
(* PrintQueue implements TicketDelivery, for any number of rows, agents,   *)
(* bridges and faults: every step of the queue is one of what the kitchen  *)
(* is promised, or none.                                                   *)
(***************************************************************************)
EXTENDS PrintQueueProofs

-----------------------------------------------------------------------------
(* Whoever holds, reports or dispatches a ticket has its row in the queue, *)
(* and a row not yet inserted has not started a second round.              *)

PresentInv ==
    /\ \A j \in Jobs : status[j] = "absent" => round[j] = 1
    /\ \A h \in Holders : \A t \in held[h] : status[t[1]] # "absent"
    /\ \A c \in calls : status[JobOf(c)] # "absent"
    /\ \A d \in dispatching : status[d[1]] # "absent"

\* Rows stay inserted.
RowsStay ==
    \A j \in Jobs : /\ status[j] # "absent" => status'[j] # "absent"
                    /\ status'[j] = "absent" => round'[j] = round[j]

\* What is handed out, reported or dispatched was in somebody's hands, or its row
\* is inserted.
HandsStay ==
    /\ \A h \in Holders : \A t \in held'[h] : t \in held[h] \/ status'[t[1]] # "absent"
    /\ \A c \in calls' : \/ \E d \in calls : d.handOut = c.handOut
                         \/ \E h \in Holders : c.handOut \in held[h]
    /\ \A d \in dispatching' : d \in dispatching \/ status[d[1]] # "absent"

LEMMA PresentStep ==
  ASSUME TypeOK, TypeOK', PresentInv, RowsStay, HandsStay
  PROVE  PresentInv'
<1>1. \A j \in Jobs : status'[j] = "absent" => round'[j] = 1
  BY DEF PresentInv, RowsStay
<1>2. ASSUME NEW h \in Holders, NEW t \in held'[h]
      PROVE  status'[t[1]] # "absent"
  <2>1. t[1] \in Jobs
    BY DEF TypeOK, HandOuts
  <2> QED
    BY <2>1 DEF PresentInv, RowsStay, HandsStay
<1>3. ASSUME NEW c \in calls'
      PROVE  status'[JobOf(c)] # "absent"
  <2>1. JobOf(c) \in Jobs
    BY DEF TypeOK, Calls, HandOuts, JobOf
  <2>2. status[JobOf(c)] # "absent"
    BY DEF PresentInv, HandsStay, JobOf
  <2> QED
    BY <2>1, <2>2 DEF RowsStay
<1>4. ASSUME NEW d \in dispatching'
      PROVE  status'[d[1]] # "absent"
  <2>1. d[1] \in Jobs
    BY DEF TypeOK
  <2> QED
    BY <2>1 DEF PresentInv, RowsStay, HandsStay
<1> QED
  BY <1>1, <1>2, <1>3, <1>4 DEF PresentInv

LEMMA ClaimPresent ==
  ASSUME TypeOK, TypeOK', PresentInv, NEW a \in Agents, ClaimStep(a)
  PROVE  PresentInv'
<1>1. CASE BeginClaim(a)
  <2>1. RowsStay
    BY <1>1 DEF BeginClaim, Release, Requeue, StaleJobs, RowsStay
  <2> QED
    BY <1>1, <2>1, PresentStep DEF BeginClaim, HandsStay
<1>2. ASSUME NEW S \in Claimable(a), MarkClaimed(S, a), UNCHANGED <<round, calls, dispatching>>,
             \/ held' = held
             \/ held' = [held EXCEPT ![a] = @ \cup HandOutsOf(S)]
      PROVE  PresentInv'
  <2>1. RowsStay
    BY <1>2 DEF MarkClaimed, RowsStay
  <2>2. \A t \in HandOutsOf(S) : status'[t[1]] # "absent"
    BY <1>2 DEF MarkClaimed, HandOutsOf, Claimable, Candidates
  <2>3. \A h \in Holders : held'[h] \subseteq held[h] \cup HandOutsOf(S)
    BY <1>2 DEF TypeOK
  <2> QED
    BY <1>2, <2>1, <2>2, <2>3, PresentStep DEF HandsStay
<1>3. CASE EmptyClaim(a)
  BY <1>3, PresentStep DEF EmptyClaim, row, RowsStay, HandsStay
<1> QED
  BY <1>1, <1>2, <1>3 DEF ClaimStep, TakeClaim, ClaimReplyLost

LEMMA AgentPresent ==
  ASSUME TypeOK, TypeOK', PresentInv, NEW a \in Agents, AgentStep(a)
  PROVE  PresentInv'
<1>1. RowsStay /\ dispatching' = dispatching
  BY DEF AgentStep, AgentCrash, AgentPrint, AgentFail, AgentDefer, row, RowsStay
<1>2. \A h \in Holders : held'[h] \subseteq held[h]
  BY DEF AgentStep, AgentCrash, AgentPrint, AgentFail, AgentDefer, Drop, TypeOK
<1>3. \A c \in calls' : c \in calls \/ c.handOut \in held[a]
  BY DEF AgentStep, AgentCrash, AgentPrint, AgentFail, AgentDefer, Call
<1> QED
  BY <1>1, <1>2, <1>3, PresentStep DEF HandsStay, Holders

LEMMA CallPresent ==
  ASSUME TypeOK, TypeOK', PresentInv, CallStep
  PROVE  PresentInv'
<1>1. PICK c \in calls :
         CheckCall(c) \/ ApplyCall(c) \/ LoseCall(c) \/ BrowserCompleteThrows(c)
  BY DEF CallStep
<1>2. UNCHANGED <<held, round, dispatching>>
  BY <1>1 DEF CheckCall, ApplyCall, LoseCall, BrowserCompleteThrows
<1>3. \A j \in Jobs : status[j] # "absent" <=> status'[j] # "absent"
  BY <1>1 DEF CheckCall, ApplyCall, LoseCall, BrowserCompleteThrows, row, Outcome, TypeOK, PresentInv
<1>4. \A e \in calls' : e \in calls \/ e.handOut = c.handOut
  <2>1. CASE CheckCall(c)
    <3>1. [c EXCEPT !.checked = TRUE].handOut = c.handOut
      BY DEF TypeOK, Calls
    <3> QED
      BY <2>1, <3>1 DEF CheckCall
  <2>2. CASE ApplyCall(c) \/ LoseCall(c)
    BY <2>2 DEF ApplyCall, LoseCall
  <2>3. CASE BrowserCompleteThrows(c)
    <3>1. Call(c.by, c.handOut, "fail").handOut = c.handOut
      BY DEF Call
    <3> QED
      BY <2>3, <3>1 DEF BrowserCompleteThrows
  <2> QED
    BY <1>1, <2>1, <2>2, <2>3
<1> QED
  BY <1>2, <1>3, <1>4, PresentStep DEF RowsStay, HandsStay

LEMMA StationPresent ==
  ASSUME TypeOK, TypeOK', PresentInv, StationStep
  PROVE  PresentInv'
<1>1. UNCHANGED <<calls, round, dispatching>>
  BY DEF StationStep, StationPoll, StationPollReplyLost, StationReload, StationPrint, StationFail
<1>2. RowsStay
  BY <1>1 DEF StationStep, StationPoll, StationPollReplyLost, StationReload, StationPrint,
              StationFail, MarkPolled, row, TypeOK, RowsStay
<1>3. \A h \in Holders : \A t \in held'[h] : t \in held[h] \/ status'[t[1]] # "absent"
  <2>1. CASE StationPoll
    <3>1. \A t \in HandOutsOf(Pollable) : status'[t[1]] # "absent"
      BY <2>1 DEF StationPoll, MarkPolled, HandOutsOf, Pollable
    <3>2. \A h \in Holders : held'[h] \subseteq held[h] \cup HandOutsOf(Pollable)
      BY <2>1 DEF StationPoll, TypeOK
    <3> QED
      BY <3>1, <3>2
  <2>2. CASE ~StationPoll
    BY <2>2 DEF StationStep, StationPollReplyLost, StationReload, StationPrint, StationFail,
                Drop, TypeOK
  <2> QED
    BY <2>1, <2>2
<1> QED
  BY <1>1, <1>2, <1>3, PresentStep DEF HandsStay

LEMMA OperatorPresent ==
  ASSUME TypeOK, TypeOK', PresentInv, OperatorStep
  PROVE  PresentInv'
<1>1. UNCHANGED <<calls, held>>
  BY DEF OperatorStep, FailJob, CompleteJob, ConfirmJob, RetryJob, DispatchSend,
         DispatchWrite, DispatchLost, DeleteBridge, RegisterBridge, AssignAreas
<1>2. ASSUME NEW j \in Jobs,
             FailJob(j) \/ CompleteJob(j) \/ ConfirmJob(j) \/ RetryJob(j) \/ DispatchSend(j)
      PROVE  PresentInv'
  <2>1. RowsStay
    BY <1>2 DEF FailJob, CompleteJob, ConfirmJob, RetryJob, DispatchSend, SetStatus, Operator,
                Requeue, row, TypeOK, RowsStay
  <2>2. \A d \in dispatching' : d \in dispatching \/ status[d[1]] # "absent"
    BY <1>2 DEF FailJob, CompleteJob, ConfirmJob, RetryJob, DispatchSend, Operator
  <2> QED
    BY <1>1, <2>1, <2>2, PresentStep DEF HandsStay
<1>3. ASSUME NEW d \in dispatching, DispatchWrite(d) \/ DispatchLost(d)
      PROVE  PresentInv'
  <2>1. RowsStay
    BY <1>3 DEF DispatchWrite, DispatchLost, SetStatus, row, TypeOK, RowsStay
  <2> QED
    BY <1>1, <1>3, <2>1, PresentStep DEF DispatchWrite, DispatchLost, HandsStay
<1>4. ASSUME NEW b \in Bridges,
             \/ DeleteBridge(b) \/ RegisterBridge(b)
             \/ \E S \in SUBSET Areas : AssignAreas(b, S)
      PROVE  PresentInv'
  <2>1. RowsStay
    BY <1>4 DEF DeleteBridge, RegisterBridge, AssignAreas, Release, Requeue, LiveJobsOf, row,
                RowsStay
  <2>2. dispatching' = dispatching
    BY <1>4 DEF DeleteBridge, RegisterBridge, AssignAreas
  <2> QED
    BY <1>1, <2>1, <2>2, PresentStep DEF HandsStay
<1> QED
  BY <1>2, <1>3, <1>4 DEF OperatorStep

LEMMA PresentKept == Spec => []PresentInv
<1>1. Init => PresentInv
  BY DEF Init, PresentInv
<1>2. TypeOK /\ TypeOK' /\ PresentInv /\ [Next]_vars => PresentInv'
  <2> SUFFICES ASSUME TypeOK, TypeOK', PresentInv, [Next]_vars PROVE PresentInv'
    OBVIOUS
  <2>1. ASSUME NEW j \in Jobs,
               CreateJob(j) \/ Age(j) \/ \E b \in Bridges : CreateTestJob(j, b)
        PROVE  PresentInv'
    <3>1. RowsStay
      BY <2>1 DEF CreateJob, Age, CreateTestJob, TypeOK, RowsStay
    <3> QED
      BY <2>1, <3>1, PresentStep DEF CreateJob, Age, CreateTestJob, HandsStay
  <2>2. CASE UNCHANGED vars
    BY <2>2, PresentStep DEF vars, row, RowsStay, HandsStay
  <2> QED
    BY <2>1, <2>2, ClaimPresent, AgentPresent, CallPresent, StationPresent, OperatorPresent
       DEF Next
<1> QED
  BY <1>1, <1>2, TypeCorrect, PTL DEF Spec

-----------------------------------------------------------------------------
(* What a step of the queue is to the kitchen.                             *)

Asked == [j \in Jobs |-> IF status[j] = "absent" THEN 0 ELSE round[j]]
Closed == {j \in Jobs : status[j] = "completed"}

\* Rows change hands: nothing the kitchen would notice.
LEMMA StutterStep ==
  ASSUME UNCHANGED <<round, copies, vouched>>,
         \A j \in Jobs : /\ status'[j] = "absent" <=> status[j] = "absent"
                         /\ status'[j] = "completed" <=> status[j] = "completed"
  PROVE  UNCHANGED Delivery!vars
<1>1. Asked' = Asked /\ Closed' = Closed
  BY DEF Asked, Closed
<1> QED
  BY <1>1 DEF Asked, Closed, Delivery!vars

LEMMA AskStep ==
  ASSUME NEW S \in SUBSET Jobs, S \cap Closed = {}, UNCHANGED <<copies, vouched>>,
         Asked' = [j \in Jobs |-> IF j \in S THEN Asked[j] + 1 ELSE Asked[j]],
         Closed' = Closed
  PROVE  Delivery!Next
BY DEF Asked, Closed, Delivery!Next, Delivery!Ask

\* Reclaim, deletion of a bridge and retry.
LEMMA RequeueAsks ==
  ASSUME TypeOK, NEW S \in SUBSET Jobs, Requeue(S), UNCHANGED <<copies, vouched>>,
         \A j \in S : status[j] \notin {"absent", "completed"},
         \A j \in Jobs : status'[j] = IF j \in S THEN "pending" ELSE status[j]
  PROVE  Delivery!Next
<1>1. Asked' = [j \in Jobs |-> IF j \in S THEN Asked[j] + 1 ELSE Asked[j]]
  BY DEF Asked, Requeue
<1>2. Closed' = Closed /\ S \cap Closed = {}
  BY DEF Closed
<1> QED
  BY <1>1, <1>2, AskStep

\* A row that was not closed before, or is not any more.
LEMMA ReopenStep ==
  ASSUME TypeOK, NEW j \in Jobs, status[j] # "absent",
         status' = [status EXCEPT ![j] = "failed"] \/ status' = [status EXCEPT ![j] = "dispatched"],
         UNCHANGED <<round, copies, vouched>>
  PROVE  Delivery!Next
<1>1. Asked' = Asked
  BY DEF TypeOK, Asked
<1>2. Closed' = Closed \ {j}
  BY DEF TypeOK, Closed
<1>3. Delivery!Reopen(j)
  BY <1>1, <1>2 DEF Asked, Closed, Delivery!Reopen
<1> QED
  BY <1>3 DEF Delivery!Next

LEMMA CloseStep ==
  ASSUME TypeOK, NEW j \in Jobs, status[j] # "absent",
         status' = [status EXCEPT ![j] = "completed"], UNCHANGED <<round, copies>>,
         vouched' \in {vouched, vouched \cup {j}},
         OnPaper(j) \/ j \in vouched'
  PROVE  Delivery!Next
<1>1. Asked' = Asked /\ Asked[j] > 0
  BY DEF TypeOK, Asked, Rounds
<1>2. Closed' = Closed \cup {j}
  BY DEF TypeOK, Closed
<1>3. OnPaper(j) => Delivery!Out(j)
  BY DEF OnPaper, Rounds, Delivery!Out, Delivery!Rounds
<1>4. Delivery!Close(j)
  BY <1>1, <1>2, <1>3 DEF Asked, Closed, Delivery!Close
<1> QED
  BY <1>4 DEF Delivery!Next

\* A copy goes on paper, for a round that was asked for and had none; the attempt
\* may be reported as failed in the same step.
LEMMA PutOutStep ==
  ASSUME TypeOK, CopiesInv, PresentInv, NEW h \in Holders, NEW t \in held[h], PutOnPaper(t),
         UNCHANGED <<round, vouched>>,
         status' \in {status, [status EXCEPT ![t[1]] = "failed"]}
  PROVE  Delivery!Next
<1>1. t = <<t[1], t[2]>> /\ t[1] \in Jobs /\ t[2] \in Rounds
  BY DEF TypeOK, HandOuts
<1>2. status[t[1]] # "absent" /\ copies[t[1]][t[2]] = 0
  BY DEF PresentInv, CopiesInv, HeldUnprinted
<1>3. ~(t[2] > round[t[1]])
  BY <1>1 DEF CopiesInv, FutureUntouched, Untouched
<1>4. Asked' = Asked /\ t[2] <= Asked[t[1]]
  BY <1>1, <1>2, <1>3, BoundsAssumption DEF TypeOK, Asked, Rounds
<1>5. Closed' \in {Closed, Closed \ {t[1]}}
  BY <1>1 DEF TypeOK, Closed
<1>6. copies' = [copies EXCEPT ![t[1]][t[2]] = 1]
  BY <1>1, <1>2 DEF TypeOK, PutOnPaper
<1>7. Delivery!PutOut(t[1], t[2])
  BY <1>2, <1>4, <1>5, <1>6 DEF Asked, Closed, Delivery!PutOut
<1> QED
  BY <1>1, <1>7 DEF Delivery!Next, Delivery!Rounds, Rounds

\* The row appears: the ticket is asked for the first time.
LEMMA CreateAsks ==
  ASSUME TypeOK, PresentInv, NEW j \in Jobs, status[j] = "absent",
         status' = [status EXCEPT ![j] = "pending"], UNCHANGED <<round, copies, vouched>>
  PROVE  Delivery!Next
<1>1. Asked' = [k \in Jobs |-> IF k \in {j} THEN Asked[k] + 1 ELSE Asked[k]]
  BY DEF TypeOK, PresentInv, Asked
<1>2. Closed' = Closed /\ {j} \cap Closed = {}
  BY DEF TypeOK, Closed
<1> QED
  BY <1>1, <1>2, AskStep

-----------------------------------------------------------------------------
(* Every step, by who takes it.                                            *)

LEMMA ClaimDelivers ==
  ASSUME TypeOK, NEW a \in Agents, ClaimStep(a)
  PROVE  [Delivery!Next]_(Delivery!vars)
<1>1. CASE BeginClaim(a)
  <2>1. \A j \in StaleJobs : status[j] \notin {"absent", "completed"}
    BY DEF StaleJobs
  <2>2. StaleJobs \in SUBSET Jobs
    BY DEF StaleJobs
  <2> QED
    BY <1>1, <2>1, <2>2, RequeueAsks DEF BeginClaim, Release
<1>2. ASSUME NEW S \in Claimable(a), MarkClaimed(S, a), UNCHANGED <<round, copies, vouched>>
      PROVE  UNCHANGED Delivery!vars
  <2>1. \A j \in S : status[j] = "pending"
    BY DEF Claimable, Candidates
  <2> QED
    BY <1>2, <2>1, StutterStep DEF MarkClaimed
<1>3. CASE EmptyClaim(a)
  BY <1>3, StutterStep DEF EmptyClaim, row
<1> QED
  BY <1>1, <1>2, <1>3 DEF ClaimStep, TakeClaim, ClaimReplyLost

LEMMA AgentDelivers ==
  ASSUME TypeOK, CopiesInv, PresentInv, NEW a \in Agents, AgentStep(a)
  PROVE  [Delivery!Next]_(Delivery!vars)
<1>1. UNCHANGED <<status, round, vouched>>
  BY DEF AgentStep, AgentCrash, AgentPrint, AgentFail, AgentDefer, row
<1>2. copies' = copies \/ \E t \in held[a] : PutOnPaper(t)
  BY DEF AgentStep, AgentCrash, AgentPrint, AgentFail, AgentDefer
<1>3. CASE copies' = copies
  BY <1>1, <1>3, StutterStep
<1>4. ASSUME NEW t \in held[a], PutOnPaper(t)
      PROVE  Delivery!Next
  BY <1>1, <1>4, PutOutStep DEF Holders
<1> QED
  BY <1>2, <1>3, <1>4

LEMMA CallDelivers ==
  ASSUME TypeOK, PaperInv, PresentInv, CallStep
  PROVE  [Delivery!Next]_(Delivery!vars)
<1>1. PICK c \in calls :
         CheckCall(c) \/ ApplyCall(c) \/ LoseCall(c) \/ BrowserCompleteThrows(c)
  BY DEF CallStep
<1>2. UNCHANGED <<round, copies, vouched>>
  BY <1>1 DEF CheckCall, ApplyCall, LoseCall, BrowserCompleteThrows
<1>3. CASE ApplyCall(c)
  <2>1. c \in Calls /\ JobOf(c) \in Jobs /\ c.handOut[2] \in Rounds
    BY DEF TypeOK, Calls, HandOuts, JobOf
  <2>2. status[JobOf(c)] # "absent"
    BY DEF PresentInv
  <2>3. CASE c.op = "complete"
    <3>1. OnPaper(JobOf(c))
      BY <2>1, <2>3 DEF PaperInv, ReportsOnPaper, OnPaper, JobOf
    <3>2. status' = [status EXCEPT ![JobOf(c)] = "completed"]
      BY <1>3, <2>3 DEF ApplyCall, Outcome
    <3> QED
      BY <1>2, <2>1, <2>2, <3>1, <3>2, CloseStep
  <2>4. CASE c.op # "complete"
    <3>1. status' = [status EXCEPT ![JobOf(c)] = "failed"]
      BY <1>3, <2>4 DEF ApplyCall, Outcome
    <3> QED
      BY <1>2, <2>1, <2>2, <3>1, ReopenStep
  <2> QED
    BY <2>3, <2>4
<1>4. CASE ~ApplyCall(c)
  BY <1>1, <1>2, <1>4, StutterStep DEF CheckCall, LoseCall, BrowserCompleteThrows, row
<1> QED
  BY <1>3, <1>4

LEMMA StationDelivers ==
  ASSUME TypeOK, CopiesInv, PresentInv, StationStep
  PROVE  [Delivery!Next]_(Delivery!vars)
<1>1. CASE StationPoll \/ StationPollReplyLost
  <2>1. UNCHANGED <<round, copies, vouched>>
    BY <1>1 DEF StationPoll, StationPollReplyLost
  <2>2. \A j \in Jobs : /\ status'[j] = "absent" <=> status[j] = "absent"
                        /\ status'[j] = "completed" <=> status[j] = "completed"
    BY <1>1 DEF StationPoll, StationPollReplyLost, MarkPolled, Pollable
  <2> QED
    BY <2>1, <2>2, StutterStep
<1>2. CASE StationReload
  BY <1>2, StutterStep DEF StationReload, row
<1>3. ASSUME NEW t \in held[Station], StationPrint(t) \/ StationFail(t)
      PROVE  [Delivery!Next]_(Delivery!vars)
  <2>1. UNCHANGED <<round, vouched>> /\ status' \in {status, [status EXCEPT ![t[1]] = "failed"]}
    BY <1>3 DEF StationPrint, StationFail, row
  <2>2. CASE PutOnPaper(t)
    BY <2>1, <2>2, PutOutStep DEF Holders
  <2>3. CASE copies' = copies /\ status' = status
    BY <2>1, <2>3, StutterStep
  <2>4. CASE copies' = copies /\ status' = [status EXCEPT ![t[1]] = "failed"]
    <3>1. t[1] \in Jobs /\ status[t[1]] # "absent"
      BY DEF TypeOK, Holders, HandOuts, PresentInv
    <3> QED
      BY <2>1, <2>4, <3>1, ReopenStep
  <2> QED
    BY <1>3, <2>1, <2>2, <2>3, <2>4 DEF StationPrint, StationFail
<1> QED
  BY <1>1, <1>2, <1>3 DEF StationStep

LEMMA OperatorDelivers ==
  ASSUME TypeOK, PresentInv, OperatorStep
  PROVE  [Delivery!Next]_(Delivery!vars)
<1>1. ASSUME NEW j \in Jobs, FailJob(j)
      PROVE  Delivery!Next
  BY <1>1, ReopenStep DEF FailJob, Operator, SetStatus
<1>2. ASSUME NEW j \in Jobs, CompleteJob(j) \/ ConfirmJob(j)
      PROVE  Delivery!Next
  <2>1. status[j] # "absent" /\ UNCHANGED <<round, copies>>
    BY <1>2 DEF CompleteJob, ConfirmJob, Operator
  <2>2. status' = [status EXCEPT ![j] = "completed"] /\ vouched' = vouched \cup {j}
    BY <1>2 DEF CompleteJob, ConfirmJob, SetStatus
  <2> QED
    BY <2>1, <2>2, CloseStep
<1>3. ASSUME NEW j \in Jobs, RetryJob(j)
      PROVE  Delivery!Next
  <2>1. \A k \in Jobs : status'[k] = IF k \in {j} THEN "pending" ELSE status[k]
    BY <1>3 DEF RetryJob, SetStatus, TypeOK
  <2> QED
    BY <1>3, <2>1, RequeueAsks DEF RetryJob
<1>4. ASSUME NEW j \in Jobs, DispatchSend(j)
      PROVE  [Delivery!Next]_(Delivery!vars)
  <2>1. status[j] # "absent" /\ UNCHANGED <<status, round, copies>>
    BY <1>4 DEF DispatchSend, Operator, row
  <2>2. CASE vouched' = vouched
    BY <2>1, <2>2, StutterStep
  <2>3. CASE vouched' = vouched \cup {j}
    <3>1. Asked' = Asked /\ Asked[j] > 0 /\ Closed' = Closed
      BY <2>1 DEF TypeOK, Asked, Closed, Rounds
    <3>2. Delivery!Vouch(j)
      BY <2>1, <2>3, <3>1 DEF Asked, Closed, Delivery!Vouch
    <3> QED
      BY <3>2 DEF Delivery!Next
  <2> QED
    BY <1>4, <2>2, <2>3 DEF DispatchSend
<1>5. ASSUME NEW d \in dispatching, DispatchWrite(d)
      PROVE  Delivery!Next
  <2>1. d[1] \in Jobs /\ status[d[1]] # "absent"
    BY DEF TypeOK, PresentInv
  <2> QED
    BY <1>5, <2>1, ReopenStep DEF DispatchWrite, SetStatus
<1>6. ASSUME NEW d \in dispatching, DispatchLost(d)
      PROVE  UNCHANGED Delivery!vars
  BY <1>6, StutterStep DEF DispatchLost, row
<1>7. ASSUME NEW b \in Bridges, DeleteBridge(b)
      PROVE  Delivery!Next
  <2>1. PICK late \in SUBSET LateJobsOf(b) : Release(LiveJobsOf(b) \ late)
    BY <1>7 DEF DeleteBridge
  <2>2. LiveJobsOf(b) \ late \in SUBSET Jobs
    BY DEF LiveJobsOf
  <2>3. \A j \in LiveJobsOf(b) \ late : status[j] \notin {"absent", "completed"}
    BY DEF LiveJobsOf
  <2> QED
    BY <1>7, <2>1, <2>2, <2>3, RequeueAsks DEF DeleteBridge, Release
<1>8. ASSUME NEW b \in Bridges, RegisterBridge(b) \/ \E S \in SUBSET Areas : AssignAreas(b, S)
      PROVE  UNCHANGED Delivery!vars
  BY <1>8, StutterStep DEF RegisterBridge, AssignAreas, row
<1> QED
  BY <1>1, <1>2, <1>3, <1>4, <1>5, <1>6, <1>7, <1>8 DEF OperatorStep

\* Whatever agents, stations, operators, lost reports and restarts do, the queue keeps
\* the promise of TicketDelivery: copies only for rounds that were asked for and once
\* each, closed tickets on paper or vouched for, none asked for again while closed.
THEOREM QueueDelivers == Spec => KeepsDelivery
<1>1. Init => Delivery!Init
  BY DEF Init, Delivery!Init, Delivery!Rounds, Rounds
<1>2. TypeOK /\ CopiesInv /\ PaperInv /\ PresentInv /\ [Next]_vars
        => [Delivery!Next]_(Delivery!vars)
  <2> SUFFICES ASSUME TypeOK, CopiesInv, PaperInv, PresentInv, [Next]_vars
               PROVE  [Delivery!Next]_(Delivery!vars)
    OBVIOUS
  <2>1. ASSUME NEW j \in Jobs, CreateJob(j) \/ \E b \in Bridges : CreateTestJob(j, b)
        PROVE  Delivery!Next
    BY <2>1, CreateAsks DEF CreateJob, CreateTestJob
  <2>2. ASSUME NEW j \in Jobs, Age(j)
        PROVE  UNCHANGED Delivery!vars
    BY <2>2, StutterStep DEF Age
  <2>3. CASE UNCHANGED vars
    BY <2>3, StutterStep DEF vars, row
  <2> QED
    BY <2>1, <2>2, <2>3, ClaimDelivers, AgentDelivers, CallDelivers, StationDelivers,
       OperatorDelivers DEF Next
<1> QED
  BY <1>1, <1>2, TypeCorrect, CopiesKept, PaperKept, PresentKept, PTL
     DEF Spec, KeepsDelivery, Delivery!Spec
=============================================================================
