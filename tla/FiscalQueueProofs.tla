------------------------- MODULE FiscalQueueProofs --------------------------
(***************************************************************************)
(* Theorems about FiscalQueue for any number of jobs, bridges, agents and  *)
(* faults.                                                                 *)
(***************************************************************************)
EXTENDS FiscalQueue, FiniteSets, FiniteSetTheorems, TLAPS

-----------------------------------------------------------------------------
(* Type correctness.                                                       *)

LEMMA MishapTypes ==
  ASSUME TypeOK, NEW S, Mishap(S)
  PROVE  mishaps' \in [Jobs -> Nat] /\ faults' \in 0..MaxFaults
BY MaxFaultsAssumption DEF TypeOK, Mishap

LEMMA EnterTypes ==
  ASSUME TypeOK, NEW j \in Jobs, Enter(j)
  PROVE  TypeOK'
<1>1. ASSUME NEW p \in Payments, CloseTable(j, p)
      PROVE  TypeOK'
  <2>1. /\ payment' \in [Payments -> {"none", "pending", "emitted", "failed"}]
        /\ asked' \in [Jobs -> Payments \cup {Null}]
    BY <1>1 DEF TypeOK, CloseTable
  <2>2. \A i \in Receipts \cup {j} : i \in Jobs /\ asked'[i] # Null
    BY <1>1, NullAssumption DEF TypeOK, CloseTable, Receipts
  <2>3. enqueueing' \subseteq Receipts'
    BY <1>1, <2>2 DEF TypeOK, CloseTable, Receipts
  <2> QED
    BY <1>1, <2>1, <2>3 DEF TypeOK, CloseTable, row, settings
<1>2. CASE EnqueueReceipt(j)
  BY <1>2 DEF TypeOK, EnqueueReceipt, Receipts, settings
<1>3. CASE EnqueueLost(j)
  BY <1>3, MishapTypes DEF TypeOK, EnqueueLost, Receipts, row, settings
<1>4. CASE RequestJob(j)
  BY <1>4 DEF TypeOK, RequestJob, Receipts, settings
<1> QED
  BY <1>1, <1>2, <1>3, <1>4 DEF Enter

LEMMA MarkTypes ==
  ASSUME TypeOK, NEW a \in Agents, NEW S \in SUBSET Jobs, MarkClaimed(S, a)
  PROVE  /\ status' \in [Jobs -> {"absent", "pending", "dispatched"} \cup Settled]
         /\ bridgeId' \in [Jobs -> Bridges \cup {Null}]
         /\ claimedBy' \in [Jobs -> Agents \cup {Null}]
         /\ dispatchedAt' \in [Jobs -> {"none", "fresh", "stale"}]
BY BridgeOfAssumption DEF TypeOK, MarkClaimed

LEMMA ClaimTypes ==
  ASSUME TypeOK, NEW a \in Agents, ClaimStep(a)
  PROVE  TypeOK'
<1>c. Candidates(BridgeOf[a]) \subseteq Jobs
  BY DEF Candidates
<1>1. CASE BeginClaim(a)
  BY <1>1 DEF TypeOK, BeginClaim, Reclaim, Receipts, settings
<1>2. CASE TakeClaim(a)
  <2>1. PICK S \in SUBSET Candidates(BridgeOf[a]) :
           MarkClaimed(S, a) /\ held' = [held EXCEPT ![a] = S]
    BY <1>2 DEF TakeClaim
  <2> QED
    BY <1>2, <1>c, <2>1, MarkTypes DEF TypeOK, TakeClaim, Receipts, settings
<1>3. CASE ClaimReplyLost(a)
  <2>1. PICK S \in SUBSET Candidates(BridgeOf[a]) : MarkClaimed(S, a) /\ Mishap(S)
    BY <1>3 DEF ClaimReplyLost
  <2> QED
    BY <1>3, <1>c, <2>1, MarkTypes, MishapTypes DEF TypeOK, ClaimReplyLost, Receipts, settings
<1>4. CASE EmptyClaim(a)
  BY <1>4 DEF TypeOK, EmptyClaim, Receipts, row, settings
<1> QED
  BY <1>1, <1>2, <1>3, <1>4 DEF ClaimStep

LEMMA AgeTypes ==
  ASSUME TypeOK, NEW j \in Jobs, Age(j)
  PROVE  TypeOK'
<1>1. mishaps' \in [Jobs -> Nat] /\ faults' \in 0..MaxFaults
  BY MishapTypes DEF Age, NoMishap, TypeOK
<1> QED
  BY <1>1 DEF TypeOK, Age, Receipts, settings

\* What the three outcomes of a job in hand have in common.
Work(a, j, op) ==
  /\ TakesUp(a, j)
  /\ op = "complete" => Emitted(j)
  /\ Emitted(j) \/ UNCHANGED receipts
  /\ Report(a, j, op)
  /\ UNCHANGED <<row, payment, asked, enqueueing, settings, knows, claiming, mishaps, faults>>

LEMMA WorkOnIsWork ==
  ASSUME NEW a, NEW j, WorkOn(a, j)
  PROVE  \E op \in {"complete", "fail"} : Work(a, j, op)
BY DEF WorkOn, Work, Emit, EmitErrs, Refuse

LEMMA EmittedCounts ==
  ASSUME TypeOK, NEW j \in Jobs, Emitted(j)
  PROVE  /\ receipts' \in [Jobs -> Nat]
         /\ receipts'[j] > 0 /\ receipts'[j] <= receipts[j] + 1
         /\ \A i \in Jobs \ {j} : receipts'[i] = receipts[i]
<1>1. receipts[j] \in Nat /\ Counted(j) \in Nat \ {0}
  BY MaxFaultsAssumption DEF TypeOK, Counted
<1>2. CASE receipts[j] < Counted(j)
  <2>1. receipts' = [receipts EXCEPT ![j] = receipts[j] + 1]
    BY <1>2 DEF Emitted
  <2> QED
    BY <1>1, <2>1 DEF TypeOK
<1>3. CASE ~(receipts[j] < Counted(j))
  <2>1. receipts' = receipts
    BY <1>3 DEF Emitted, TypeOK
  <2>2. receipts[j] > 0
    BY <1>1, <1>3
  <2> QED
    BY <1>1, <2>1, <2>2 DEF TypeOK
<1> QED
  BY <1>2, <1>3

LEMMA WorkTypes ==
  ASSUME TypeOK, NEW a \in Agents, NEW j \in Jobs, NEW op \in {"complete", "fail"}, Work(a, j, op)
  PROVE  TypeOK'
<1>1. receipts' \in [Jobs -> Nat]
  BY EmittedCounts DEF Work, TypeOK
<1>2. calls' \subseteq Calls
  <2>1. [op |-> op, job |-> j, by |-> a, at |-> "select", late |-> FALSE] \in Calls
    BY DEF Calls
  <2> QED
    BY <2>1 DEF Work, Report, TypeOK
<1>3. held' \in [Agents -> SUBSET Jobs]
  BY DEF Work, TakesUp, TypeOK
<1> QED
  BY <1>1, <1>2, <1>3 DEF TypeOK, Work, Receipts, row, settings

LEMMA CrashTypes ==
  ASSUME TypeOK, NEW a \in Agents, AgentCrash(a)
  PROVE  TypeOK'
<1>1. AbandonedBy(a) \subseteq Calls
  <2>1. ASSUME NEW c \in calls
        PROVE  [c EXCEPT !.late = c.late \/ c.by = a] \in Calls
    <3>1. c \in Calls /\ (c.late \/ c.by = a) \in BOOLEAN
      BY DEF TypeOK
    <3> QED
      BY <3>1 DEF Calls
  <2> QED
    BY <2>1 DEF AbandonedBy
<1> QED
  BY <1>1, MishapTypes DEF TypeOK, AgentCrash, Receipts, row, settings

LEMMA HeartbeatTypes ==
  ASSUME TypeOK, NEW a \in Agents, Heartbeat(a)
  PROVE  TypeOK'
<1>1. [enabled |-> enabled, cashier |-> BridgeOf[a] \in cashier]
         \in [enabled: BOOLEAN, cashier: BOOLEAN]
  BY DEF TypeOK
<1>2. knows' \in [Agents -> [enabled: BOOLEAN, cashier: BOOLEAN]]
  BY <1>1 DEF Heartbeat, TypeOK
<1> QED
  BY <1>2 DEF TypeOK, Heartbeat, Receipts, row, settings

LEMMA AdvanceTypes ==
  ASSUME TypeOK, NEW c \in calls, NEW at \in {"select", "job", "payment"}, Advance(c, at)
  PROVE  calls' \subseteq Calls
<1>1. [c EXCEPT !.at = at] \in Calls
  BY DEF Calls, TypeOK
<1> QED
  BY <1>1 DEF Advance, TypeOK

LEMMA CallTypes ==
  ASSUME TypeOK, NEW c \in calls, HandleCall(c) \/ LoseCall(c) \/ Timeout(c)
  PROVE  TypeOK'
<1>c. c \in Calls /\ c.job \in Jobs /\ c.op \in {"complete", "fail"}
  BY DEF TypeOK, Calls
<1>1. CASE CheckCall(c)
  <2>1. calls' \subseteq Calls
    BY <1>1, AdvanceTypes DEF CheckCall, Answer, TypeOK
  <2> QED
    BY <1>1, <2>1 DEF TypeOK, CheckCall, Receipts, row, settings
<1>2. CASE ApplyJob(c)
  <2>1. calls' \subseteq Calls
    BY <1>2, AdvanceTypes DEF ApplyJob, Answer, TypeOK
  <2> QED
    BY <1>2, <2>1, <1>c DEF TypeOK, ApplyJob, Settled, Receipts, settings
<1>3. CASE ApplyPayment(c)
  BY <1>3, <1>c DEF TypeOK, ApplyPayment, Answer, FiscalStatus, Receipts, row, settings
<1>4. CASE LoseCall(c)
  BY <1>4, MishapTypes DEF TypeOK, LoseCall, Answer, Receipts, row, settings
<1>5. CASE Timeout(c)
  <2>1. [c EXCEPT !.late = TRUE] \in Calls
    BY <1>c DEF Calls
  <2> QED
    BY <1>5, <2>1, MishapTypes DEF TypeOK, Timeout, Receipts, row, settings
<1> QED
  BY <1>1, <1>2, <1>3, <1>4, <1>5 DEF HandleCall

LEMMA SettingsTypes ==
  ASSUME TypeOK, Settings
  PROVE  TypeOK'
<1>1. CASE SwitchPrinter
  BY <1>1 DEF TypeOK, SwitchPrinter, Receipts, row
<1>2. ASSUME NEW b \in Bridges, AssignCashier(b)
      PROVE  TypeOK'
  BY <1>2 DEF TypeOK, AssignCashier, Receipts, row
<1>3. ASSUME NEW b \in Bridges, DeleteBridge(b)
      PROVE  TypeOK'
  <2>1. mishaps' \in [Jobs -> Nat] /\ faults' \in 0..MaxFaults
    BY <1>3, MishapTypes DEF DeleteBridge, NoMishap, TypeOK
  <2> QED
    BY <1>3, <2>1 DEF TypeOK, DeleteBridge, Receipts
<1>4. ASSUME NEW b \in Bridges, RegisterBridge(b)
      PROVE  TypeOK'
  BY <1>4 DEF TypeOK, RegisterBridge, Receipts, row
<1> QED
  BY <1>1, <1>2, <1>3, <1>4 DEF Settings

LEMMA QuietTypes ==
  ASSUME TypeOK, UNCHANGED vars
  PROVE  TypeOK'
BY DEF TypeOK, Receipts, vars, row, settings

\* Every reachable state of the fiscal queue is well typed.
THEOREM TypeCorrect == Spec => []TypeOK
<1>1. Init => TypeOK
  BY MaxFaultsAssumption DEF Init, TypeOK, Receipts
<1>2. TypeOK /\ [Next]_vars => TypeOK'
  BY EnterTypes, ClaimTypes, AgeTypes, WorkOnIsWork, WorkTypes, CrashTypes, HeartbeatTypes,
     CallTypes, SettingsTypes, QuietTypes DEF Next
<1> QED
  BY <1>1, <1>2, PTL DEF Spec

-----------------------------------------------------------------------------
(* The life of a job: who may be its owner when, and that it settles once. *)

JobLife(j) ==
  /\ status[j] \in {"absent", "pending"} => claimedBy[j] = Null /\ bridgeId[j] = Null
  /\ claimedBy[j] = Null <=> dispatchedAt[j] = "none"
  /\ bridgeId[j] # Null => claimedBy[j] # Null /\ BridgeOf[claimedBy[j]] = bridgeId[j]
  /\ j \in enqueueing => status[j] = "absent"

LifeInv ==
  /\ TypeOK
  /\ \A j \in Jobs : JobLife(j)
  /\ \A c \in calls : /\ status[c.job] # "absent"
                      /\ c.at = "payment" => c.job \in Receipts /\ status[c.job] \in Settled
  /\ \A a \in Agents : \A j \in held[a] : status[j] # "absent"
  /\ \A a \in claiming : held[a] = {}

\* No step takes an outcome back, makes a row disappear or changes what it is for.
Onward ==
  \A j \in Jobs : /\ status[j] \in Settled => status'[j] \in Settled
                  /\ status[j] # "absent" => status'[j] # "absent"
                  /\ asked[j] # Null => asked'[j] = asked[j]

LEMMA LifeKept ==
  ASSUME LifeInv, TypeOK', Onward,
         \A j \in Jobs : JobLife(j)',
         \A c \in calls' : \E d \in calls : c.job = d.job /\ (c.at = "payment" => d.at = "payment"),
         \A a \in Agents : held'[a] \subseteq held[a],
         claiming' \subseteq claiming
  PROVE  LifeInv'
<1>1. ASSUME NEW c \in calls'
      PROVE  /\ status'[c.job] # "absent"
             /\ c.at = "payment" => c.job \in Receipts' /\ status'[c.job] \in Settled
  <2>1. PICK d \in calls : c.job = d.job /\ (c.at = "payment" => d.at = "payment")
    BY <1>1
  <2>2. d.job \in Jobs
    BY DEF LifeInv, TypeOK, Calls
  <2> QED
    BY <2>1, <2>2 DEF LifeInv, Onward, Receipts
<1>2. ASSUME NEW a \in Agents, NEW j \in held'[a]
      PROVE  status'[j] # "absent"
  BY <1>2 DEF LifeInv, Onward, TypeOK
<1>3. \A a \in claiming' : held'[a] = {}
  BY DEF LifeInv, TypeOK
<1> QED
  BY <1>1, <1>2, <1>3 DEF LifeInv

LEMMA EnterLife ==
  ASSUME LifeInv, NEW j \in Jobs, Enter(j)
  PROVE  LifeInv' /\ Onward
<1>t. TypeOK'
  BY EnterTypes DEF LifeInv
<1>s. UNCHANGED <<calls, held, claiming>>
  BY DEF Enter, CloseTable, EnqueueReceipt, EnqueueLost, RequestJob
<1>1. (\A i \in Jobs : JobLife(i)') /\ Onward
  <2>1. ASSUME NEW p \in Payments, CloseTable(j, p)
        PROVE  (\A i \in Jobs : JobLife(i)') /\ Onward
    BY <2>1 DEF LifeInv, TypeOK, JobLife, Onward, CloseTable, row, settings
  <2>2. CASE EnqueueReceipt(j)
    <3>1. status[j] = "absent"
      BY <2>2 DEF LifeInv, TypeOK, JobLife, EnqueueReceipt
    <3>2. status'[j] \in {"absent", "pending"}
      BY <2>2 DEF LifeInv, TypeOK, EnqueueReceipt
    <3>3. \A i \in Jobs \ {j} : status'[i] = status[i] /\ (i \in enqueueing' <=> i \in enqueueing)
      BY <2>2 DEF LifeInv, TypeOK, EnqueueReceipt
    <3>4. UNCHANGED <<bridgeId, claimedBy, dispatchedAt, asked>> /\ j \notin enqueueing'
      BY <2>2 DEF EnqueueReceipt
    <3>5. JobLife(j)'
      BY <3>1, <3>2, <3>4 DEF LifeInv, JobLife
    <3>6. \A i \in Jobs \ {j} : JobLife(i)'
      BY <3>3, <3>4 DEF LifeInv, JobLife
    <3> QED
      BY <3>1, <3>3, <3>4, <3>5, <3>6 DEF Onward, Settled
  <2>3. CASE EnqueueLost(j)
    BY <2>3 DEF LifeInv, TypeOK, JobLife, Onward, EnqueueLost, row, settings
  <2>4. CASE RequestJob(j)
    <3>1. j \notin enqueueing /\ status[j] = "absent"
      BY <2>4 DEF LifeInv, TypeOK, Receipts, RequestJob
    <3>2. status' = [status EXCEPT ![j] = "pending"]
      BY <2>4 DEF RequestJob
    <3>3. UNCHANGED <<bridgeId, claimedBy, dispatchedAt, asked, enqueueing>>
      BY <2>4 DEF RequestJob
    <3>4. \A i \in Jobs : status'[i] = IF i = j THEN "pending" ELSE status[i]
      BY <3>2 DEF LifeInv, TypeOK
    <3>5. \A i \in Jobs : JobLife(i)'
      BY <3>1, <3>3, <3>4 DEF LifeInv, JobLife
    <3> QED
      BY <3>1, <3>3, <3>4, <3>5 DEF Onward, Settled
  <2> QED
    BY <2>1, <2>2, <2>3, <2>4 DEF Enter
<1> QED
  BY <1>t, <1>s, <1>1, LifeKept

LEMMA MarkLife ==
  ASSUME LifeInv, NEW a \in Agents, NEW S \in SUBSET Candidates(BridgeOf[a]),
         MarkClaimed(S, a), UNCHANGED <<asked, enqueueing>>
  PROVE  (\A j \in Jobs : JobLife(j)') /\ Onward
<1>1. BridgeOf[a] \in Bridges /\ a # Null /\ BridgeOf[a] # Null
  BY BridgeOfAssumption, NullAssumption
<1>2. \A j \in S : j \in Jobs /\ status[j] = "pending"
  BY DEF Candidates
<1>3. ASSUME NEW j \in S
      PROVE  JobLife(j)' /\ status[j] \notin Settled /\ status'[j] # "absent"
  <2>1. /\ status'[j] = "dispatched" /\ claimedBy'[j] = a /\ dispatchedAt'[j] = "fresh"
        /\ bridgeId'[j] = BridgeOf[a]
    BY <1>2, <1>3 DEF MarkClaimed
  <2>2. j \notin enqueueing
    BY <1>2, <1>3 DEF LifeInv, JobLife
  <2> QED
    BY <1>1, <1>2, <1>3, <2>1, <2>2 DEF JobLife, Settled
<1>4. ASSUME NEW j \in Jobs \ S
      PROVE  JobLife(j)' /\ status'[j] = status[j]
  BY <1>4 DEF LifeInv, JobLife, MarkClaimed
<1> QED
  BY <1>3, <1>4 DEF Onward

LEMMA ClaimLife ==
  ASSUME LifeInv, NEW a \in Agents, ClaimStep(a)
  PROVE  LifeInv' /\ Onward
<1>t. TypeOK'
  BY ClaimTypes DEF LifeInv
<1>c. \A c \in calls : c.job \in Jobs
  BY DEF LifeInv, TypeOK, Calls
<1>1. CASE BeginClaim(a)
  <2>1. (\A j \in Jobs : JobLife(j)') /\ Onward
    BY <1>1 DEF LifeInv, TypeOK, JobLife, BeginClaim, Reclaim, StaleJobs, settings, Settled, Onward
  <2>2. \A b \in claiming' : held'[b] = {}
    BY <1>1 DEF LifeInv, BeginClaim, Idle
  <2>3. \A b \in Agents : \A j \in held[b] : status'[j] # "absent"
    BY <2>1 DEF LifeInv, TypeOK, Onward
  <2>4. UNCHANGED <<calls, held>>
    BY <1>1 DEF BeginClaim
  <2> QED
    BY <1>t, <1>c, <2>1, <2>2, <2>3, <2>4 DEF LifeInv, Onward, Receipts
<1>2. CASE TakeClaim(a)
  <2>1. PICK S \in SUBSET Candidates(BridgeOf[a]) :
           MarkClaimed(S, a) /\ held' = [held EXCEPT ![a] = S]
    BY <1>2 DEF TakeClaim
  <2>2. (\A j \in Jobs : JobLife(j)') /\ Onward
    BY <1>2, <2>1, MarkLife DEF TakeClaim
  <2>3. \A b \in claiming' : held'[b] = {}
    BY <1>2, <2>1 DEF LifeInv, TypeOK, TakeClaim
  <2>4. ASSUME NEW b \in Agents, NEW j \in held'[b]
        PROVE  status'[j] # "absent"
    <3>1. j \in Jobs /\ status[j] # "absent"
      BY <2>1, <2>4 DEF LifeInv, TypeOK, Candidates
    <3> QED
      BY <2>2, <3>1 DEF Onward
  <2> QED
    BY <1>2, <1>t, <1>c, <2>2, <2>3, <2>4 DEF LifeInv, Onward, TakeClaim, Receipts
<1>3. CASE ClaimReplyLost(a)
  <2>1. PICK S \in SUBSET Candidates(BridgeOf[a]) : MarkClaimed(S, a)
    BY <1>3 DEF ClaimReplyLost
  <2>2. (\A j \in Jobs : JobLife(j)') /\ Onward
    BY <1>3, <2>1, MarkLife DEF ClaimReplyLost
  <2> QED
    BY <1>3, <1>t, <2>2, LifeKept DEF ClaimReplyLost
<1>4. CASE EmptyClaim(a)
  <2>1. (\A j \in Jobs : JobLife(j)') /\ Onward
    BY <1>4 DEF LifeInv, JobLife, Onward, EmptyClaim, row
  <2> QED
    BY <1>4, <1>t, <2>1, LifeKept DEF EmptyClaim
<1> QED
  BY <1>1, <1>2, <1>3, <1>4 DEF ClaimStep

LEMMA AgeLife ==
  ASSUME LifeInv, NEW j \in Jobs, Age(j)
  PROVE  LifeInv' /\ Onward
<1>t. TypeOK'
  BY AgeTypes DEF LifeInv
<1>1. (\A i \in Jobs : JobLife(i)') /\ Onward
  BY DEF LifeInv, TypeOK, JobLife, Age, Onward
<1> QED
  BY <1>t, <1>1, LifeKept DEF Age

LEMMA WorkLife ==
  ASSUME LifeInv, NEW a \in Agents, NEW j \in Jobs, NEW op \in {"complete", "fail"}, Work(a, j, op)
  PROVE  LifeInv' /\ Onward
<1>t. TypeOK'
  BY WorkTypes DEF LifeInv
<1>1. ASSUME NEW c \in calls'
      PROVE  c \in calls \/ (c.at = "select" /\ status[c.job] # "absent")
  BY <1>1 DEF Work, Report, LifeInv, TakesUp
<1>2. \A b \in Agents : held'[b] \subseteq held[b]
  BY DEF LifeInv, TypeOK, Work, TakesUp
<1>3. UNCHANGED <<status, bridgeId, claimedBy, dispatchedAt, asked, enqueueing, claiming>>
  BY DEF Work, row
<1>4. \A b \in claiming : held'[b] = {}
  BY <1>2 DEF LifeInv, TypeOK
<1> QED
  BY <1>t, <1>1, <1>2, <1>3, <1>4 DEF LifeInv, JobLife, Onward, Receipts

LEMMA CrashLife ==
  ASSUME LifeInv, NEW a \in Agents, AgentCrash(a)
  PROVE  LifeInv' /\ Onward
<1>t. TypeOK'
  BY CrashTypes DEF LifeInv
<1>1. ASSUME NEW c \in calls'
      PROVE  \E d \in calls : c.at = d.at /\ c.job = d.job
  <2>1. PICK d \in calls : c = [d EXCEPT !.late = d.late \/ d.by = a]
    BY <1>1 DEF AgentCrash, AbandonedBy
  <2>2. d \in Calls
    BY DEF LifeInv, TypeOK
  <2>3. c.at = d.at /\ c.job = d.job
    BY <2>1, <2>2 DEF Calls
  <2> QED
    BY <2>3
<1>2. \A b \in Agents : held'[b] \subseteq held[b]
  BY DEF LifeInv, TypeOK, AgentCrash
<1>3. (\A j \in Jobs : JobLife(j)') /\ Onward
  BY DEF LifeInv, JobLife, Onward, AgentCrash, row
<1> QED
  BY <1>t, <1>1, <1>2, <1>3, LifeKept DEF AgentCrash

LEMMA CallLife ==
  ASSUME LifeInv, NEW c \in calls, HandleCall(c) \/ LoseCall(c) \/ Timeout(c)
  PROVE  LifeInv' /\ Onward
<1>t. TypeOK'
  BY CallTypes DEF LifeInv
<1>c. \A d \in calls : d \in Calls /\ d.job \in Jobs
  BY DEF LifeInv, TypeOK, Calls
<1>s. UNCHANGED <<held, claiming>>
  BY DEF HandleCall, CheckCall, ApplyJob, ApplyPayment, LoseCall, Timeout
<1>1. CASE CheckCall(c)
  <2>1. ASSUME NEW d \in calls'
        PROVE  \E e \in calls : d.job = e.job /\ (d.at = "payment" => e.at = "payment")
    BY <1>1, <1>c, <2>1 DEF CheckCall, Advance, Answer, Calls
  <2>2. (\A j \in Jobs : JobLife(j)') /\ Onward
    BY <1>1 DEF LifeInv, JobLife, Onward, CheckCall, row
  <2> QED
    BY <1>t, <1>s, <2>1, <2>2, LifeKept
<1>2. CASE ApplyJob(c)
  <2>1. /\ status'[c.job] \in Settled
        /\ \A j \in Jobs \ {c.job} : status'[j] = status[j]
    BY <1>2, <1>c DEF LifeInv, TypeOK, ApplyJob, Settled
  <2>2. c.job \notin enqueueing
    BY <1>c DEF LifeInv, JobLife
  <2>3. (\A j \in Jobs : JobLife(j)') /\ Onward
    BY <1>2, <1>c, <2>1, <2>2 DEF LifeInv, TypeOK, JobLife, Onward, Settled, ApplyJob
  <2>4. ASSUME NEW d \in calls'
        PROVE  \/ d.job = c.job /\ (d.at = "payment" => d.job \in Receipts)
               \/ d \in calls
    BY <1>2, <1>c, <2>4 DEF ApplyJob, Advance, Answer, Calls
  <2>5. ASSUME NEW d \in calls'
        PROVE  /\ status'[d.job] # "absent"
               /\ d.at = "payment" => d.job \in Receipts' /\ status'[d.job] \in Settled
    BY <2>1, <2>4, <2>5, <2>3, <1>c DEF LifeInv, Onward, Settled, Receipts
  <2>6. \A a \in Agents : \A j \in held[a] : status'[j] # "absent"
    BY <2>3 DEF LifeInv, Onward, TypeOK
  <2> QED
    BY <1>t, <1>s, <2>3, <2>5, <2>6 DEF LifeInv
<1>3. CASE ApplyPayment(c)
  <2>1. (\A j \in Jobs : JobLife(j)') /\ Onward
    BY <1>3 DEF LifeInv, JobLife, ApplyPayment, row, Onward
  <2>2. calls' \subseteq calls
    BY <1>3 DEF ApplyPayment, Answer
  <2> QED
    BY <1>t, <1>s, <2>1, <2>2, LifeKept
<1>4. CASE LoseCall(c)
  <2>1. (\A j \in Jobs : JobLife(j)') /\ Onward
    BY <1>4 DEF LifeInv, JobLife, Onward, LoseCall, row
  <2>2. calls' \subseteq calls
    BY <1>4 DEF LoseCall, Answer
  <2> QED
    BY <1>t, <1>s, <2>1, <2>2, LifeKept
<1>5. CASE Timeout(c)
  <2>1. \A d \in calls' : \E e \in calls : d.at = e.at /\ d.job = e.job
    BY <1>5, <1>c DEF Timeout, Calls
  <2>2. (\A j \in Jobs : JobLife(j)') /\ Onward
    BY <1>5 DEF LifeInv, JobLife, Onward, Timeout, row
  <2> QED
    BY <1>t, <1>s, <2>1, <2>2, LifeKept
<1> QED
  BY <1>1, <1>2, <1>3, <1>4, <1>5 DEF HandleCall

LEMMA HeartbeatLife ==
  ASSUME LifeInv, NEW a \in Agents, Heartbeat(a)
  PROVE  LifeInv' /\ Onward
<1>t. TypeOK'
  BY HeartbeatTypes DEF LifeInv
<1>1. (\A j \in Jobs : JobLife(j)') /\ Onward
  BY DEF LifeInv, JobLife, Onward, Heartbeat, row
<1> QED
  BY <1>t, <1>1, LifeKept DEF Heartbeat

LEMMA SettingsLife ==
  ASSUME LifeInv, Settings
  PROVE  LifeInv' /\ Onward
<1>t. TypeOK'
  BY SettingsTypes DEF LifeInv
<1>s. UNCHANGED <<calls, held, claiming, status, asked>>
  BY DEF Settings, SwitchPrinter, AssignCashier, DeleteBridge, RegisterBridge, row
<1>1. \A j \in Jobs : JobLife(j)'
  <2>1. UNCHANGED <<claimedBy, dispatchedAt, enqueueing>>
    BY DEF Settings, SwitchPrinter, AssignCashier, DeleteBridge, RegisterBridge, row
  <2>2. \A j \in Jobs : bridgeId'[j] \in {bridgeId[j], Null}
    BY DEF Settings, SwitchPrinter, AssignCashier, DeleteBridge, RegisterBridge, row
  <2> QED
    BY <1>s, <2>1, <2>2 DEF LifeInv, JobLife
<1> QED
  BY <1>t, <1>s, <1>1, LifeKept DEF Onward

LEMMA LifeStep ==
  ASSUME LifeInv, [Next]_vars
  PROVE  LifeInv' /\ Onward
<1>1. CASE Next
  BY <1>1, EnterLife, AgeLife, ClaimLife, CrashLife, HeartbeatLife, WorkOnIsWork, WorkLife,
     CallLife, SettingsLife DEF Next
<1>2. CASE UNCHANGED vars
  <2>1. UNCHANGED <<status, bridgeId, claimedBy, dispatchedAt, asked, enqueueing, calls,
                    held, claiming>>
    BY <1>2 DEF vars, row
  <2>2. TypeOK'
    BY <1>2, QuietTypes DEF LifeInv
  <2>3. (\A j \in Jobs : JobLife(j)') /\ Onward
    BY <2>1 DEF LifeInv, JobLife, Onward
  <2> QED
    BY <2>1, <2>2, <2>3, LifeKept
<1> QED
  BY <1>1, <1>2

LEMMA LifeHolds == Spec => []LifeInv
<1>1. Init => LifeInv
  BY MaxFaultsAssumption DEF Init, LifeInv, TypeOK, JobLife, Receipts
<1>2. LifeInv /\ [Next]_vars => LifeInv'
  BY LifeStep
<1> QED
  BY <1>1, <1>2, PTL DEF Spec

\* Pending jobs are free for any cashier bridge, owners hold their jobs through
\* their own bridge.
THEOREM OwnersAreReleased == Spec => []OwnersReleased
<1>1. LifeInv => OwnersReleased
  BY DEF LifeInv, JobLife, OwnersReleased
<1> QED
  BY <1>1, LifeHolds, PTL

\* An outcome is only ever replaced by an outcome.
THEOREM OutcomesStay == Spec => SettledForGood
<1>1. LifeInv /\ [Next]_vars => [\A j \in Jobs : status[j] \in Settled => status'[j] \in Settled]_vars
  BY LifeStep DEF Onward
<1> QED
  BY <1>1, LifeHolds, PTL DEF Spec, SettledForGood

-----------------------------------------------------------------------------
(* A completed job or an emitted payment has a receipt behind it.          *)

RealInv ==
  /\ EmittedIsReal
  /\ \A c \in calls : c.op = "complete" => receipts[c.job] > 0

LEMMA RealKept ==
  ASSUME TypeOK, RealInv,
         \A j \in Jobs : receipts[j] > 0 => receipts'[j] > 0,
         \A j \in Jobs : status'[j] = "completed" => status[j] = "completed",
         \A p \in Payments : payment'[p] = "emitted" => payment[p] = "emitted",
         \A j \in Jobs : asked[j] # Null => asked'[j] = asked[j],
         \A c \in calls' : c.op = "complete" =>
            \E d \in calls : d.op = "complete" /\ d.job = c.job
  PROVE  RealInv'
<1>1. \A d \in calls : d.job \in Jobs
  BY DEF TypeOK, Calls
<1>2. \A j \in Jobs : status'[j] = "completed" => receipts'[j] > 0
  BY DEF RealInv, EmittedIsReal
<1>3. ASSUME NEW p \in Payments, payment'[p] = "emitted"
      PROVE  \E j \in ReceiptsFor(p)' : receipts'[j] > 0
  <2>1. PICK j \in ReceiptsFor(p) : receipts[j] > 0
    BY <1>3 DEF RealInv, EmittedIsReal
  <2>2. j \in ReceiptsFor(p)'
    BY <2>1, NullAssumption DEF ReceiptsFor
  <2> QED
    BY <2>1, <2>2 DEF ReceiptsFor
<1> QED
  BY <1>1, <1>2, <1>3 DEF RealInv, EmittedIsReal

LEMMA EnterReal ==
  ASSUME TypeOK, RealInv, NEW j \in Jobs, Enter(j)
  PROVE  RealInv'
<1>1. UNCHANGED <<receipts, calls>>
  BY DEF Enter, CloseTable, EnqueueReceipt, EnqueueLost, RequestJob
<1>2. \A i \in Jobs : status'[i] = "completed" => status[i] = "completed"
  BY DEF TypeOK, Enter, CloseTable, EnqueueReceipt, EnqueueLost, RequestJob, row
<1>3. \A p \in Payments : payment'[p] = "emitted" => payment[p] = "emitted"
  BY DEF TypeOK, Enter, CloseTable, EnqueueReceipt, EnqueueLost, RequestJob
<1>4. \A i \in Jobs : asked[i] # Null => asked'[i] = asked[i]
  BY DEF TypeOK, Enter, CloseTable, EnqueueReceipt, EnqueueLost, RequestJob
<1> QED
  BY <1>1, <1>2, <1>3, <1>4, RealKept

LEMMA ClaimReal ==
  ASSUME TypeOK, RealInv, NEW a \in Agents, ClaimStep(a)
  PROVE  RealInv'
<1>1. UNCHANGED <<receipts, calls, payment, asked>>
  BY DEF ClaimStep, BeginClaim, TakeClaim, ClaimReplyLost, EmptyClaim
<1>2. \A i \in Jobs : status'[i] = "completed" => status[i] = "completed"
  BY DEF TypeOK, ClaimStep, BeginClaim, Reclaim, TakeClaim, ClaimReplyLost, MarkClaimed,
         EmptyClaim, row
<1> QED
  BY <1>1, <1>2, RealKept

LEMMA WorkReal ==
  ASSUME TypeOK, RealInv, NEW a \in Agents, NEW j \in Jobs, NEW op \in {"complete", "fail"},
         Work(a, j, op)
  PROVE  RealInv'
<1>1. \A i \in Jobs : receipts[i] > 0 => receipts'[i] > 0
  BY EmittedCounts DEF Work
<1>2. op = "complete" => receipts'[j] > 0
  BY EmittedCounts DEF Work
<1>3. UNCHANGED <<status, payment, asked>>
  BY DEF Work, row
<1>4. \A c \in calls' : c \in calls \/ (c.op = op /\ c.job = j)
  BY DEF Work, Report
<1>5. \A d \in calls : d.job \in Jobs
  BY DEF TypeOK, Calls
<1> QED
  BY <1>1, <1>2, <1>3, <1>4, <1>5 DEF RealInv, EmittedIsReal, ReceiptsFor

LEMMA CallReal ==
  ASSUME LifeInv, RealInv, NEW c \in calls, HandleCall(c) \/ LoseCall(c) \/ Timeout(c)
  PROVE  RealInv'
<1>t. TypeOK
  BY DEF LifeInv
<1>c. \A d \in calls : d \in Calls /\ d.job \in Jobs
  BY <1>t DEF TypeOK, Calls
<1>r. UNCHANGED <<receipts, asked>>
  BY DEF HandleCall, CheckCall, ApplyJob, ApplyPayment, LoseCall, Timeout
<1>d. ASSUME NEW d \in calls'
      PROVE  \E e \in calls : e.op = d.op /\ e.job = d.job
  BY <1>c, <1>d DEF HandleCall, CheckCall, ApplyJob, ApplyPayment, LoseCall, Timeout,
                    Advance, Answer, Calls
<1>s. \A j \in Jobs : status'[j] = "completed" => status[j] = "completed" \/ receipts[j] > 0
  <2>1. CASE ApplyJob(c)
    BY <2>1, <1>c, <1>t DEF ApplyJob, RealInv, TypeOK
  <2>2. CASE ~ApplyJob(c)
    BY <2>2 DEF HandleCall, CheckCall, ApplyPayment, LoseCall, Timeout, row
  <2> QED
    BY <2>1, <2>2
<1>p. \A p \in Payments : payment'[p] = "emitted" =>
         payment[p] = "emitted" \/ \E j \in ReceiptsFor(p) : receipts[j] > 0
  <2>1. ASSUME ApplyPayment(c), NEW p \in Payments, payment'[p] = "emitted"
        PROVE  payment[p] = "emitted" \/ \E j \in ReceiptsFor(p) : receipts[j] > 0
    <3>1. p # asked[c.job] => payment'[p] = payment[p]
      BY <2>1, <1>t DEF ApplyPayment, TypeOK
    <3>2. CASE p = asked[c.job]
      <4>1. FiscalStatus(c.op) = "emitted"
        BY <2>1, <3>2, <1>t DEF ApplyPayment, TypeOK
      <4>2. receipts[c.job] > 0
        BY <4>1, <1>c DEF FiscalStatus, RealInv, Calls
      <4> QED
        BY <3>2, <4>2, <1>c DEF ReceiptsFor
    <3> QED
      BY <2>1, <3>1, <3>2
  <2>2. CASE ~ApplyPayment(c)
    BY <2>2 DEF HandleCall, CheckCall, ApplyJob, LoseCall, Timeout
  <2> QED
    BY <2>1, <2>2
<1> QED
  BY <1>c, <1>r, <1>d, <1>s, <1>p DEF RealInv, EmittedIsReal, ReceiptsFor

LEMMA OtherReal ==
  ASSUME TypeOK, RealInv,
         \/ \E j \in Jobs : Age(j)
         \/ \E a \in Agents : AgentCrash(a) \/ Heartbeat(a)
         \/ Settings
         \/ UNCHANGED vars
  PROVE  RealInv'
<1>1. UNCHANGED <<receipts, status, payment, asked>>
  BY DEF Age, AgentCrash, Heartbeat, Settings, SwitchPrinter, AssignCashier, DeleteBridge,
         RegisterBridge, vars, row
<1>2. ASSUME NEW c \in calls'
      PROVE  \E d \in calls : d.op = c.op /\ d.job = c.job
  <2>1. CASE \E a \in Agents : AgentCrash(a)
    <3>1. PICK a \in Agents : AgentCrash(a)
      BY <2>1
    <3>2. PICK d \in calls : c = [d EXCEPT !.late = d.late \/ d.by = a]
      BY <1>2, <3>1 DEF AgentCrash, AbandonedBy
    <3>3. c.op = d.op /\ c.job = d.job
      BY <3>2 DEF Calls, TypeOK
    <3> QED
      BY <3>3
  <2>2. CASE ~(\E a \in Agents : AgentCrash(a))
    <3>1. UNCHANGED calls
      BY <2>2 DEF Age, Heartbeat, Settings, SwitchPrinter, AssignCashier, DeleteBridge,
                  RegisterBridge, vars
    <3> QED
      BY <1>2, <3>1
  <2> QED
    BY <2>1, <2>2
<1> QED
  BY <1>1, <1>2, RealKept

LEMMA RealHolds == Spec => []RealInv
<1>1. Init => RealInv
  BY DEF Init, RealInv, EmittedIsReal
<1>2. LifeInv /\ RealInv /\ [Next]_vars => RealInv'
  BY EnterReal, ClaimReal, WorkOnIsWork, WorkReal, CallReal, OtherReal DEF Next, LifeInv
<1> QED
  BY <1>1, <1>2, LifeHolds, PTL DEF Spec

\* Nothing is completed or shown as emitted that the device has not printed.
THEOREM NothingMadeUp == Spec => []EmittedIsReal
<1>1. RealInv => EmittedIsReal
  BY DEF RealInv
<1> QED
  BY <1>1, RealHolds, PTL

-----------------------------------------------------------------------------
(* A job that nothing was asked of has no history.                         *)

Fresh(j) == status[j] = "absent" /\ asked[j] = Null => receipts[j] = 0 /\ mishaps[j] = 0

FreshInv == \A j \in Jobs : Fresh(j)

LEMMA FreshKept ==
  ASSUME FreshInv, Onward,
         \A j \in Jobs : \/ receipts'[j] = receipts[j] /\ mishaps'[j] = mishaps[j]
                         \/ status[j] # "absent" \/ asked[j] # Null
  PROVE  FreshInv'
BY DEF FreshInv, Fresh, Onward

LEMMA MishapFresh ==
  ASSUME FreshInv, Onward, NEW S \in SUBSET Jobs, Mishap(S), UNCHANGED receipts,
         \A j \in S : status[j] # "absent" \/ asked[j] # Null
  PROVE  FreshInv'
<1>1. \A j \in Jobs \ S : mishaps'[j] = mishaps[j]
  BY DEF Mishap
<1> QED
  BY <1>1, FreshKept

LEMMA FreshStep ==
  ASSUME LifeInv, FreshInv, [Next]_vars
  PROVE  FreshInv'
<1>t. TypeOK
  BY DEF LifeInv
<1>o. Onward
  BY LifeStep
<1>1. ASSUME NEW j \in Jobs, Enter(j)
      PROVE  FreshInv'
  <2>1. CASE EnqueueLost(j)
    <3>1. asked[j] # Null
      BY <2>1, <1>t DEF EnqueueLost, TypeOK, Receipts
    <3> QED
      BY <2>1, <3>1, <1>o, MishapFresh DEF EnqueueLost
  <2>2. CASE ~EnqueueLost(j)
    <3>1. UNCHANGED <<receipts, mishaps>>
      BY <1>1, <2>2 DEF Enter, CloseTable, EnqueueReceipt, RequestJob
    <3> QED
      BY <3>1, <1>o, FreshKept
  <2> QED
    BY <2>1, <2>2
<1>2. ASSUME NEW j \in Jobs, Age(j)
      PROVE  FreshInv'
  <2>1. status[j] # "absent"
    BY <1>2 DEF Age, LifeInv, JobLife
  <2>2. UNCHANGED receipts /\ (UNCHANGED mishaps \/ Mishap({j}))
    BY <1>2 DEF Age, NoMishap
  <2> QED
    BY <1>o, <2>1, <2>2, FreshKept, MishapFresh
<1>3. ASSUME NEW a \in Agents, ClaimStep(a)
      PROVE  FreshInv'
  <2>1. CASE ClaimReplyLost(a)
    <3>1. PICK S \in SUBSET Candidates(BridgeOf[a]) : Mishap(S)
      BY <2>1 DEF ClaimReplyLost
    <3>2. S \in SUBSET Jobs /\ \A j \in S : status[j] # "absent"
      BY DEF Candidates
    <3>3. UNCHANGED receipts
      BY <2>1 DEF ClaimReplyLost
    <3> QED
      BY <1>o, <3>1, <3>2, <3>3, MishapFresh
  <2>2. CASE ~ClaimReplyLost(a)
    <3>1. UNCHANGED <<receipts, mishaps>>
      BY <1>3, <2>2 DEF ClaimStep, BeginClaim, TakeClaim, EmptyClaim
    <3> QED
      BY <3>1, <1>o, FreshKept
  <2> QED
    BY <2>1, <2>2
<1>4. ASSUME NEW a \in Agents, AgentCrash(a)
      PROVE  FreshInv'
  <2>1. held[a] \in SUBSET Jobs /\ \A j \in held[a] : status[j] # "absent"
    BY DEF LifeInv, TypeOK
  <2>2. Mishap(held[a]) /\ UNCHANGED receipts
    BY <1>4 DEF AgentCrash
  <2> QED
    BY <1>o, <2>1, <2>2, MishapFresh
<1>5. ASSUME NEW a \in Agents, NEW j \in Jobs, WorkOn(a, j)
      PROVE  FreshInv'
  <2>1. PICK op \in {"complete", "fail"} : Work(a, j, op)
    BY <1>5, WorkOnIsWork
  <2>2. status[j] # "absent"
    BY <2>1 DEF Work, TakesUp, LifeInv
  <2>3. \A i \in Jobs \ {j} : receipts'[i] = receipts[i]
    BY <1>t, <2>1, EmittedCounts DEF Work
  <2>4. UNCHANGED mishaps
    BY <2>1 DEF Work
  <2> QED
    BY <1>o, <2>2, <2>3, <2>4, FreshKept
<1>6. ASSUME NEW c \in calls, HandleCall(c) \/ LoseCall(c) \/ Timeout(c)
      PROVE  FreshInv'
  <2>1. c.job \in Jobs /\ status[c.job] # "absent"
    BY <1>t DEF LifeInv, TypeOK, Calls
  <2>2. UNCHANGED receipts /\ (UNCHANGED mishaps \/ Mishap({c.job}))
    BY <1>6 DEF HandleCall, CheckCall, ApplyJob, ApplyPayment, LoseCall, Timeout
  <2> QED
    BY <1>o, <2>1, <2>2, FreshKept, MishapFresh
<1>7. CASE Settings
  <2>1. ASSUME NEW b \in Bridges, DeleteBridge(b)
        PROVE  FreshInv'
    <3> DEFINE hit == {j \in Jobs : bridgeId[j] = b /\ status[j] = "dispatched"}
    <3>1. hit \in SUBSET Jobs /\ \A j \in hit : status[j] # "absent"
      OBVIOUS
    <3>2. UNCHANGED receipts /\ (UNCHANGED mishaps \/ Mishap(hit))
      BY <2>1 DEF DeleteBridge, NoMishap
    <3> HIDE DEF hit
    <3> QED
      BY <1>o, <3>1, <3>2, FreshKept, MishapFresh
  <2>2. CASE ~(\E b \in Bridges : DeleteBridge(b))
    <3>1. UNCHANGED <<receipts, mishaps>>
      BY <1>7, <2>2 DEF Settings, SwitchPrinter, AssignCashier, RegisterBridge
    <3> QED
      BY <3>1, <1>o, FreshKept
  <2> QED
    BY <2>1, <2>2
<1>8. CASE UNCHANGED vars \/ \E a \in Agents : Heartbeat(a)
  <2>1. UNCHANGED <<receipts, mishaps>>
    BY <1>8 DEF vars, Heartbeat
  <2> QED
    BY <2>1, <1>o, FreshKept
<1> QED
  BY <1>1, <1>2, <1>3, <1>4, <1>5, <1>6, <1>7, <1>8 DEF Next

LEMMA FreshHolds == Spec => []FreshInv
<1>1. Init => FreshInv
  BY DEF Init, FreshInv, Fresh
<1>2. LifeInv /\ FreshInv /\ [Next]_vars => FreshInv'
  BY FreshStep
<1> QED
  BY <1>1, <1>2, LifeHolds, PTL DEF Spec

-----------------------------------------------------------------------------
(* Receipts and mishaps: a ledger per job.  A job is entitled to one        *)
(* emission, and each mishap to one more; an entitlement is spent by the    *)
(* device, in the hands of an agent, or open because the job is due to be   *)
(* handed out.                                                             *)

HoldersOf(j) == {a \in Agents : j \in held[a]}

Working(j) == \E a \in Agents : claimedBy[j] = a /\ AtWork(a, j)

Due(j) ==
  \/ status[j] \in {"absent", "pending"}
  \/ /\ status[j] = "dispatched"
     /\ dispatchedAt[j] = "stale" \/ bridgeId[j] = Null \/ ~Working(j)

Claims(j) == IF Due(j) THEN 1 ELSE 0

Balanced(j) ==
  /\ IsFiniteSet(HoldersOf(j))
  /\ receipts[j] + Cardinality(HoldersOf(j)) + Claims(j) <= 1 + mishaps[j]

Ledger == \A j \in Receipts : Balanced(j)

\* Steps after which no agent holds a job it did not hold before.
LEMMA BalanceKept ==
  ASSUME TypeOK, TypeOK', NEW j \in Jobs, Balanced(j),
         HoldersOf(j)' \subseteq HoldersOf(j),
         receipts'[j] = receipts[j],
         \/ mishaps'[j] >= mishaps[j] /\ (Due(j)' => Due(j))
         \/ mishaps'[j] >= mishaps[j] + 1
  PROVE  Balanced(j)'
<1>1. /\ IsFiniteSet(HoldersOf(j)')
      /\ Cardinality(HoldersOf(j)') <= Cardinality(HoldersOf(j))
  BY FS_Subset DEF Balanced
<1>2. Cardinality(HoldersOf(j)) \in Nat /\ Cardinality(HoldersOf(j)') \in Nat
  BY <1>1, FS_CardinalityType DEF Balanced
<1>3. receipts[j] \in Nat /\ mishaps[j] \in Nat /\ mishaps'[j] \in Nat
  BY DEF TypeOK
<1>4. CASE Due(j)' => Due(j)
  <2>1. Claims(j)' <= Claims(j) /\ Claims(j) \in Nat /\ Claims(j)' \in Nat
    BY <1>4 DEF Claims
  <2>2. mishaps'[j] >= mishaps[j]
    BY <1>3
  <2> QED
    BY <1>1, <1>2, <1>3, <2>1, <2>2 DEF Balanced
<1>5. CASE mishaps'[j] >= mishaps[j] + 1
  <2>1. Claims(j)' <= 1 /\ Claims(j) \in Nat /\ Claims(j)' \in Nat
    BY DEF Claims
  <2> QED
    BY <1>1, <1>2, <1>3, <1>5, <2>1 DEF Balanced
<1> QED
  BY <1>4, <1>5

LEMMA MishapCounts ==
  ASSUME TypeOK, NEW S, Mishap(S), NEW j \in Jobs
  PROVE  /\ mishaps'[j] >= mishaps[j]
         /\ j \in S => mishaps'[j] >= mishaps[j] + 1
BY DEF Mishap, TypeOK

LEMMA DueKept ==
  ASSUME NEW j, UNCHANGED <<status, dispatchedAt, bridgeId, claimedBy>>,
         \A a \in Agents : AtWork(a, j) => AtWork(a, j)'
  PROVE  Due(j)' => Due(j)
BY DEF Due, Working

LEMMA EnterLedger ==
  ASSUME LifeInv, FreshInv, Ledger, NEW j \in Jobs, Enter(j)
  PROVE  Ledger'
<1>t. TypeOK /\ TypeOK'
  BY EnterTypes DEF LifeInv
<1>s. UNCHANGED <<calls, held, receipts, dispatchedAt, bridgeId, claimedBy>>
  BY DEF Enter, CloseTable, EnqueueReceipt, EnqueueLost, RequestJob, row
<1> SUFFICES ASSUME NEW i \in Receipts'
             PROVE  Balanced(i)'
  BY DEF Ledger
<1>j. i \in Jobs
  BY DEF Receipts
<1>n. CASE i \notin Receipts
  <2>1. asked[i] = Null /\ asked'[i] # Null
    BY <1>n, <1>j DEF Receipts
  <2>2. i = j /\ \E p \in Payments : CloseTable(j, p)
    BY <1>t, <1>j, <2>1
       DEF Enter, CloseTable, EnqueueReceipt, EnqueueLost, RequestJob, TypeOK
  <2>3. status[i] = "absent" /\ UNCHANGED mishaps
    BY <2>2 DEF CloseTable
  <2>4. receipts[i] = 0 /\ mishaps[i] = 0
    BY <1>j, <2>1, <2>3 DEF FreshInv, Fresh
  <2>5. HoldersOf(i)' = {}
    BY <1>s, <2>3 DEF HoldersOf, LifeInv
  <2>6. IsFiniteSet(HoldersOf(i)') /\ Cardinality(HoldersOf(i)') = 0
    BY <2>5, FS_EmptySet
  <2>7. Claims(i)' \in {0, 1} /\ receipts'[i] = 0 /\ mishaps'[i] = 0
    BY <1>s, <2>3, <2>4 DEF Claims
  <2> QED
    BY <2>6, <2>7 DEF Balanced
<1>m. CASE i \in Receipts
  <2>i. Balanced(i)
    BY <1>m DEF Ledger
  <2>1. mishaps'[i] >= mishaps[i]
    BY <1>t, <1>j, MishapCounts
       DEF Enter, CloseTable, EnqueueReceipt, EnqueueLost, RequestJob, TypeOK
  <2>2. \/ status'[i] = status[i]
        \/ status[i] = "absent"
    BY <1>j DEF Enter, CloseTable, EnqueueReceipt, EnqueueLost, RequestJob, row, LifeInv,
                TypeOK, JobLife
  <2>3. Due(i)' => Due(i)
    BY <1>s, <2>2 DEF Due, Working, AtWork
  <2>4. HoldersOf(i)' = HoldersOf(i)
    BY <1>s DEF HoldersOf
  <2> QED
    BY <1>t, <1>j, <2>i, <1>s, <2>1, <2>3, <2>4, BalanceKept
<1> QED
  BY <1>n, <1>m

LEMMA AgeLedger ==
  ASSUME LifeInv, Ledger, NEW j \in Jobs, Age(j)
  PROVE  Ledger'
<1>t. TypeOK /\ TypeOK'
  BY AgeTypes DEF LifeInv
<1>s. UNCHANGED <<calls, held, receipts, status, bridgeId, claimedBy>>
  BY DEF Age
<1>q. Receipts' = Receipts
  BY DEF Age, Receipts
<1> SUFFICES ASSUME NEW i \in Receipts
             PROVE  Balanced(i)'
  BY <1>q DEF Ledger
<1>i. i \in Jobs /\ Balanced(i)
  BY DEF Receipts, Ledger
<1>4. HoldersOf(i)' = HoldersOf(i)
  BY <1>s DEF HoldersOf
<1>1. CASE i = j /\ Working(j)
  <2>1. Mishap({j})
    BY <1>1 DEF Age, Working
  <2> QED
    BY <1>t, <1>i, <1>s, <1>4, <1>1, <2>1, MishapCounts, BalanceKept
<1>2. CASE ~(i = j /\ Working(j))
  <2>1. mishaps'[i] >= mishaps[i]
    BY <1>t, <1>i, MishapCounts DEF Age, NoMishap, TypeOK
  <2>2. i # j => dispatchedAt'[i] = dispatchedAt[i]
    BY <1>i DEF Age, TypeOK
  <2>3. Due(i)' => Due(i)
    BY <1>s, <1>2, <2>2 DEF Due, Working, AtWork
  <2> QED
    BY <1>t, <1>i, <1>s, <1>4, <2>1, <2>3, BalanceKept
<1> QED
  BY <1>1, <1>2

LEMMA BeginClaimLedger ==
  ASSUME LifeInv, Ledger, NEW a \in Agents, BeginClaim(a)
  PROVE  Ledger'
<1>t. TypeOK /\ TypeOK'
  BY ClaimTypes DEF LifeInv, ClaimStep
<1>s. UNCHANGED <<calls, held, receipts, mishaps>>
  BY DEF BeginClaim
<1>q. Receipts' = Receipts
  BY DEF BeginClaim, Receipts
<1> SUFFICES ASSUME NEW i \in Receipts
             PROVE  Balanced(i)'
  BY <1>q DEF Ledger
<1>i. i \in Jobs /\ Balanced(i)
  BY DEF Receipts, Ledger
<1>1. Due(i)' => Due(i)
  <2>1. CASE i \in StaleJobs
    <3>1. status[i] = "dispatched" /\ dispatchedAt[i] \in {"none", "stale"}
      BY <2>1, <1>t, <1>i DEF StaleJobs, TypeOK
    <3>2. dispatchedAt[i] = "none" => ~Working(i)
      BY <1>i, NullAssumption DEF LifeInv, JobLife, Working
    <3> QED
      BY <3>1, <3>2 DEF Due
  <2>2. CASE i \notin StaleJobs
    <3>1. /\ status'[i] = status[i] /\ bridgeId'[i] = bridgeId[i]
          /\ claimedBy'[i] = claimedBy[i] /\ dispatchedAt'[i] = dispatchedAt[i]
      BY <2>2, <1>i DEF BeginClaim, Reclaim
    <3> QED
      BY <1>s, <3>1 DEF Due, Working, AtWork
  <2> QED
    BY <2>1, <2>2
<1>2. HoldersOf(i)' = HoldersOf(i)
  BY <1>s DEF HoldersOf
<1>3. mishaps[i] >= mishaps[i]
  BY <1>t, <1>i DEF TypeOK
<1> QED
  BY <1>t, <1>i, <1>s, <1>1, <1>2, <1>3, BalanceKept

\* A handed out job is in the hands of its owner and no longer due.
LEMMA TakeClaimLedger ==
  ASSUME LifeInv, Ledger, NEW a \in Agents, TakeClaim(a)
  PROVE  Ledger'
<1>t. TypeOK /\ TypeOK'
  BY ClaimTypes DEF LifeInv, ClaimStep
<1>s. UNCHANGED <<calls, receipts, mishaps>>
  BY DEF TakeClaim
<1>p. PICK S \in SUBSET Candidates(BridgeOf[a]) :
         MarkClaimed(S, a) /\ held' = [held EXCEPT ![a] = S]
  BY DEF TakeClaim
<1>a. held[a] = {}
  BY DEF LifeInv, TakeClaim
<1>q. Receipts' = Receipts
  BY DEF TakeClaim, Receipts
<1> SUFFICES ASSUME NEW i \in Receipts
             PROVE  Balanced(i)'
  BY <1>q DEF Ledger
<1>i. i \in Jobs /\ Balanced(i)
  BY DEF Receipts, Ledger
<1>1. CASE i \in S
  <2>1. HoldersOf(i)' = HoldersOf(i) \cup {a} /\ a \notin HoldersOf(i)
    BY <1>1, <1>p, <1>a, <1>t DEF HoldersOf, TypeOK
  <2>2. /\ IsFiniteSet(HoldersOf(i)')
        /\ Cardinality(HoldersOf(i)') = Cardinality(HoldersOf(i)) + 1
    BY <1>i, <2>1, FS_AddElement DEF Balanced
  <2>3. Due(i)
    BY <1>1 DEF Candidates, Due
  <2>4. /\ status'[i] = "dispatched" /\ claimedBy'[i] = a /\ dispatchedAt'[i] = "fresh"
        /\ bridgeId'[i] = BridgeOf[a]
    BY <1>1, <1>p, <1>i DEF MarkClaimed
  <2>5. Working(i)'
    BY <1>1, <1>p, <1>t, <2>4 DEF Working, AtWork, TypeOK
  <2>6. ~Due(i)'
    BY <2>4, <2>5, BridgeOfAssumption, NullAssumption DEF Due
  <2>7. Claims(i)' = 0 /\ Claims(i) = 1
    BY <2>3, <2>6 DEF Claims
  <2>8. Cardinality(HoldersOf(i)) \in Nat
    BY <1>i, FS_CardinalityType DEF Balanced
  <2>9. receipts[i] \in Nat /\ mishaps[i] \in Nat
    BY <1>t, <1>i DEF TypeOK
  <2> QED
    BY <1>i, <1>s, <2>2, <2>7, <2>8, <2>9 DEF Balanced
<1>2. CASE i \notin S
  <2>1. /\ status'[i] = status[i] /\ bridgeId'[i] = bridgeId[i]
        /\ claimedBy'[i] = claimedBy[i] /\ dispatchedAt'[i] = dispatchedAt[i]
    BY <1>2, <1>i, <1>p DEF MarkClaimed
  <2>2. \A b \in Agents : i \in held'[b] <=> i \in held[b]
    BY <1>2, <1>p, <1>a, <1>t DEF TypeOK
  <2>3. HoldersOf(i)' = HoldersOf(i)
    BY <2>2 DEF HoldersOf
  <2>4. Due(i)' => Due(i)
    BY <1>s, <2>1, <2>2 DEF Due, Working, AtWork
  <2>5. mishaps[i] >= mishaps[i]
    BY <1>t, <1>i DEF TypeOK
  <2> QED
    BY <1>t, <1>i, <1>s, <2>3, <2>4, <2>5, BalanceKept
<1> QED
  BY <1>1, <1>2

LEMMA ClaimLedger ==
  ASSUME LifeInv, Ledger, NEW a \in Agents, ClaimStep(a)
  PROVE  Ledger'
<1>t. TypeOK /\ TypeOK'
  BY ClaimTypes DEF LifeInv
<1>1. CASE ClaimReplyLost(a)
  <2>s. UNCHANGED <<calls, receipts, held>>
    BY <1>1 DEF ClaimReplyLost
  <2>p. PICK S \in SUBSET Candidates(BridgeOf[a]) : MarkClaimed(S, a) /\ Mishap(S)
    BY <1>1 DEF ClaimReplyLost
  <2>q. Receipts' = Receipts
    BY <1>1 DEF ClaimReplyLost, Receipts
  <2> SUFFICES ASSUME NEW i \in Receipts
               PROVE  Balanced(i)'
    BY <2>q DEF Ledger
  <2>i. i \in Jobs /\ Balanced(i)
    BY DEF Receipts, Ledger
  <2>h. HoldersOf(i)' = HoldersOf(i)
    BY <2>s DEF HoldersOf
  <2>m. mishaps'[i] >= mishaps[i] /\ (i \in S => mishaps'[i] >= mishaps[i] + 1)
    BY <1>t, <2>p, <2>i, MishapCounts
  <2>d. i \notin S => (Due(i)' => Due(i))
    <3>1. i \notin S => /\ status'[i] = status[i] /\ bridgeId'[i] = bridgeId[i]
                        /\ claimedBy'[i] = claimedBy[i] /\ dispatchedAt'[i] = dispatchedAt[i]
      BY <2>i, <2>p DEF MarkClaimed
    <3> QED
      BY <2>s, <3>1 DEF Due, Working, AtWork
  <2> QED
    BY <1>t, <2>i, <2>s, <2>h, <2>m, <2>d, BalanceKept
<1>2. CASE EmptyClaim(a)
  <2>1. UNCHANGED <<status, bridgeId, claimedBy, dispatchedAt, held, calls, receipts, mishaps,
                    asked>>
    BY <1>2 DEF EmptyClaim, row
  <2> QED
    BY <2>1 DEF Ledger, Receipts, Balanced, HoldersOf, Claims, Due, Working, AtWork
<1> QED
  BY <1>1, <1>2, BeginClaimLedger, TakeClaimLedger DEF ClaimStep

\* The device spends what the agent held.
LEMMA WorkLedger ==
  ASSUME LifeInv, Ledger, NEW a \in Agents, NEW j \in Jobs, NEW op \in {"complete", "fail"},
         Work(a, j, op)
  PROVE  Ledger'
<1>t. TypeOK /\ TypeOK'
  BY WorkTypes DEF LifeInv
<1>s. UNCHANGED <<status, bridgeId, claimedBy, dispatchedAt, mishaps>>
  BY DEF Work, row
<1>q. Receipts' = Receipts
  BY DEF Work, Receipts
<1> SUFFICES ASSUME NEW i \in Receipts
             PROVE  Balanced(i)'
  BY <1>q DEF Ledger
<1>i. i \in Jobs /\ Balanced(i)
  BY DEF Receipts, Ledger
<1>w. \A b \in Agents : AtWork(b, i) => AtWork(b, i)'
  <2>1. \A b \in Agents : i \in held[b] => i \in held'[b] \/ (b = a /\ i = j)
    BY <1>t DEF Work, TakesUp, TypeOK
  <2>2. calls \subseteq calls'
    BY DEF Work, Report
  <2>3. \E c \in calls' : c.by = a /\ c.job = j
    <3> DEFINE c == [op |-> op, job |-> j, by |-> a, at |-> "select", late |-> FALSE]
    <3>1. c \in calls'
      BY DEF Work, Report
    <3>2. c.by = a /\ c.job = j
      OBVIOUS
    <3> QED
      BY <3>1, <3>2
  <2> QED
    BY <2>1, <2>2, <2>3 DEF AtWork
<1>d. Due(i)' => Due(i)
  BY <1>s, <1>w, DueKept
<1>1. CASE i = j
  <2>1. HoldersOf(j)' = HoldersOf(j) \ {a} /\ a \in HoldersOf(j)
    BY <1>t DEF HoldersOf, Work, TakesUp, TypeOK
  <2>2. /\ IsFiniteSet(HoldersOf(j)')
        /\ Cardinality(HoldersOf(j)') = Cardinality(HoldersOf(j)) - 1
    BY <1>1, <1>i, <2>1, FS_RemoveElement DEF Balanced
  <2>3. receipts'[j] <= receipts[j] + 1 /\ receipts'[j] \in Nat
    BY <1>t, EmittedCounts DEF Work, TypeOK
  <2>4. Claims(j)' <= Claims(j) /\ Claims(j) \in Nat /\ Claims(j)' \in Nat
    BY <1>1, <1>d DEF Claims
  <2>5. Cardinality(HoldersOf(j)) \in Nat /\ Cardinality(HoldersOf(j)') \in Nat
    BY <1>1, <1>i, <2>2, FS_CardinalityType DEF Balanced
  <2>6. receipts[j] \in Nat /\ mishaps[j] \in Nat
    BY <1>t DEF TypeOK
  <2> QED
    BY <1>1, <1>i, <1>s, <2>2, <2>3, <2>4, <2>5, <2>6 DEF Balanced
<1>2. CASE i # j
  <2>1. HoldersOf(i)' = HoldersOf(i)
    BY <1>2, <1>t DEF HoldersOf, Work, TakesUp, TypeOK
  <2>2. receipts'[i] = receipts[i]
    BY <1>2, <1>i, <1>t, EmittedCounts DEF Work
  <2>3. mishaps'[i] >= mishaps[i]
    BY <1>t, <1>i, <1>s DEF TypeOK
  <2> QED
    BY <1>t, <1>i, <1>d, <2>1, <2>2, <2>3, BalanceKept
<1> QED
  BY <1>1, <1>2

LEMMA CrashLedger ==
  ASSUME LifeInv, Ledger, NEW a \in Agents, AgentCrash(a)
  PROVE  Ledger'
<1>t. TypeOK /\ TypeOK'
  BY CrashTypes DEF LifeInv
<1>s. UNCHANGED <<status, bridgeId, claimedBy, dispatchedAt, receipts>>
  BY DEF AgentCrash, row
<1>c. \A c \in calls : \E d \in calls' : d.by = c.by /\ d.job = c.job
  <2> SUFFICES ASSUME NEW c \in calls
               PROVE  \E d \in calls' : d.by = c.by /\ d.job = c.job
    OBVIOUS
  <2> DEFINE d == [c EXCEPT !.late = c.late \/ c.by = a]
  <2>1. d \in calls'
    BY DEF AgentCrash, AbandonedBy
  <2>2. d.by = c.by /\ d.job = c.job
    BY <1>t DEF TypeOK, Calls
  <2> QED
    BY <2>1, <2>2
<1>q. Receipts' = Receipts
  BY DEF AgentCrash, Receipts
<1> SUFFICES ASSUME NEW i \in Receipts
             PROVE  Balanced(i)'
  BY <1>q DEF Ledger
<1>i. i \in Jobs /\ Balanced(i)
  BY DEF Receipts, Ledger
<1>h. HoldersOf(i)' \subseteq HoldersOf(i)
  BY <1>t DEF HoldersOf, AgentCrash, TypeOK
<1>m. mishaps'[i] >= mishaps[i] /\ (i \in held[a] => mishaps'[i] >= mishaps[i] + 1)
  BY <1>t, <1>i, MishapCounts DEF AgentCrash
<1>d. i \notin held[a] => (Due(i)' => Due(i))
  <2> SUFFICES ASSUME i \notin held[a]
               PROVE  Due(i)' => Due(i)
    OBVIOUS
  <2>1. \A b \in Agents : i \in held[b] => i \in held'[b]
    BY <1>t DEF AgentCrash, TypeOK
  <2>2. \A b \in Agents : AtWork(b, i) => AtWork(b, i)'
    BY <1>c, <2>1 DEF AtWork
  <2> QED
    BY <1>s, <2>2, DueKept
<1> QED
  BY <1>t, <1>i, <1>s, <1>h, <1>m, <1>d, BalanceKept

\* Reports change the ledger by being lost; one that is refused was sent by an
\* agent that is not the job's owner.
LEMMA CallLedger ==
  ASSUME LifeInv, Ledger, NEW c \in calls, HandleCall(c) \/ LoseCall(c) \/ Timeout(c)
  PROVE  Ledger'
<1>t. TypeOK /\ TypeOK'
  BY CallTypes DEF LifeInv
<1>c. \A d \in calls : d \in Calls /\ d.job \in Jobs /\ d.by \in Agents
  BY <1>t DEF TypeOK, Calls
<1>s. UNCHANGED <<held, receipts, claimedBy, bridgeId, dispatchedAt>>
  BY DEF HandleCall, CheckCall, ApplyJob, ApplyPayment, LoseCall, Timeout, row
<1>q. Receipts' = Receipts
  BY DEF HandleCall, CheckCall, ApplyJob, ApplyPayment, LoseCall, Timeout, Receipts
<1> SUFFICES ASSUME NEW i \in Receipts
             PROVE  Balanced(i)'
  BY <1>q DEF Ledger
<1>i. i \in Jobs /\ Balanced(i)
  BY DEF Receipts, Ledger
<1>h. HoldersOf(i)' = HoldersOf(i)
  BY <1>s DEF HoldersOf
<1>m. mishaps'[i] >= mishaps[i]
  BY <1>t, <1>i, MishapCounts
     DEF HandleCall, CheckCall, ApplyJob, ApplyPayment, LoseCall, Timeout, TypeOK
<1>o. \A d \in calls : d # c => d \in calls'
  BY DEF HandleCall, CheckCall, ApplyJob, ApplyPayment, LoseCall, Timeout, Advance, Answer
<1>w. \A b \in Agents : ~(b = c.by /\ i = c.job) => (AtWork(b, i) => AtWork(b, i)')
  BY <1>o, <1>s DEF AtWork
<1>1. CASE CheckCall(c)
  <2>s. status' = status
    BY <1>1 DEF CheckCall, row
  <2>1. CASE i = c.job /\ ~Owns(c.by, i)
    <3>1. claimedBy[i] # c.by \/ bridgeId[i] = Null
      BY <1>i, <2>1 DEF Owns, LifeInv, JobLife
    <3>2. CASE claimedBy[i] # c.by
      <4>1. Working(i) => Working(i)'
        BY <1>s, <1>w, <3>2 DEF Working
      <4>2. Due(i)' => Due(i)
        BY <1>s, <2>s, <4>1 DEF Due
      <4> QED
        BY <1>t, <1>i, <1>s, <1>h, <1>m, <4>2, BalanceKept
    <3>3. CASE bridgeId[i] = Null
      <4>1. Due(i)' => Due(i)
        BY <1>s, <2>s, <3>3 DEF Due
      <4> QED
        BY <1>t, <1>i, <1>s, <1>h, <1>m, <4>1, BalanceKept
    <3> QED
      BY <3>1, <3>2, <3>3
  <2>2. CASE ~(i = c.job /\ ~Owns(c.by, i))
    <3>1. i = c.job => \E d \in calls' : d.by = c.by /\ d.job = i
      <4> SUFFICES ASSUME i = c.job
                   PROVE  \E d \in calls' : d.by = c.by /\ d.job = i
        OBVIOUS
      <4> DEFINE d == [c EXCEPT !.at = "job"]
      <4>1. Owns(c.by, c.job) /\ Parses(c)
        BY <2>2 DEF Parses
      <4>2. d \in calls'
        BY <1>1, <4>1 DEF CheckCall, Advance
      <4>3. d.by = c.by /\ d.job = i
        BY <1>c DEF Calls
      <4> QED
        BY <4>2, <4>3
    <3>2. \A b \in Agents : AtWork(b, i) => AtWork(b, i)'
      BY <1>w, <3>1 DEF AtWork
    <3>3. Due(i)' => Due(i)
      BY <1>s, <2>s, <3>2, DueKept
    <3> QED
      BY <1>t, <1>i, <1>s, <1>h, <1>m, <3>3, BalanceKept
  <2> QED
    BY <2>1, <2>2
<1>2. CASE ApplyJob(c)
  <2>1. i = c.job => status'[i] \in Settled
    BY <1>2, <1>i, <1>t DEF ApplyJob, Settled, TypeOK
  <2>2. i # c.job => status'[i] = status[i]
    BY <1>2, <1>i, <1>c, <1>t DEF ApplyJob, TypeOK
  <2>3. Due(i)' => Due(i)
    BY <1>s, <1>w, <2>1, <2>2 DEF Due, Working, Settled
  <2> QED
    BY <1>t, <1>i, <1>s, <1>h, <1>m, <2>3, BalanceKept
<1>3. CASE ApplyPayment(c)
  <2>1. i = c.job => status[i] \in Settled
    BY <1>3 DEF ApplyPayment, LifeInv
  <2>2. status' = status
    BY <1>3 DEF ApplyPayment, row
  <2>3. Due(i)' => Due(i)
    BY <1>s, <1>w, <2>1, <2>2 DEF Due, Working, Settled
  <2> QED
    BY <1>t, <1>i, <1>s, <1>h, <1>m, <2>3, BalanceKept
<1>4. CASE LoseCall(c) \/ Timeout(c)
  <2>1. i = c.job => mishaps'[i] >= mishaps[i] + 1
    BY <1>4, <1>t, <1>i, MishapCounts DEF LoseCall, Timeout
  <2>2. status' = status
    BY <1>4 DEF LoseCall, Timeout, row
  <2>3. i # c.job => (Due(i)' => Due(i))
    BY <1>s, <1>w, <2>2, DueKept
  <2> QED
    BY <1>t, <1>i, <1>s, <1>h, <1>m, <2>1, <2>3, BalanceKept
<1> QED
  BY <1>1, <1>2, <1>3, <1>4 DEF HandleCall

LEMMA SettingsLedger ==
  ASSUME LifeInv, Ledger, Settings
  PROVE  Ledger'
<1>t. TypeOK /\ TypeOK'
  BY SettingsTypes DEF LifeInv
<1>s. UNCHANGED <<held, receipts, calls, status, claimedBy, dispatchedAt>>
  BY DEF Settings, SwitchPrinter, AssignCashier, DeleteBridge, RegisterBridge, row
<1>q. Receipts' = Receipts
  BY DEF Settings, SwitchPrinter, AssignCashier, DeleteBridge, RegisterBridge, Receipts
<1> SUFFICES ASSUME NEW i \in Receipts
             PROVE  Balanced(i)'
  BY <1>q DEF Ledger
<1>i. i \in Jobs /\ Balanced(i)
  BY DEF Receipts, Ledger
<1>h. HoldersOf(i)' = HoldersOf(i)
  BY <1>s DEF HoldersOf
<1>1. CASE bridgeId'[i] = bridgeId[i]
  <2>1. Due(i)' => Due(i)
    BY <1>s, <1>1 DEF Due, Working, AtWork
  <2>2. mishaps'[i] >= mishaps[i]
    <3>1. mishaps' = mishaps \/ \E S : Mishap(S)
      BY DEF Settings, SwitchPrinter, AssignCashier, DeleteBridge, RegisterBridge, NoMishap
    <3> QED
      BY <1>t, <1>i, <3>1, MishapCounts DEF TypeOK
  <2> QED
    BY <1>t, <1>i, <1>s, <1>h, <2>1, <2>2, BalanceKept
<1>2. CASE bridgeId'[i] # bridgeId[i]
  <2>1. PICK b \in Bridges : DeleteBridge(b)
    BY <1>2 DEF Settings, SwitchPrinter, AssignCashier, RegisterBridge, row
  <2>2. bridgeId[i] = b
    BY <1>2, <1>i, <2>1 DEF DeleteBridge
  <2>3. CASE status[i] = "dispatched"
    <3>1. mishaps'[i] >= mishaps[i] + 1
      BY <1>t, <1>i, <2>1, <2>2, <2>3, MishapCounts DEF DeleteBridge
    <3> QED
      BY <1>t, <1>i, <1>s, <1>h, <3>1, BalanceKept
  <2>4. CASE status[i] # "dispatched"
    <3>1. Due(i)' => Due(i)
      BY <1>s, <2>4 DEF Due
    <3>2. mishaps'[i] >= mishaps[i]
      BY <1>t, <1>i, <2>1, MishapCounts DEF DeleteBridge, NoMishap, TypeOK
    <3> QED
      BY <1>t, <1>i, <1>s, <1>h, <3>1, <3>2, BalanceKept
  <2> QED
    BY <2>3, <2>4
<1> QED
  BY <1>1, <1>2

LEMMA QuietLedger ==
  ASSUME Ledger, UNCHANGED vars \/ \E a \in Agents : Heartbeat(a)
  PROVE  Ledger'
<1>1. UNCHANGED <<status, bridgeId, claimedBy, dispatchedAt, held, calls, receipts, mishaps,
                  asked>>
  BY DEF vars, Heartbeat, row
<1> QED
  BY <1>1 DEF Ledger, Receipts, Balanced, HoldersOf, Claims, Due, Working, AtWork

LEMMA LedgerHolds == Spec => []Ledger
<1>1. Init => Ledger
  <2> SUFFICES ASSUME Init, NEW j \in Receipts
               PROVE  Balanced(j)
    BY DEF Ledger
  <2>1. HoldersOf(j) = {}
    BY DEF Init, HoldersOf
  <2>2. receipts[j] = 0 /\ mishaps[j] = 0 /\ Claims(j) \in {0, 1}
    BY DEF Init, Receipts, Claims
  <2>3. IsFiniteSet(HoldersOf(j)) /\ Cardinality(HoldersOf(j)) = 0
    BY <2>1, FS_EmptySet
  <2> QED
    BY <2>2, <2>3 DEF Balanced
<1>2. LifeInv /\ FreshInv /\ Ledger /\ [Next]_vars => Ledger'
  BY EnterLedger, AgeLedger, ClaimLedger, CrashLedger, WorkOnIsWork, WorkLedger, CallLedger,
     SettingsLedger, QuietLedger DEF Next
<1> QED
  BY <1>1, <1>2, LifeHolds, FreshHolds, PTL DEF Spec

\* A close that asked for a receipt has no more of them than the mishaps around its
\* own job account for (claimFiscalJobsForBridge, reclaimStaleFiscalClaims).
THEOREM NoUnexplainedReceipt == Spec => []ReceiptsExplained
<1>1. LifeInv /\ Ledger => ReceiptsExplained
  <2> SUFFICES ASSUME LifeInv, Ledger, NEW j \in Receipts
               PROVE  receipts[j] <= 1 + mishaps[j]
    BY DEF ReceiptsExplained
  <2>1. Balanced(j) /\ receipts[j] \in Nat /\ mishaps[j] \in Nat
    BY DEF Ledger, LifeInv, TypeOK, Receipts
  <2>2. Cardinality(HoldersOf(j)) \in Nat /\ Claims(j) \in Nat
    BY <2>1, FS_CardinalityType DEF Balanced, Claims
  <2> QED
    BY <2>1, <2>2 DEF Balanced
<1> QED
  BY <1>1, LifeHolds, LedgerHolds, PTL

-----------------------------------------------------------------------------
(* The queue implements CertifiedReceipts.  The device prints for a job in *)
(* an agent's hands, to which the ledger entitles it; every fault around a *)
(* job is one that went wrong around its request.                          *)

Printed(j) == IF j \in Receipts THEN receipts[j] ELSE 0

WentWrong(j) == IF j \in Receipts THEN mishaps[j] ELSE 0

Outcome(j) == IF j \in Receipts /\ status[j] \in Settled THEN status[j] ELSE "none"

Shown(p) == IF payment[p] \in {"emitted", "failed"} THEN payment[p] ELSE "none"

\* What the promise says of requests and payments is as it was, but for the mishaps.
ReceiptsKept ==
    /\ UNCHANGED asked
    /\ \A j \in Receipts : receipts'[j] = receipts[j] /\ Outcome(j)' = Outcome(j)
    /\ \A p \in Payments : Shown(p)' = Shown(p)

LEMMA KeptMaps ==
  ASSUME ReceiptsKept
  PROVE  /\ asked' = asked
         /\ Receipts' = Receipts
         /\ [j \in Jobs |-> Printed(j)]' = [j \in Jobs |-> Printed(j)]
         /\ [j \in Jobs |-> Outcome(j)]' = [j \in Jobs |-> Outcome(j)]
         /\ [p \in Payments |-> Shown(p)]' = [p \in Payments |-> Shown(p)]
<1>1. Receipts' = Receipts
  BY DEF ReceiptsKept, Receipts
<1>2. \A j \in Jobs : Printed(j)' = Printed(j)
  BY <1>1 DEF ReceiptsKept, Printed
<1>3. \A j \in Jobs : Outcome(j)' = Outcome(j)
  BY <1>1 DEF ReceiptsKept, Outcome
<1> QED
  BY <1>1, <1>2, <1>3 DEF ReceiptsKept

LEMMA StutterKeeps ==
  ASSUME ReceiptsKept, \A j \in Receipts : mishaps'[j] = mishaps[j]
  PROVE  UNCHANGED Promise!vars
<1>1. [j \in Jobs |-> WentWrong(j)]' = [j \in Jobs |-> WentWrong(j)]
  BY KeptMaps DEF WentWrong
<1> QED
  BY <1>1, KeptMaps DEF Promise!vars, Printed, WentWrong, Outcome, Shown

LEMMA MishapGoesWrong ==
  ASSUME TypeOK, ReceiptsKept, NEW S \in SUBSET Jobs, Mishap(S)
  PROVE  Promise!Next
<1>t. PICK T \in SUBSET Jobs : T = S \cap Receipts
  OBVIOUS
<1>1. \A j \in Jobs : WentWrong(j)' = IF j \in T THEN WentWrong(j) + 1 ELSE WentWrong(j)
  BY <1>t, KeptMaps DEF Mishap, WentWrong
<1>2. [j \in Jobs |-> WentWrong(j)]'
        = [r \in Jobs |-> IF r \in T THEN [j \in Jobs |-> WentWrong(j)][r] + 1
                                     ELSE [j \in Jobs |-> WentWrong(j)][r]]
  BY <1>1
<1>3. Promise!GoWrong(T)
  BY <1>2, KeptMaps DEF Promise!GoWrong, Printed, WentWrong, Outcome, Shown
<1> QED
  BY <1>3 DEF Promise!Next

LEMMA EnterKeeps ==
  ASSUME LifeInv, FreshInv, NEW j \in Jobs, Enter(j)
  PROVE  [Promise!Next]_(Promise!vars)
<1>t. TypeOK
  BY DEF LifeInv
<1>1. ASSUME NEW p \in Payments, CloseTable(j, p)
      PROVE  [Promise!Next]_(Promise!vars)
  <2>1. /\ asked[j] = Null /\ asked' = [asked EXCEPT ![j] = p]
        /\ status[j] = "absent" /\ UNCHANGED <<status, receipts, mishaps>>
    BY <1>1 DEF CloseTable, row
  <2>2. receipts[j] = 0 /\ mishaps[j] = 0
    BY <2>1 DEF FreshInv, Fresh
  <2>3. Receipts' = Receipts \cup {j}
    BY <1>t, <2>1, NullAssumption DEF TypeOK, Receipts
  <2>4. [i \in Jobs |-> Printed(i)]' = [i \in Jobs |-> Printed(i)]
    BY <2>1, <2>2, <2>3 DEF Printed
  <2>5. [i \in Jobs |-> WentWrong(i)]' = [i \in Jobs |-> WentWrong(i)]
    BY <2>1, <2>2, <2>3 DEF WentWrong
  <2>6. [i \in Jobs |-> Outcome(i)]' = [i \in Jobs |-> Outcome(i)]
    BY <2>1, <2>3 DEF Outcome, Settled
  <2>7. [q \in Payments |-> Shown(q)]' = [q \in Payments |-> Shown(q)]
    <3>1. CASE UNCHANGED payment
      BY <3>1 DEF Shown
    <3>2. CASE payment[p] = "none" /\ payment' = [payment EXCEPT ![p] = "pending"]
      <4>1. \A q \in Payments : payment'[q] = IF q = p THEN "pending" ELSE payment[q]
        BY <1>t, <3>2 DEF TypeOK
      <4> QED
        BY <3>2, <4>1 DEF Shown
    <3> QED
      BY <1>1, <3>1, <3>2 DEF CloseTable
  <2>8. Promise!Ask(j, p)
    BY <2>1, <2>4, <2>5, <2>6, <2>7 DEF Promise!Ask, Printed, WentWrong, Outcome, Shown
  <2> QED
    BY <2>8 DEF Promise!Next
<1>2. CASE EnqueueReceipt(j)
  <2>1. /\ status' = [status EXCEPT ![j] = IF enabled THEN "pending" ELSE "absent"]
        /\ status[j] = "absent" /\ UNCHANGED <<payment, asked, receipts, mishaps>>
    BY <1>2 DEF EnqueueReceipt, LifeInv, JobLife
  <2>2. ReceiptsKept
    BY <2>1, <1>t DEF ReceiptsKept, Outcome, Shown, TypeOK, Settled, Receipts
  <2> QED
    BY <2>1, <2>2, StutterKeeps
<1>3. CASE EnqueueLost(j)
  <2>1. ReceiptsKept /\ Mishap({j})
    BY <1>3 DEF EnqueueLost, ReceiptsKept, Outcome, Shown, Receipts, row
  <2> QED
    BY <2>1, <1>t, MishapGoesWrong
<1>4. CASE RequestJob(j)
  <2>1. ReceiptsKept /\ UNCHANGED mishaps
    BY <1>4, <1>t DEF RequestJob, ReceiptsKept, Outcome, Shown, TypeOK, Receipts
  <2> QED
    BY <2>1, StutterKeeps
<1> QED
  BY <1>1, <1>2, <1>3, <1>4 DEF Enter

LEMMA ClaimKeeps ==
  ASSUME LifeInv, NEW a \in Agents, ClaimStep(a)
  PROVE  [Promise!Next]_(Promise!vars)
<1>t. TypeOK
  BY DEF LifeInv
<1>m. ASSUME NEW S \in SUBSET Candidates(BridgeOf[a]), MarkClaimed(S, a),
             UNCHANGED <<payment, asked, receipts>>
      PROVE  ReceiptsKept
  <2>1. \A j \in S : j \in Jobs /\ status[j] = "pending"
    BY DEF Candidates
  <2> QED
    BY <1>m, <2>1, <1>t DEF MarkClaimed, ReceiptsKept, Outcome, Shown, Settled, Receipts, TypeOK
<1>1. CASE BeginClaim(a)
  <2>1. ReceiptsKept /\ UNCHANGED mishaps
    BY <1>1, <1>t DEF BeginClaim, Reclaim, StaleJobs, ReceiptsKept, Outcome, Shown, Settled,
       Receipts, TypeOK
  <2> QED
    BY <2>1, StutterKeeps
<1>2. CASE TakeClaim(a)
  <2>1. UNCHANGED <<payment, asked, receipts, mishaps>>
    BY <1>2 DEF TakeClaim
  <2>2. ReceiptsKept
    BY <1>2, <1>m, <2>1 DEF TakeClaim
  <2> QED
    BY <2>1, <2>2, StutterKeeps
<1>3. CASE ClaimReplyLost(a)
  <2>1. PICK S \in SUBSET Candidates(BridgeOf[a]) : MarkClaimed(S, a) /\ Mishap(S)
    BY <1>3 DEF ClaimReplyLost
  <2>2. UNCHANGED <<payment, asked, receipts>>
    BY <1>3 DEF ClaimReplyLost
  <2>3. S \in SUBSET Jobs /\ ReceiptsKept
    BY <1>m, <2>1, <2>2 DEF Candidates
  <2> QED
    BY <1>t, <2>1, <2>3, MishapGoesWrong
<1>4. CASE EmptyClaim(a)
  BY <1>4, StutterKeeps DEF EmptyClaim, ReceiptsKept, Outcome, Shown, Receipts, row
<1> QED
  BY <1>1, <1>2, <1>3, <1>4 DEF ClaimStep

\* The device prints at most one receipt more than there were mishaps.
LEMMA WorkKeeps ==
  ASSUME LifeInv, Ledger, NEW a \in Agents, NEW j \in Jobs, NEW op \in {"complete", "fail"},
         Work(a, j, op)
  PROVE  [Promise!Next]_(Promise!vars)
<1>t. TypeOK
  BY DEF LifeInv
<1>1. UNCHANGED <<status, payment, asked, mishaps>> /\ j \in held[a]
  BY DEF Work, TakesUp, row
<1>2. CASE UNCHANGED receipts
  BY <1>1, <1>2, StutterKeeps DEF ReceiptsKept, Outcome, Shown, Receipts
<1>3. CASE Emitted(j) /\ j \notin Receipts
  <2>1. \A i \in Receipts : receipts'[i] = receipts[i]
    BY <1>3, <1>t, EmittedCounts DEF Receipts
  <2> QED
    BY <1>1, <2>1, StutterKeeps DEF ReceiptsKept, Outcome, Shown, Receipts
<1>4. CASE Emitted(j) /\ j \in Receipts
  <2>1. receipts[j] <= mishaps[j]
    <3>1. IsFiniteSet(HoldersOf(j)) /\ Cardinality(HoldersOf(j)) \in Nat
      BY <1>4, FS_CardinalityType DEF Ledger, Balanced
    <3>2. a \in HoldersOf(j)
      BY <1>1 DEF HoldersOf
    <3>3. Cardinality(HoldersOf(j)) # 0
      BY <3>1, <3>2, FS_EmptySet
    <3>4. receipts[j] + Cardinality(HoldersOf(j)) + Claims(j) <= 1 + mishaps[j]
      BY <1>4 DEF Ledger, Balanced
    <3>5. receipts[j] \in Nat /\ mishaps[j] \in Nat /\ Claims(j) \in Nat
      BY <1>t DEF TypeOK, Claims
    <3> QED
      BY <3>1, <3>3, <3>4, <3>5
  <2>2. asked[j] # Null
    BY <1>4 DEF Receipts
  <2>3. CASE receipts' = [receipts EXCEPT ![j] = receipts[j] + 1]
    <3>0. Receipts' = Receipts
      BY <1>1 DEF Receipts
    <3>1. [i \in Jobs |-> Printed(i)]' = [[i \in Jobs |-> Printed(i)] EXCEPT ![j] = @ + 1]
      <4>1. \A i \in Jobs : Printed(i)' = IF i = j THEN Printed(i) + 1 ELSE Printed(i)
        BY <1>4, <2>3, <1>t, <3>0 DEF TypeOK, Printed
      <4> QED
        BY <4>1
    <3>2. Printed(j) <= WentWrong(j)
      BY <1>4, <2>1 DEF Printed, WentWrong
    <3>3. [i \in Jobs |-> WentWrong(i)]' = [i \in Jobs |-> WentWrong(i)]
      BY <1>1, <3>0 DEF WentWrong
    <3>4. [i \in Jobs |-> Outcome(i)]' = [i \in Jobs |-> Outcome(i)]
      BY <1>1, <3>0 DEF Outcome
    <3>5. [p \in Payments |-> Shown(p)]' = [p \in Payments |-> Shown(p)]
      BY <1>1 DEF Shown
    <3>6. Promise!Emit(j)
      BY <1>1, <2>2, <3>1, <3>2, <3>3, <3>4, <3>5
         DEF Promise!Emit, Printed, WentWrong, Outcome, Shown
    <3> QED
      BY <3>6 DEF Promise!Next
  <2>4. CASE receipts' = [receipts EXCEPT ![j] = receipts[j]]
    <3>1. receipts' = receipts
      BY <2>4, <1>t DEF TypeOK
    <3> QED
      BY <1>2, <3>1
  <2> QED
    BY <1>4, <2>3, <2>4 DEF Emitted
<1> QED
  BY <1>2, <1>3, <1>4 DEF Work

LEMMA CallKeeps ==
  ASSUME LifeInv, RealInv, NEW c \in calls, HandleCall(c) \/ LoseCall(c) \/ Timeout(c)
  PROVE  [Promise!Next]_(Promise!vars)
<1>t. TypeOK /\ c \in Calls /\ c.job \in Jobs
  BY DEF LifeInv, TypeOK, Calls
<1> DEFINE j == c.job
<1>1. CASE CheckCall(c)
  BY <1>1, StutterKeeps DEF CheckCall, ReceiptsKept, Outcome, Shown, Receipts, row
<1>2. CASE LoseCall(c) \/ Timeout(c)
  <2>1. ReceiptsKept /\ Mishap({c.job})
    BY <1>2 DEF LoseCall, Timeout, ReceiptsKept, Outcome, Shown, Receipts, row
  <2> QED
    BY <1>t, <2>1, MishapGoesWrong
<1>3. CASE ApplyJob(c)
  <2> DEFINE o == IF c.op = "complete" THEN "completed" ELSE "failed"
  <2>1. status' = [status EXCEPT ![j] = o] /\ UNCHANGED <<payment, asked, receipts, mishaps>>
    BY <1>3 DEF ApplyJob
  <2>2. CASE j \notin Receipts
    <3>1. \A i \in Receipts : status'[i] = status[i]
      BY <2>1, <2>2, <1>t DEF TypeOK, Receipts
    <3> QED
      BY <2>1, <3>1, StutterKeeps DEF ReceiptsKept, Outcome, Shown, Receipts
  <2>3. CASE j \in Receipts
    <3>0. Receipts' = Receipts /\ asked[j] # Null
      BY <2>1, <2>3 DEF Receipts
    <3>1. o = "completed" => Printed(j) > 0
      BY <2>3 DEF RealInv, Printed
    <3>2. \A i \in Jobs : Outcome(i)' = IF i = j THEN o ELSE Outcome(i)
      BY <2>1, <2>3, <3>0, <1>t DEF TypeOK, Settled, Outcome
    <3>3. [i \in Jobs |-> Outcome(i)]' = [[i \in Jobs |-> Outcome(i)] EXCEPT ![j] = o]
      BY <3>2
    <3>4. /\ [i \in Jobs |-> Printed(i)]' = [i \in Jobs |-> Printed(i)]
          /\ [i \in Jobs |-> WentWrong(i)]' = [i \in Jobs |-> WentWrong(i)]
          /\ [p \in Payments |-> Shown(p)]' = [p \in Payments |-> Shown(p)]
      BY <2>1, <3>0 DEF Printed, WentWrong, Shown
    <3> HIDE DEF o
    <3>5. Promise!Conclude(j, o)
      BY <2>1, <1>t, <3>0, <3>1, <3>3, <3>4
         DEF Promise!Conclude, Printed, WentWrong, Outcome, Shown
    <3> QED
      BY <1>t, <3>5 DEF Promise!Next, o
  <2> QED
    BY <2>2, <2>3
<1>4. CASE ApplyPayment(c)
  <2> DEFINE s == FiscalStatus(c.op)
  <2>1. payment' = [payment EXCEPT ![asked[j]] = s] /\ UNCHANGED <<status, asked, receipts, mishaps>>
    BY <1>4 DEF ApplyPayment, row
  <2>2. j \in Receipts /\ status[j] \in Settled
    BY <1>4 DEF LifeInv, ApplyPayment
  <2>3. Receipts' = Receipts
    BY <2>1 DEF Receipts
  <2>4. s \in {"emitted", "failed"} /\ (s = "emitted" => Printed(j) > 0)
    BY <2>2 DEF RealInv, FiscalStatus, Printed
  <2> HIDE DEF s
  <2>5. \A p \in Payments : Shown(p)' = IF p = asked[j] THEN s ELSE Shown(p)
    BY <2>1, <2>4, <1>t DEF TypeOK, Shown
  <2>6. [p \in Payments |-> Shown(p)]' = [[p \in Payments |-> Shown(p)] EXCEPT ![asked[j]] = s]
    BY <2>5
  <2>7. /\ [i \in Jobs |-> Printed(i)]' = [i \in Jobs |-> Printed(i)]
        /\ [i \in Jobs |-> WentWrong(i)]' = [i \in Jobs |-> WentWrong(i)]
        /\ [i \in Jobs |-> Outcome(i)]' = [i \in Jobs |-> Outcome(i)]
    BY <2>1, <2>3 DEF Printed, WentWrong, Outcome
  <2>8. Outcome(j) # "none"
    BY <2>2 DEF Outcome, Settled
  <2>9. Promise!Show(j, s)
    BY <2>1, <1>t, <2>4, <2>6, <2>7, <2>8 DEF Promise!Show, Printed, WentWrong, Outcome, Shown
  <2> QED
    BY <1>t, <2>4, <2>9 DEF Promise!Next
<1> QED
  BY <1>1, <1>2, <1>3, <1>4 DEF HandleCall

LEMMA OtherKeeps ==
  ASSUME LifeInv,
         \/ \E j \in Jobs : Age(j)
         \/ \E a \in Agents : AgentCrash(a) \/ Heartbeat(a)
         \/ Settings
         \/ UNCHANGED vars
  PROVE  [Promise!Next]_(Promise!vars)
<1>t. TypeOK
  BY DEF LifeInv
<1>1. UNCHANGED <<receipts, status, payment, asked>>
  BY DEF Age, AgentCrash, Heartbeat, Settings, SwitchPrinter, AssignCashier, DeleteBridge,
         RegisterBridge, vars, row
<1>2. ReceiptsKept
  BY <1>1 DEF ReceiptsKept, Outcome, Shown, Receipts
<1>3. UNCHANGED mishaps \/ \E S \in SUBSET Jobs : Mishap(S)
  <2>1. ASSUME NEW j \in Jobs, Age(j)
        PROVE  UNCHANGED mishaps \/ \E S \in SUBSET Jobs : Mishap(S)
    BY <2>1 DEF Age, NoMishap
  <2>2. ASSUME NEW a \in Agents, AgentCrash(a)
        PROVE  \E S \in SUBSET Jobs : Mishap(S)
    BY <2>2, <1>t DEF AgentCrash, TypeOK
  <2>3. ASSUME NEW b \in Bridges, DeleteBridge(b)
        PROVE  UNCHANGED mishaps \/ \E S \in SUBSET Jobs : Mishap(S)
    <3>1. {j \in Jobs : bridgeId[j] = b /\ status[j] = "dispatched"} \in SUBSET Jobs
      OBVIOUS
    <3> QED
      BY <2>3, <3>1 DEF DeleteBridge, NoMishap
  <2> QED
    BY <2>1, <2>2, <2>3 DEF Heartbeat, Settings, SwitchPrinter, AssignCashier, RegisterBridge, vars
<1> QED
  BY <1>2, <1>3, <1>t, MishapGoesWrong, StutterKeeps

\* The fiscal queue keeps what CertifiedReceipts promises a till, for any number
\* of jobs, payments, bridges, agents and faults: one receipt per close that asked
\* and one more per mishap, nothing concluded or shown as emitted without paper,
\* and what is concluded stays so (claimFiscalJobsForBridge, completeFiscalJob,
\* failFiscalJob, processFiscalJob, reclaimStaleFiscalClaims, deletePrintBridge).
THEOREM QueueCertifies == Spec => KeepsReceipts
<1>1. Init => Promise!Init
  BY DEF Init, Promise!Init, Receipts, Settled
<1>2. LifeInv /\ RealInv /\ FreshInv /\ Ledger /\ [Next]_vars => [Promise!Next]_(Promise!vars)
  <2> SUFFICES ASSUME LifeInv, RealInv, FreshInv, Ledger, [Next]_vars
               PROVE  [Promise!Next]_(Promise!vars)
    OBVIOUS
  <2>1. CASE \E j \in Jobs : Enter(j)
    BY <2>1, EnterKeeps
  <2>2. CASE \E a \in Agents : ClaimStep(a)
    BY <2>2, ClaimKeeps
  <2>3. CASE \E a \in Agents, j \in Jobs : WorkOn(a, j)
    BY <2>3, WorkOnIsWork, WorkKeeps
  <2>4. CASE \E c \in calls : HandleCall(c) \/ LoseCall(c) \/ Timeout(c)
    BY <2>4, CallKeeps
  <2>5. CASE \/ \E j \in Jobs : Age(j)
             \/ \E a \in Agents : AgentCrash(a) \/ Heartbeat(a)
             \/ Settings
             \/ UNCHANGED vars
    BY <2>5, OtherKeeps
  <2> QED
    BY <2>1, <2>2, <2>3, <2>4, <2>5 DEF Next
<1> QED
  BY <1>1, <1>2, LifeHolds, RealHolds, FreshHolds, LedgerHolds, PTL
     DEF Spec, KeepsReceipts, Promise!Spec
=============================================================================
