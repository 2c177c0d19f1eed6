---------------------------- MODULE FiscalQueue -----------------------------
(***************************************************************************)
(* Certified fiscal emission ("path B") of GustoPOS: rows of fiscal_jobs,  *)
(* the Go agents of the cashier area that claim them and drive the fiscal  *)
(* printer, and the fiscal status of the payments the receipts are for.    *)
(*                                                                         *)
(* A report is handled in three statements: a SELECT that checks the       *)
(* owner, an UPDATE of the job by id and an UPDATE of its payment.         *)
(*                                                                         *)
(* A payment may be asked a receipt for more than once: a close that finds  *)
(* everything paid asks for one in the name of a payment of the table that  *)
(* was there before, whether that has had one or not.                       *)
(*                                                                         *)
(* The history variable mishaps[j] counts what went wrong around a job; no  *)
(* bound limits how often a job goes round the queue, so that liveness is   *)
(* a question about the code and not about a bound.                        *)
(***************************************************************************)
EXTENDS Naturals

CONSTANTS
    Jobs,       \* identities of fiscal_jobs rows
    Payments,   \* rows of payments that receipts are asked for
    Bridges,    \* ids of print_bridges rows
    Agents,     \* machines running the Go agent, one instance id each
    BridgeOf,   \* BridgeOf[a]: the bridge id agent a is configured with
    Null,
    TestJobs,   \* bound on the jobs that may be tests or closes
    AdminOps,   \* operations of the settings pages in use
    MaxFaults   \* bound on crashes, lost messages, timeouts, overlong batches

ASSUME BridgeOfAssumption == BridgeOf \in [Agents -> Bridges]
ASSUME NullAssumption == Null \notin Bridges /\ Null \notin Agents /\ Null \notin Payments
ASSUME MaxFaultsAssumption == MaxFaults \in Nat

VARIABLES
    status,       \* fiscal_jobs.status, "absent" before the row is inserted
    bridgeId,     \* fiscal_jobs.bridge_id
    claimedBy,    \* fiscal_jobs.claimed_by_instance_id
    dispatchedAt, \* fiscal_jobs.dispatched_at relative to now - 5 minutes
    payment,      \* payments.fiscal_status
    asked,        \* payment in the payload of a receipt, Null for tests and closes
    enqueueing,   \* receipts whose close is committed and whose row is not inserted
    enabled,      \* the tenant's fiscal printer toggle
    registered,   \* ids with a print_bridges row
    cashier,      \* bridge rows that are assigned the cashier area
    knows,        \* what an agent's last heartbeat told it of the two
    claiming,     \* agents whose claim has passed the gate and reclaimed
    held,         \* jobs an agent still has to work through
    calls,        \* complete and fail reports under way
    receipts,     \* history: times the device carried the job out
    mishaps,      \* history: faults that hit the job
    faults        \* history: faults so far, to bound them

row == <<status, bridgeId, claimedBy, dispatchedAt>>
settings == <<enabled, registered, cashier>>
vars == <<row, payment, asked, enqueueing, settings, knows, claiming, held, calls,
          receipts, mishaps, faults>>

Receipts == {j \in Jobs : asked[j] # Null}
Settled == {"completed", "failed"}

Calls == [op: {"complete", "fail"}, job: Jobs, by: Agents,
          at: {"select", "job", "payment"}, late: BOOLEAN]

TypeOK ==
    /\ status \in [Jobs -> {"absent", "pending", "dispatched"} \cup Settled]
    /\ bridgeId \in [Jobs -> Bridges \cup {Null}]
    /\ claimedBy \in [Jobs -> Agents \cup {Null}]
    /\ dispatchedAt \in [Jobs -> {"none", "fresh", "stale"}]
    /\ payment \in [Payments -> {"none", "pending", "emitted", "failed"}]
    /\ asked \in [Jobs -> Payments \cup {Null}]
    /\ enqueueing \subseteq Receipts
    /\ enabled \in BOOLEAN
    /\ registered \subseteq Bridges
    /\ cashier \subseteq registered
    /\ knows \in [Agents -> [enabled: BOOLEAN, cashier: BOOLEAN]]
    /\ claiming \subseteq Agents
    /\ held \in [Agents -> SUBSET Jobs]
    /\ calls \subseteq Calls
    /\ receipts \in [Jobs -> Nat]
    /\ mishaps \in [Jobs -> Nat]
    /\ faults \in 0..MaxFaults

Init ==
    /\ status = [j \in Jobs |-> "absent"]
    /\ bridgeId = [j \in Jobs |-> Null]
    /\ claimedBy = [j \in Jobs |-> Null]
    /\ dispatchedAt = [j \in Jobs |-> "none"]
    /\ payment = [p \in Payments |-> "none"]
    /\ asked = [j \in Jobs |-> Null]
    /\ enqueueing = {}
    /\ enabled = TRUE
    /\ registered = Bridges
    /\ cashier = Bridges
    /\ knows = [a \in Agents |-> [enabled |-> TRUE, cashier |-> TRUE]]
    /\ claiming = {}
    /\ held = [a \in Agents |-> {}]
    /\ calls = {}
    /\ receipts = [j \in Jobs |-> 0]
    /\ mishaps = [j \in Jobs |-> 0]
    /\ faults = 0

\* A fault that hits the jobs of S.
Mishap(S) ==
    /\ faults < MaxFaults
    /\ faults' = faults + 1
    /\ mishaps' = [j \in Jobs |-> IF j \in S THEN mishaps[j] + 1 ELSE mishaps[j]]

NoMishap == UNCHANGED <<mishaps, faults>>

-----------------------------------------------------------------------------
(* Jobs enter the queue.                                                   *)

\* Receipts that were asked for in the name of a payment.
ReceiptsFor(p) == {j \in Jobs : asked[j] = p}

\* closeTable with fiscalEmit commits the payment, the job follows on its own.  A
\* payment of this close is inserted as pending.  Where all was paid by guest or by
\* item before, the close names a payment that was there and its status stays.
CloseTable(j, p) ==
    /\ asked[j] = Null /\ status[j] = "absent"
    /\ \/ /\ ReceiptsFor(p) = {} /\ payment[p] = "none"
          /\ payment' = [payment EXCEPT ![p] = "pending"]
       \/ UNCHANGED payment
    /\ asked' = [asked EXCEPT ![j] = p]
    /\ enqueueing' = enqueueing \cup {j}
    /\ UNCHANGED <<row, settings, knows, claiming, held, calls, receipts, mishaps, faults>>

\* With the printer switched off the job is not inserted and nobody is told.
EnqueueReceipt(j) ==
    /\ j \in enqueueing
    /\ enqueueing' = enqueueing \ {j}
    /\ status' = [status EXCEPT ![j] = IF enabled THEN "pending" ELSE "absent"]
    /\ UNCHANGED <<bridgeId, claimedBy, dispatchedAt, payment, asked, settings, knows,
                   claiming, held, calls, receipts, mishaps, faults>>

\* The insert fails, which is only logged, or the API stops before it.
EnqueueLost(j) ==
    /\ j \in enqueueing
    /\ Mishap({j})
    /\ enqueueing' = enqueueing \ {j}
    /\ UNCHANGED <<row, payment, asked, settings, knows, claiming, held, calls, receipts>>

\* POST fiscal/jobs/test and fiscal/chiusura.
RequestJob(j) ==
    /\ j \in TestJobs /\ asked[j] = Null /\ status[j] = "absent"
    /\ status' = [status EXCEPT ![j] = "pending"]
    /\ UNCHANGED <<bridgeId, claimedBy, dispatchedAt, payment, asked, enqueueing, settings,
                   knows, claiming, held, calls, receipts, mishaps, faults>>

-----------------------------------------------------------------------------
(* Claim: the gate and reclaimStaleFiscalClaims, then the transaction.     *)

\* The agent's loop is synchronous: it waits for an answer or a timeout.
Waiting(a) == \E c \in calls : c.by = a /\ ~c.late

Idle(a) == held[a] = {} /\ a \notin claiming /\ ~Waiting(a)

\* Mutant: only rows without a dispatch time are stale.
StaleUndated == {j \in Jobs : status[j] = "dispatched" /\ dispatchedAt[j] = "none"}

\* Mutant: a claim is stale at once.
StaleAtOnce == {j \in Jobs : status[j] = "dispatched"}

\* Mutant: the status condition is missing.
StaleOfAnyStatus == {j \in Jobs : claimedBy[j] # Null /\ dispatchedAt[j] # "fresh"}

StaleJobs == {j \in Jobs : status[j] = "dispatched" /\ dispatchedAt[j] # "fresh"}

\* Mutant: the claim columns survive, as they do in a retry of a print job.
ReclaimKeepsOwner ==
    /\ status' = [j \in Jobs |-> IF j \in StaleJobs THEN "pending" ELSE status[j]]
    /\ UNCHANGED <<bridgeId, claimedBy, dispatchedAt>>

Reclaim ==
    /\ status' = [j \in Jobs |-> IF j \in StaleJobs THEN "pending" ELSE status[j]]
    /\ bridgeId' = [j \in Jobs |-> IF j \in StaleJobs THEN Null ELSE bridgeId[j]]
    /\ claimedBy' = [j \in Jobs |-> IF j \in StaleJobs THEN Null ELSE claimedBy[j]]
    /\ dispatchedAt' = [j \in Jobs |-> IF j \in StaleJobs THEN "none" ELSE dispatchedAt[j]]

\* claimFiscalOnce asks only if the agent believes it is a cashier; the server
\* checks the bridge row before it reclaims.
BeginClaim(a) ==
    /\ Idle(a) /\ knows[a].cashier
    /\ BridgeOf[a] \in cashier
    /\ Reclaim
    /\ claiming' = claiming \cup {a}
    /\ UNCHANGED <<payment, asked, enqueueing, settings, knows, held, calls, receipts, mishaps, faults>>

Candidates(b) == {j \in Jobs : /\ b \in registered
                               /\ status[j] = "pending"
                               /\ bridgeId[j] \in {Null, b}}

MarkClaimed(S, a) ==
    /\ status' = [j \in Jobs |-> IF j \in S THEN "dispatched" ELSE status[j]]
    /\ bridgeId' = [j \in Jobs |-> IF j \in S THEN BridgeOf[a] ELSE bridgeId[j]]
    /\ claimedBy' = [j \in Jobs |-> IF j \in S THEN a ELSE claimedBy[j]]
    /\ dispatchedAt' = [j \in Jobs |-> IF j \in S THEN "fresh" ELSE dispatchedAt[j]]

\* SKIP LOCKED leaves an undetermined part of the rows to others.  The limit of
\* five rows is such a part too.
TakeClaim(a) ==
    /\ a \in claiming
    /\ \E S \in SUBSET Candidates(BridgeOf[a]) \ {{}} :
         /\ MarkClaimed(S, a)
         /\ held' = [held EXCEPT ![a] = S]
    /\ claiming' = claiming \ {a}
    /\ UNCHANGED <<payment, asked, enqueueing, settings, knows, calls, receipts, mishaps, faults>>

\* The transaction commits and the answer does not arrive.
ClaimReplyLost(a) ==
    /\ a \in claiming
    /\ \E S \in SUBSET Candidates(BridgeOf[a]) \ {{}} : MarkClaimed(S, a) /\ Mishap(S)
    /\ claiming' = claiming \ {a}
    /\ UNCHANGED <<payment, asked, enqueueing, settings, knows, held, calls, receipts>>

\* Nothing pending, or the bridge row is gone and the foreign key refuses it.
EmptyClaim(a) ==
    /\ a \in claiming /\ Candidates(BridgeOf[a]) = {}
    /\ claiming' = claiming \ {a}
    /\ UNCHANGED <<row, payment, asked, enqueueing, settings, knows, held, calls, receipts,
                   mishaps, faults>>

AtWork(a, j) == j \in held[a] \/ \E c \in calls : c.by = a /\ c.job = j

\* now - 5 minutes passes dispatched_at; a batch that takes so long is a fault.
Age(j) ==
    /\ dispatchedAt[j] = "fresh"
    /\ dispatchedAt' = [dispatchedAt EXCEPT ![j] = "stale"]
    /\ IF \E a \in Agents : claimedBy[j] = a /\ AtWork(a, j) THEN Mishap({j}) ELSE NoMishap
    /\ UNCHANGED <<status, bridgeId, claimedBy, payment, asked, enqueueing, settings, knows,
                   claiming, held, calls, receipts>>

-----------------------------------------------------------------------------
(* processFiscalJob.                                                       *)

Report(a, j, op) ==
    calls' = calls \cup {[op |-> op, job |-> j, by |-> a, at |-> "select", late |-> FALSE]}

TakesUp(a, j) ==
    /\ j \in held[a] /\ ~Waiting(a)
    /\ held' = [held EXCEPT ![a] = @ \ {j}]

\* Receipts need the toggle, as the agent knows it; tests and closes do not.
MayEmit(a, j) == j \notin Receipts \/ knows[a].enabled

\* How far printings are told apart: beyond what faults explain for a receipt, none
\* from some for a test or close, which goes round the queue without end.
Counted(j) == IF j \in Receipts THEN MaxFaults + 2 ELSE 1

\* The device has done its work.
Emitted(j) == receipts' = [receipts EXCEPT ![j] = IF @ < Counted(j) THEN @ + 1 ELSE @]

Emit(a, j) ==
    /\ TakesUp(a, j) /\ MayEmit(a, j)
    /\ Emitted(j)
    /\ Report(a, j, "complete")
    /\ UNCHANGED <<row, payment, asked, enqueueing, settings, knows, claiming, mishaps, faults>>

\* Any command of the batch may err, the last one after the device obeyed it.
EmitErrs(a, j) ==
    /\ TakesUp(a, j) /\ MayEmit(a, j)
    /\ Emitted(j) \/ UNCHANGED receipts
    /\ Report(a, j, "fail")
    /\ UNCHANGED <<row, payment, asked, enqueueing, settings, knows, claiming, mishaps, faults>>

\* Mutant: a receipt the toggle forbids is reported complete.
RefuseCompletes(a, j) ==
    /\ TakesUp(a, j) /\ ~MayEmit(a, j)
    /\ Report(a, j, "complete")
    /\ UNCHANGED <<row, payment, asked, enqueueing, settings, knows, claiming, receipts, mishaps, faults>>

Refuse(a, j) ==
    /\ TakesUp(a, j) /\ ~MayEmit(a, j)
    /\ Report(a, j, "fail")
    /\ UNCHANGED <<row, payment, asked, enqueueing, settings, knows, claiming, receipts, mishaps, faults>>

AbandonedBy(a) == {[c EXCEPT !.late = c.late \/ c.by = a] : c \in calls}

\* The machine stops, or the watchdog relaunches an agent that was busy with the
\* device for too long: the batch is gone, requests on their way are not.
AgentCrash(a) ==
    /\ Mishap(held[a])
    /\ held' = [held EXCEPT ![a] = {}]
    /\ claiming' = claiming \ {a}
    /\ calls' = AbandonedBy(a)
    /\ UNCHANGED <<row, payment, asked, enqueueing, settings, knows, receipts>>

\* applyHeartbeatConfig; a bridge without a row is refused.
Heartbeat(a) ==
    /\ Idle(a) /\ BridgeOf[a] \in registered
    /\ knows' = [knows EXCEPT ![a] = [enabled |-> enabled, cashier |-> BridgeOf[a] \in cashier]]
    /\ UNCHANGED <<row, payment, asked, enqueueing, settings, claiming, held, calls, receipts,
                   mishaps, faults>>

-----------------------------------------------------------------------------
(* completeFiscalJob and failFiscalJob.                                    *)

Advance(c, at) == calls' = (calls \ {c}) \cup {[c EXCEPT !.at = at]}
Answer(c) == calls' = calls \ {c}

Owns(a, j) == claimedBy[j] = a /\ bridgeId[j] = BridgeOf[a]

\* The agent sends the progressive number with a receipt and an empty one with a
\* test or a close, and the request schema wants at least one character.
Parses(c) == c.op = "fail" \/ c.job \in Receipts

CheckCall(c) ==
    /\ c \in calls /\ c.at = "select"
    /\ IF Parses(c) /\ Owns(c.by, c.job) THEN Advance(c, "job") ELSE Answer(c)
    /\ UNCHANGED <<row, payment, asked, enqueueing, settings, knows, claiming, held, receipts,
                   mishaps, faults>>

ApplyJob(c) ==
    /\ c \in calls /\ c.at = "job"
    /\ status' = [status EXCEPT ![c.job] = IF c.op = "complete" THEN "completed" ELSE "failed"]
    /\ IF c.job \in Receipts THEN Advance(c, "payment") ELSE Answer(c)
    /\ UNCHANGED <<bridgeId, claimedBy, dispatchedAt, payment, asked, enqueueing, settings,
                   knows, claiming, held, receipts, mishaps, faults>>

\* Mutant: a status no payment has.
FiscalStatusOfJob(op) == IF op = "complete" THEN "completed" ELSE "failed"

FiscalStatus(op) == IF op = "complete" THEN "emitted" ELSE "failed"

ApplyPayment(c) ==
    /\ c \in calls /\ c.at = "payment"
    /\ payment' = [payment EXCEPT ![asked[c.job]] = FiscalStatus(c.op)]
    /\ Answer(c)
    /\ UNCHANGED <<row, asked, enqueueing, settings, knows, claiming, held, receipts, mishaps, faults>>

\* The request is lost, the API stops between two statements, or the UPDATE of
\* the payment throws, which the handler swallows.
LoseCall(c) ==
    /\ c \in calls
    /\ Mishap({c.job})
    /\ Answer(c)
    /\ UNCHANGED <<row, payment, asked, enqueueing, settings, knows, claiming, held, receipts>>

\* After fifteen seconds the agent goes on; the server does as well.
Timeout(c) ==
    /\ c \in calls /\ ~c.late
    /\ Mishap({c.job})
    /\ calls' = (calls \ {c}) \cup {[c EXCEPT !.late = TRUE]}
    /\ UNCHANGED <<row, payment, asked, enqueueing, settings, knows, claiming, held, receipts>>

-----------------------------------------------------------------------------
(* The settings pages.                                                     *)

SwitchPrinter ==
    /\ "switch" \in AdminOps
    /\ enabled' = ~enabled
    /\ UNCHANGED <<row, payment, asked, enqueueing, registered, cashier, knows, claiming, held,
                   calls, receipts, mishaps, faults>>

AssignCashier(b) ==
    /\ "assign" \in AdminOps /\ b \in registered
    /\ \E S \in {cashier \cup {b}, cashier \ {b}} : cashier' = S
    /\ UNCHANGED <<row, payment, asked, enqueueing, enabled, registered, knows, claiming, held,
                   calls, receipts, mishaps, faults>>

\* deletePrintBridge knows nothing of fiscal jobs: the foreign key takes the
\* bridge from them and leaves them dispatched to an owner no report matches.
DeleteBridge(b) ==
    /\ "delete" \in AdminOps /\ b \in registered
    /\ registered' = registered \ {b}
    /\ cashier' = cashier \ {b}
    /\ bridgeId' = [j \in Jobs |-> IF bridgeId[j] = b THEN Null ELSE bridgeId[j]]
    /\ LET hit == {j \in Jobs : bridgeId[j] = b /\ status[j] = "dispatched"}
       IN  IF hit = {} THEN NoMishap ELSE Mishap(hit)
    /\ UNCHANGED <<status, claimedBy, dispatchedAt, payment, asked, enqueueing, enabled, knows,
                   claiming, held, calls, receipts>>

\* The first heartbeat after a pairing; the cashier area is assigned later.
RegisterBridge(b) ==
    /\ "delete" \in AdminOps /\ b \notin registered
    /\ registered' = registered \cup {b}
    /\ UNCHANGED <<row, payment, asked, enqueueing, enabled, cashier, knows, claiming, held,
                   calls, receipts, mishaps, faults>>

-----------------------------------------------------------------------------
Enter(j) ==
    \/ \E p \in Payments : CloseTable(j, p)
    \/ EnqueueReceipt(j) \/ EnqueueLost(j) \/ RequestJob(j)

ClaimStep(a) == BeginClaim(a) \/ TakeClaim(a) \/ ClaimReplyLost(a) \/ EmptyClaim(a)

WorkOn(a, j) == Emit(a, j) \/ EmitErrs(a, j) \/ Refuse(a, j)

HandleCall(c) == CheckCall(c) \/ ApplyJob(c) \/ ApplyPayment(c)

Settings ==
    \/ SwitchPrinter
    \/ \E b \in Bridges : AssignCashier(b) \/ DeleteBridge(b) \/ RegisterBridge(b)

Next ==
    \/ \E j \in Jobs : Enter(j) \/ Age(j)
    \/ \E a \in Agents : ClaimStep(a) \/ AgentCrash(a) \/ Heartbeat(a)
    \/ \E a \in Agents, j \in Jobs : WorkOn(a, j)
    \/ \E c \in calls : HandleCall(c) \/ LoseCall(c) \/ Timeout(c)
    \/ Settings

Spec == Init /\ [][Next]_vars

\* The agents' ticker and loop, the API and PostgreSQL at work, time passing.
\* Claims come in no particular order; as long as no more rows are pending than an
\* agent asks for (five), every candidate that no other claim has locked is taken.
\* Nothing is assumed of operators or of faults.
Fairness ==
    /\ \A a \in Agents : /\ WF_vars(BeginClaim(a))
                         /\ WF_vars(TakeClaim(a) \/ EmptyClaim(a))
                         /\ WF_vars(\E j \in Jobs : WorkOn(a, j))
                         /\ \A j \in Jobs : SF_vars(TakeClaim(a) /\ j \in held'[a])
    /\ \A c \in Calls : WF_vars(HandleCall(c))
    /\ \A j \in Jobs : WF_vars(Age(j)) /\ WF_vars(EnqueueReceipt(j))

FairSpec == Spec /\ Fairness

-----------------------------------------------------------------------------
(* Properties.                                                             *)

\* A close that asked for a receipt gets a second one only if something went wrong
\* with the first, and no more receipts than such mishaps explain: lost claims and
\* reports, crashes, timeouts, batches longer than five minutes, a deleted bridge
\* (claimFiscalJobsForBridge, reclaimStaleFiscalClaims, processFiscalJob).  A payment
\* has a receipt for every close that named it: nothing compares their jobs.
ReceiptsExplained == \A j \in Receipts : receipts[j] <= 1 + mishaps[j]

\* A completed job has a receipt from the device behind it, and a payment shown as
\* emitted that of one of the closes that named it, whichever late or repeated
\* reports were applied (completeFiscalJob).
EmittedIsReal ==
    /\ \A j \in Jobs : status[j] = "completed" => receipts[j] > 0
    /\ \A p \in Payments : payment[p] = "emitted" => \E j \in ReceiptsFor(p) : receipts[j] > 0

\* A pending job is bound to no machine, so any cashier bridge may take it over,
\* and whoever is checked as owner was given the job through its own bridge
\* (reclaimStaleFiscalClaims, claimFiscalJobsForBridge, the foreign key).
OwnersReleased ==
    \A j \in Jobs :
      /\ status[j] = "pending" => claimedBy[j] = Null /\ bridgeId[j] = Null
      /\ claimedBy[j] = Null <=> dispatchedAt[j] = "none"
      /\ bridgeId[j] # Null => claimedBy[j] # Null /\ BridgeOf[claimedBy[j]] = bridgeId[j]

\* A job that has an outcome never goes back into the queue: no reclaim finds
\* it, and late reports only replace one outcome by the other.
SettledForGood ==
    [][\A j \in Jobs : status[j] \in Settled => status'[j] \in Settled]_vars

\* The queue implements the promise of CertifiedReceipts, whatever agents, late
\* and lost reports, restarts and the settings pages do.  Tests and closes are no
\* part of it.
Promise ==
    INSTANCE CertifiedReceipts
      WITH Requests <- Jobs,
           NoPayment <- Null,
           printed <- [j \in Jobs |-> IF j \in Receipts THEN receipts[j] ELSE 0],
           mishaps <- [j \in Jobs |-> IF j \in Receipts THEN mishaps[j] ELSE 0],
           outcome <- [j \in Jobs |-> IF j \in Receipts /\ status[j] \in Settled THEN status[j]
                                      ELSE "none"],
           shown <- [p \in Payments |->
                       IF payment[p] \in {"emitted", "failed"} THEN payment[p] ELSE "none"]

KeepsReceipts == Promise!Spec

Staffed(a) == BridgeOf[a] \in cashier /\ knows[a].cashier

\* As long as some cashier station stays in service, every receipt job gets an
\* outcome in spite of the faults (claimFiscalOnce, reclaimStaleFiscalClaims).
ReceiptsSettle ==
    \A a \in Agents : <>[]Staffed(a) =>
        \A j \in Jobs : j \in Receipts /\ status[j] # "absent" ~> status[j] \in Settled

\* Tests of the connection and end-of-day closes get an outcome as well.
ClosesSettle ==
    \A a \in Agents : <>[]Staffed(a) =>
        \A j \in Jobs : j \notin Receipts /\ status[j] # "absent" ~> status[j] \in Settled
=============================================================================
