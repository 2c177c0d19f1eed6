----------------------------- MODULE PrintQueue -----------------------------
(***************************************************************************)
(* The print queue of GustoPOS: rows of print_jobs in PostgreSQL, the      *)
(* bridges that claim them (the Go agent and the browser BridgeWorker), the *)
(* legacy print-station page that polls them, and the operator commands of *)
(* Settings -> Stampa.  A row is written by single SQL statements, so one  *)
(* statement is one step; a handler that reads and then writes is two.      *)
(*                                                                         *)
(* A row goes round the queue more than once: reclaim, retry and bridge    *)
(* deletion make it pending again.  The history variable round[j] counts   *)
(* those rounds, and a hand-out of the row is the pair <<j, round>>: it is *)
(* what the properties about duplicate tickets speak of.                   *)
(***************************************************************************)
EXTENDS Naturals, FiniteSets

CONSTANTS
    Jobs,          \* identities of print_jobs rows
    Areas,         \* print stations (print_jobs.area)
    Bridges,       \* ids of print_bridges rows
    Agents,        \* machines that claim: one x-bridge-instance-id each
    BrowserAgents, \* the agents that are the web BridgeWorker
    Station,       \* the print-station page
    StationAreas,  \* areas the page polls; {} when it is not used
    AreaOf,        \* AreaOf[j]: station the ticket is for
    BridgeOf,      \* BridgeOf[a]: the bridge id agent a is configured with
    Null,
    Limit,         \* jobs per claim
    AdminOps,      \* operator commands in use
    MaxRound,      \* bound on rounds of one row through the queue
    MaxFaults      \* bound on crashes, lost calls, deferrals, overlong prints

ASSUME AreaOfAssumption == AreaOf \in [Jobs -> Areas]
ASSUME BridgeOfAssumption == BridgeOf \in [Agents -> Bridges]
ASSUME NullAssumption == Null \notin Bridges /\ Null \notin Agents
ASSUME StationAssumption == Station \notin Agents
ASSUME SetsAssumption == BrowserAgents \subseteq Agents /\ StationAreas \subseteq Areas
ASSUME BoundsAssumption == MaxRound \in Nat \ {0} /\ MaxFaults \in Nat /\ Limit \in Nat \ {0}

VARIABLES
    status,        \* print_jobs.status, "absent" before the row is inserted
    bridgeId,      \* print_jobs.bridge_id
    claimedBy,     \* print_jobs.claimed_by_instance_id
    claimedAt,     \* print_jobs.claimed_at relative to now - 5 minutes
    dispatchedAt,  \* whether print_jobs.dispatched_at is set
    registered,    \* ids with a print_bridges row
    queueAreas,    \* areas a bridge row may claim from
    claiming,      \* agents whose claim has reclaimed but not yet selected
    held,          \* hand-outs in the memory of an agent or of the station page
    calls,         \* complete and fail calls under way
    dispatching,   \* manual dispatches whose last UPDATE is still to come
    round,         \* history: times the row was made pending
    copies,        \* history: tickets on paper per hand-out
    vouched,       \* history: rows an operator printed by hand or declared done
    faults         \* history: faults so far, to bound them

row == <<status, bridgeId, claimedBy, claimedAt, dispatchedAt>>
tables == <<registered, queueAreas>>
vars == <<row, tables, claiming, held, calls, dispatching,
          round, copies, vouched, faults>>

Rounds == 1..MaxRound
HandOuts == Jobs \X Rounds
Holders == Agents \cup {Station}
Calls == [op: {"complete", "fail"}, handOut: HandOuts, by: Agents, checked: BOOLEAN]

TypeOK ==
    /\ status \in [Jobs -> {"absent", "pending", "dispatched", "completed", "failed"}]
    /\ bridgeId \in [Jobs -> Bridges \cup {Null}]
    /\ claimedBy \in [Jobs -> Agents \cup {Null}]
    /\ claimedAt \in [Jobs -> {"none", "fresh", "stale"}]
    /\ dispatchedAt \in [Jobs -> BOOLEAN]
    /\ registered \subseteq Bridges
    /\ queueAreas \in [Bridges -> SUBSET Areas]
    /\ claiming \subseteq Agents
    /\ held \in [Holders -> SUBSET HandOuts]
    /\ calls \subseteq Calls
    /\ dispatching \subseteq Jobs \X {"ok", "error"}
    /\ round \in [Jobs -> Rounds]
    /\ copies \in [Jobs -> [Rounds -> Nat]]
    /\ vouched \subseteq Jobs
    /\ faults \in 0..MaxFaults

Init ==
    /\ status = [j \in Jobs |-> "absent"]
    /\ bridgeId = [j \in Jobs |-> Null]
    /\ claimedBy = [j \in Jobs |-> Null]
    /\ claimedAt = [j \in Jobs |-> "none"]
    /\ dispatchedAt = [j \in Jobs |-> FALSE]
    /\ registered = Bridges
    /\ queueAreas = [b \in Bridges |-> Areas]
    /\ claiming = {}
    /\ held = [h \in Holders |-> {}]
    /\ calls = {}
    /\ dispatching = {}
    /\ round = [j \in Jobs |-> 1]
    /\ copies = [j \in Jobs |-> [g \in Rounds |-> 0]]
    /\ vouched = {}
    /\ faults = 0

Fault == faults < MaxFaults /\ faults' = faults + 1

\* The jobs of S go back to the queue for another round.
Requeue(S) ==
    /\ \A j \in S : round[j] < MaxRound
    /\ round' = [j \in Jobs |-> IF j \in S THEN round[j] + 1 ELSE round[j]]

\* Mutant: the owner is left in place.
ReleaseKeepsOwner(S) ==
    /\ status' = [j \in Jobs |-> IF j \in S THEN "pending" ELSE status[j]]
    /\ claimedAt' = [j \in Jobs |-> IF j \in S THEN "none" ELSE claimedAt[j]]
    /\ UNCHANGED claimedBy
    /\ Requeue(S)

\* Reclaim and bridge deletion free the rows of S.
Release(S) ==
    /\ status' = [j \in Jobs |-> IF j \in S THEN "pending" ELSE status[j]]
    /\ claimedBy' = [j \in Jobs |-> IF j \in S THEN Null ELSE claimedBy[j]]
    /\ claimedAt' = [j \in Jobs |-> IF j \in S THEN "none" ELSE claimedAt[j]]
    /\ Requeue(S)

OnPaper(j) == \E g \in Rounds : copies[j][g] > 0

-----------------------------------------------------------------------------
(* Rows enter the queue.                                                   *)

\* createPrintJobsForOrder, the pre-bill and the close receipt: unbound rows.
CreateJob(j) ==
    /\ status[j] = "absent"
    /\ status' = [status EXCEPT ![j] = "pending"]
    /\ UNCHANGED <<bridgeId, claimedBy, claimedAt, dispatchedAt, tables, claiming,
                   held, calls, dispatching, round, copies, vouched, faults>>

\* "Test stampa": the row is bound to one bridge from the start.
CreateTestJob(j, b) ==
    /\ "test" \in AdminOps
    /\ status[j] = "absent" /\ b \in registered
    /\ status' = [status EXCEPT ![j] = "pending"]
    /\ bridgeId' = [bridgeId EXCEPT ![j] = b]
    /\ UNCHANGED <<claimedBy, claimedAt, dispatchedAt, tables, claiming,
                   held, calls, dispatching, round, copies, vouched, faults>>

-----------------------------------------------------------------------------
(* Claim: reclaimStalePrintJobClaims, then the SELECT ... SKIP LOCKED and  *)
(* UPDATE transaction.                                                     *)

\* Mutant: staleness judged by a column that claims do not set.
StaleByDispatchedAt == {j \in Jobs : status[j] = "dispatched" /\ dispatchedAt[j]
                                       /\ round[j] < MaxRound}

\* Rows whose claim is older than five minutes; MaxRound bounds their rounds.
StaleJobs == {j \in Jobs : status[j] = "dispatched" /\ claimedAt[j] = "stale"
                             /\ round[j] < MaxRound}

\* The Go agent claims when the last batch is through; the browser's interval
\* timer fires whether or not the previous tick is still printing.
BeginClaim(a) ==
    /\ a \notin claiming
    /\ a \in BrowserAgents \/ held[a] = {}
    /\ claiming' = claiming \cup {a}
    /\ Release(StaleJobs)
    /\ bridgeId' = [j \in Jobs |-> IF j \in StaleJobs THEN Null ELSE bridgeId[j]]
    /\ UNCHANGED <<dispatchedAt, tables, held, calls, dispatching, copies, vouched, faults>>

\* Mutant: the status condition is missing from the candidate query.
CandidatesOfAnyStatus(b) == {j \in Jobs : /\ b \in registered
                                          /\ status[j] \in {"pending", "dispatched"}
                                          /\ bridgeId[j] \in {Null, b}
                                          /\ AreaOf[j] \in queueAreas[b]}

Candidates(b) == {j \in Jobs : /\ b \in registered
                               /\ status[j] = "pending"
                               /\ bridgeId[j] \in {Null, b}
                               /\ AreaOf[j] \in queueAreas[b]}

\* The rows of S become dispatched, owned by a.
MarkClaimed(S, a) ==
    /\ status' = [j \in Jobs |-> IF j \in S THEN "dispatched" ELSE status[j]]
    /\ bridgeId' = [j \in Jobs |-> IF j \in S THEN BridgeOf[a] ELSE bridgeId[j]]
    /\ claimedBy' = [j \in Jobs |-> IF j \in S THEN a ELSE claimedBy[j]]
    /\ claimedAt' = [j \in Jobs |-> IF j \in S THEN "fresh" ELSE claimedAt[j]]

\* Which rows SKIP LOCKED leaves to other transactions is not determined.
Claimable(a) == {S \in SUBSET Candidates(BridgeOf[a]) : S # {} /\ Cardinality(S) <= Limit}

HandOutsOf(S) == {<<j, round[j]>> : j \in S}

TakeClaim(a) ==
    /\ a \in claiming
    /\ \E S \in Claimable(a) :
         /\ MarkClaimed(S, a)
         /\ held' = [held EXCEPT ![a] = @ \cup HandOutsOf(S)]
    /\ claiming' = claiming \ {a}
    /\ UNCHANGED <<dispatchedAt, tables, calls, dispatching, round, copies, vouched, faults>>

\* The transaction commits and the response never reaches the agent.
ClaimReplyLost(a) ==
    /\ a \in claiming
    /\ Fault
    /\ \E S \in Claimable(a) : MarkClaimed(S, a)
    /\ claiming' = claiming \ {a}
    /\ UNCHANGED <<dispatchedAt, tables, held, calls, dispatching, round, copies, vouched>>

\* No row of print_bridges, no area, or nothing pending: the answer is [].
EmptyClaim(a) ==
    /\ a \in claiming /\ Candidates(BridgeOf[a]) = {}
    /\ claiming' = claiming \ {a}
    /\ UNCHANGED <<row, tables, held, calls, dispatching, round, copies, vouched, faults>>

AtWork(t) == (\E a \in Agents : t \in held[a]) \/ (\E c \in calls : c.handOut = t)

\* now - 5 minutes passes claimed_at.  An agent that has not reported by then
\* (ten jobs of up to thirty seconds each, a suspended laptop) is a fault.
Age(j) ==
    /\ claimedAt[j] = "fresh"
    /\ claimedAt' = [claimedAt EXCEPT ![j] = "stale"]
    /\ IF AtWork(<<j, round[j]>>) THEN Fault ELSE UNCHANGED faults
    /\ UNCHANGED <<status, bridgeId, claimedBy, dispatchedAt, tables, claiming, held,
                   calls, dispatching, round, copies, vouched>>

-----------------------------------------------------------------------------
(* An agent works through its batch.                                       *)

Drop(h, t) == held' = [held EXCEPT ![h] = @ \ {t}]

PutOnPaper(t) == copies' = [copies EXCEPT ![t[1]][t[2]] = @ + 1]

Call(a, t, op) == [op |-> op, handOut |-> t, by |-> a, checked |-> FALSE]

JobOf(c) == c.handOut[1]

\* The ticket is on paper and the complete call leaves the machine.
AgentPrint(a, t) ==
    /\ t \in held[a]
    /\ Drop(a, t)
    /\ PutOnPaper(t)
    /\ calls' = calls \cup {Call(a, t, "complete")}
    /\ UNCHANGED <<row, tables, claiming, dispatching, round, vouched, faults>>

\* No printer mapping, or the print returned an error, which does not say that
\* nothing came out: the write deadline and QZ's reply time out too.
AgentFail(a, t) ==
    /\ t \in held[a]
    /\ Drop(a, t)
    /\ UNCHANGED copies \/ PutOnPaper(t)
    /\ calls' = calls \cup {Call(a, t, "fail")}
    /\ UNCHANGED <<row, tables, claiming, dispatching, round, vouched, faults>>

\* Mutant: a deferred job is reported complete.
DeferReportsComplete(a, t) ==
    /\ t \in held[a] /\ a \notin BrowserAgents
    /\ Fault
    /\ Drop(a, t)
    /\ calls' = calls \cup {Call(a, t, "complete")}
    /\ UNCHANGED <<row, tables, claiming, dispatching, round, copies, vouched>>

\* QZ Tray is down: the Go agent skips the job and leaves it dispatched.
AgentDefer(a, t) ==
    /\ t \in held[a] /\ a \notin BrowserAgents
    /\ Fault
    /\ Drop(a, t)
    /\ UNCHANGED <<row, tables, claiming, calls, dispatching, round, copies, vouched>>

\* The machine restarts: batch and claim under way are gone, its identity is not.
AgentCrash(a) ==
    /\ Fault
    /\ held' = [held EXCEPT ![a] = {}]
    /\ claiming' = claiming \ {a}
    /\ UNCHANGED <<row, tables, calls, dispatching, round, copies, vouched>>

-----------------------------------------------------------------------------
(* completeBridgeJob and failBridgeJob: a SELECT that checks the owner,    *)
(* then an UPDATE by id alone.                                             *)

Owns(a, j) == claimedBy[j] = a /\ bridgeId[j] = BridgeOf[a]

CheckCall(c) ==
    /\ c \in calls /\ ~c.checked
    /\ calls' = (calls \ {c}) \cup
                  (IF Owns(c.by, JobOf(c)) THEN {[c EXCEPT !.checked = TRUE]} ELSE {})
    /\ UNCHANGED <<row, tables, claiming, held, dispatching, round, copies, vouched, faults>>

\* Mutant: a status the print_jobs contract does not know.
OutcomeAsPrinted(op) == IF op = "complete" THEN "printed" ELSE "failed"

Outcome(op) == IF op = "complete" THEN "completed" ELSE "failed"

ApplyCall(c) ==
    /\ c \in calls /\ c.checked
    /\ status' = [status EXCEPT ![JobOf(c)] = Outcome(c.op)]
    /\ calls' = calls \ {c}
    /\ UNCHANGED <<bridgeId, claimedBy, claimedAt, dispatchedAt, tables, claiming,
                   held, dispatching, round, copies, vouched, faults>>

\* The request is lost, or the API stops between the two statements.
LoseCall(c) ==
    /\ c \in calls
    /\ Fault
    /\ calls' = calls \ {c}
    /\ UNCHANGED <<row, tables, claiming, held, dispatching, round, copies, vouched>>

\* BridgeWorker reports a fail when its complete call throws, although the
\* ticket is on paper and the server may still be handling the call.
BrowserCompleteThrows(c) ==
    /\ c \in calls /\ c.op = "complete" /\ c.by \in BrowserAgents
    /\ Fault
    /\ \E rest \in {calls, calls \ {c}} :
         calls' = rest \cup {Call(c.by, c.handOut, "fail")}
    /\ UNCHANGED <<row, tables, claiming, held, dispatching, round, copies, vouched>>

-----------------------------------------------------------------------------
(* The print-station page: GET print-jobs/poll, print, report errors only. *)

Pollable == {j \in Jobs : status[j] = "pending" /\ AreaOf[j] \in StationAreas}

\* Mutant: the poll forgets dispatched_at.
MarkPolledUndated ==
    /\ Pollable # {}
    /\ status' = [j \in Jobs |-> IF j \in Pollable THEN "dispatched" ELSE status[j]]
    /\ UNCHANGED dispatchedAt

\* pollPrintJobs: claim columns stay as they were.  The page does not poll
\* while it is still printing.
MarkPolled ==
    /\ Pollable # {}
    /\ status' = [j \in Jobs |-> IF j \in Pollable THEN "dispatched" ELSE status[j]]
    /\ dispatchedAt' = [j \in Jobs |-> j \in Pollable \/ dispatchedAt[j]]

StationPoll ==
    /\ held[Station] = {}
    /\ MarkPolled
    /\ held' = [held EXCEPT ![Station] = @ \cup HandOutsOf(Pollable)]
    /\ UNCHANGED <<bridgeId, claimedBy, claimedAt, tables, claiming, calls,
                   dispatching, round, copies, vouched, faults>>

StationPollReplyLost ==
    /\ held[Station] = {}
    /\ MarkPolled
    /\ Fault
    /\ UNCHANGED <<bridgeId, claimedBy, claimedAt, tables, claiming, held, calls,
                   dispatching, round, copies, vouched>>

StationPrint(t) ==
    /\ t \in held[Station]
    /\ Drop(Station, t)
    /\ PutOnPaper(t)
    /\ UNCHANGED <<row, tables, claiming, calls, dispatching, round, vouched, faults>>

\* Best effort: the page ignores an error of its own fail report.
StationFail(t) ==
    /\ t \in held[Station]
    /\ Drop(Station, t)
    /\ UNCHANGED copies \/ PutOnPaper(t)
    /\ \/ /\ status' = [status EXCEPT ![t[1]] = "failed"]
          /\ UNCHANGED faults
       \/ Fault /\ UNCHANGED status
    /\ UNCHANGED <<bridgeId, claimedBy, claimedAt, dispatchedAt, tables, claiming,
                   calls, dispatching, round, vouched>>

\* The page is closed or reloaded.
StationReload ==
    /\ held[Station] # {}
    /\ Fault
    /\ held' = [held EXCEPT ![Station] = {}]
    /\ UNCHANGED <<row, tables, claiming, calls, dispatching, round, copies, vouched>>

-----------------------------------------------------------------------------
(* Operator commands.                                                      *)

Operator(op, j) == op \in AdminOps /\ status[j] # "absent"

SetStatus(j, s) == status' = [status EXCEPT ![j] = s]

FailJob(j) ==
    /\ Operator("fail", j)
    /\ SetStatus(j, "failed")
    /\ UNCHANGED <<bridgeId, claimedBy, claimedAt, dispatchedAt, tables, claiming,
                   held, calls, dispatching, round, copies, vouched, faults>>

CompleteJob(j) ==
    /\ Operator("complete", j)
    /\ status[j] \in {"pending", "dispatched"}
    /\ SetStatus(j, "completed")
    /\ dispatchedAt' = [dispatchedAt EXCEPT ![j] = TRUE]
    /\ vouched' = vouched \cup {j}
    /\ UNCHANGED <<bridgeId, claimedBy, claimedAt, tables, claiming,
                   held, calls, dispatching, round, copies, faults>>

ConfirmJob(j) ==
    /\ Operator("confirm", j)
    /\ status[j] = "dispatched"
    /\ SetStatus(j, "completed")
    /\ vouched' = vouched \cup {j}
    /\ UNCHANGED <<bridgeId, claimedBy, claimedAt, dispatchedAt, tables, claiming,
                   held, calls, dispatching, round, copies, faults>>

\* Mutant: retry accepts any row.
RetryAnyJob(j) ==
    /\ Operator("retry", j)
    /\ SetStatus(j, "pending")
    /\ dispatchedAt' = [dispatchedAt EXCEPT ![j] = FALSE]
    /\ Requeue({j})
    /\ UNCHANGED <<bridgeId, claimedBy, claimedAt, tables, claiming,
                   held, calls, dispatching, copies, vouched, faults>>

\* The claim columns survive a retry: the row stays bound to its bridge.
RetryJob(j) ==
    /\ Operator("retry", j)
    /\ status[j] \in {"failed", "dispatched"}
    /\ SetStatus(j, "pending")
    /\ dispatchedAt' = [dispatchedAt EXCEPT ![j] = FALSE]
    /\ Requeue({j})
    /\ UNCHANGED <<bridgeId, claimedBy, claimedAt, tables, claiming,
                   held, calls, dispatching, copies, vouched, faults>>

\* Manual dispatch: read the row, POST it to the local print bridge ...
DispatchSend(j) ==
    /\ Operator("dispatch", j)
    /\ \/ /\ dispatching' = dispatching \cup {<<j, "ok">>}
          /\ vouched' = vouched \cup {j}
       \/ /\ dispatching' = dispatching \cup {<<j, "error">>}
          /\ UNCHANGED vouched
    /\ UNCHANGED <<row, tables, claiming, held, calls, round, copies, faults>>

\* ... then record the outcome, whatever the row has become meanwhile.
DispatchWrite(d) ==
    /\ d \in dispatching
    /\ dispatching' = dispatching \ {d}
    /\ SetStatus(d[1], IF d[2] = "ok" THEN "dispatched" ELSE "failed")
    /\ dispatchedAt' = [dispatchedAt EXCEPT ![d[1]] = @ \/ d[2] = "ok"]
    /\ UNCHANGED <<bridgeId, claimedBy, claimedAt, tables, claiming, held, calls,
                   round, copies, vouched, faults>>

\* The API stops before it records the outcome.
DispatchLost(d) ==
    /\ d \in dispatching
    /\ Fault
    /\ dispatching' = dispatching \ {d}
    /\ UNCHANGED <<row, tables, claiming, held, calls, round, copies, vouched>>

\* deletePrintBridge: one transaction that requeues the live rows and deletes
\* the bridge, whose foreign key clears bridge_id of the others.  The late rows
\* were claimed or retried after its first UPDATE.
LiveJobsOf(b) == {j \in Jobs : bridgeId[j] = b /\ status[j] \in {"pending", "dispatched"}}

LateJobsOf(b) == {j \in LiveJobsOf(b) : status[j] = "pending" \/ claimedAt[j] = "fresh"}

DeleteBridge(b) ==
    /\ "delete" \in AdminOps /\ b \in registered
    /\ registered' = registered \ {b}
    /\ \E late \in SUBSET LateJobsOf(b) : Release(LiveJobsOf(b) \ late)
    /\ bridgeId' = [j \in Jobs |-> IF bridgeId[j] = b THEN Null ELSE bridgeId[j]]
    /\ UNCHANGED <<dispatchedAt, queueAreas, claiming, held, calls, dispatching,
                   copies, vouched, faults>>

\* First heartbeat after a new pairing inserts the row.  Its areas follow in
\* AssignAreas: the admin's assignment, or what a browser bridge reports.
RegisterBridge(b) ==
    /\ "delete" \in AdminOps /\ b \notin registered
    /\ registered' = registered \cup {b}
    /\ queueAreas' = [queueAreas EXCEPT ![b] = {}]
    /\ UNCHANGED <<row, claiming, held, calls, dispatching, round, copies, vouched, faults>>

AssignAreas(b, S) ==
    /\ "assign" \in AdminOps /\ b \in registered
    /\ queueAreas' = [queueAreas EXCEPT ![b] = S]
    /\ UNCHANGED <<row, registered, claiming, held, calls, dispatching, round, copies,
                   vouched, faults>>

-----------------------------------------------------------------------------
ClaimStep(a) == BeginClaim(a) \/ TakeClaim(a) \/ ClaimReplyLost(a) \/ EmptyClaim(a)

AgentStep(a) ==
    \/ AgentCrash(a)
    \/ \E t \in held[a] : AgentPrint(a, t) \/ AgentFail(a, t) \/ AgentDefer(a, t)

CallStep ==
    \E c \in calls : CheckCall(c) \/ ApplyCall(c) \/ LoseCall(c) \/ BrowserCompleteThrows(c)

StationStep ==
    \/ StationPoll \/ StationPollReplyLost \/ StationReload
    \/ \E t \in held[Station] : StationPrint(t) \/ StationFail(t)

OperatorStep ==
    \/ \E j \in Jobs : FailJob(j) \/ CompleteJob(j) \/ ConfirmJob(j) \/ RetryJob(j) \/ DispatchSend(j)
    \/ \E d \in dispatching : DispatchWrite(d) \/ DispatchLost(d)
    \/ \E b \in Bridges : DeleteBridge(b) \/ RegisterBridge(b)
    \/ \E b \in Bridges, S \in SUBSET Areas : AssignAreas(b, S)

Next ==
    \/ \E j \in Jobs : CreateJob(j) \/ Age(j) \/ \E b \in Bridges : CreateTestJob(j, b)
    \/ \E a \in Agents : ClaimStep(a) \/ AgentStep(a)
    \/ CallStep
    \/ StationStep
    \/ OperatorStep

Spec == Init /\ [][Next]_vars

\* The agents' three-second ticker and single loop, PostgreSQL answering, time
\* passing.  Nothing is assumed of operators, of the station page or of faults.
Fairness ==
    /\ \A a \in Agents : /\ WF_vars(BeginClaim(a))
                         /\ WF_vars(TakeClaim(a) \/ EmptyClaim(a))
                         /\ WF_vars(\E t \in held[a] : AgentPrint(a, t) \/ AgentFail(a, t))
    /\ WF_vars(\E c \in calls : CheckCall(c) \/ ApplyCall(c))
    /\ \A j \in Jobs : WF_vars(Age(j))

FairSpec == Spec /\ Fairness

-----------------------------------------------------------------------------
(* Properties.                                                             *)

\* A round of a row through the queue puts at most one ticket on paper: two
\* agents, an agent and the station page, or one agent twice, never print the
\* same hand-out.  Every second copy has a reclaim, a retry or a bridge
\* deletion behind it (claimPrintJobsForBridge, pollPrintJobs).
OneCopyPerRound == \A j \in Jobs, g \in Rounds : copies[j][g] <= 1

\* No ticket is closed unprinted: a completed row is on paper, or an operator
\* printed it by hand or declared it done, whatever late, lost, repeated or
\* misdirected reports arrive (processJob, completeBridgeJob).
CompletedOnPaper ==
    \A j \in Jobs : status[j] = "completed" => OnPaper(j) \/ j \in vouched

\* The two columns completeBridgeJob compares never disagree with each other,
\* and a claim time stands beside every claim: an owner is never locked out of
\* its own row by a half-updated one.
OwnerColumnsAgree ==
    \A j \in Jobs :
      /\ claimedBy[j] = Null <=> claimedAt[j] = "none"
      /\ claimedBy[j] # Null /\ bridgeId[j] # Null => BridgeOf[claimedBy[j]] = bridgeId[j]

\* Every dispatched row carries a time from which its age could be judged.
\* reclaimStalePrintJobClaims judges by claimed_at only, the fiscal queue's
\* reclaim also knows rows without it.
EveryDispatchDated ==
    \A j \in Jobs : status[j] = "dispatched" => claimedAt[j] # "none" \/ dispatchedAt[j]

\* A row an agent may claim ends up completed or failed in spite of crashes,
\* lost replies, lost reports and QZ Tray hiccups, because an unreported claim
\* goes stale and is reclaimed.
QueueDrains ==
    \A j \in Jobs : status[j] # "absent" ~> status[j] \in {"completed", "failed"}

\* Every behaviour of the queue keeps the promise of TicketDelivery: copies are
\* printed only for rounds asked for and once each, closed tickets are on paper
\* or vouched for, and no closed ticket goes back to the queue by itself.
Delivery == INSTANCE TicketDelivery WITH
    asked <- [j \in Jobs |-> IF status[j] = "absent" THEN 0 ELSE round[j]],
    closed <- {j \in Jobs : status[j] = "completed"}

KeepsDelivery == Delivery!Spec
=============================================================================
