------------------------------ MODULE BridgeControl ------------------------------
(***************************************************************************)
(* One-shot commands to a print bridge (scan the network, print a test,    *)
(* update the agent): one column of the bridge's row, handed out with the  *)
(* answers to heartbeats and emptied by an acknowledgement                 *)
(* (print-bridge.repository.ts, app.controller.ts); the Go agent that runs *)
(* them, its supervisor and its updater (agent.go, main.go, updater.go).   *)
(*                                                                         *)
(* A loop is one run of agent.go's Run.  The supervisor starts another     *)
(* when one fails, and also when an update cannot be launched: the loop it *)
(* has then goes on beside the new one.  An acknowledgement reads the      *)
(* column and empties it in two statements.                                *)
(***************************************************************************)
EXTENDS Naturals

CONSTANTS
    Commands,   \* what an admin asks for, each with an id of its own
    Updates,    \* those of type update; the others are scans and test prints
    NoCommand,
    MaxLoops,   \* bound on the loops that are ever started
    MaxFaults   \* bound on crashes, failures and lost calls

Loops == 1..MaxLoops

ASSUME CommandsAssumption == Updates \subseteq Commands /\ NoCommand \notin Commands
ASSUME BoundsAssumption == MaxLoops \in Nat \ {0} /\ MaxFaults \in Nat

VARIABLES
    command,    \* print_bridges.command
    clearing,   \* acknowledgements whose row has been read
    loops,      \* the loops that run in the agent's process
    started,    \* number of loops started so far, the last of them the current one
    last,       \* lastCommandID of a loop
    beat,       \* the heartbeat a loop waits for
    task,       \* the execution of a command by a loop
    staged,     \* loops whose updateStaged is set
    handed,     \* an update lies in updateReady
    newer,      \* the running program and the installed one are the new release
    attempts,   \* count of .update-attempt.json, never set back
    recent,     \* the last attempt is less than an hour ago
    faults,     \* number of faults, to bound them
    asked,      \* history: commands given so far
    replaced,   \* history: commands overwritten by one given later
    erased,     \* history: commands erased by an acknowledgement that had read another
    executed,   \* history: how often a loop has started to execute a command
    finished    \* history: commands of which an execution has ended

row == <<command, clearing>>
updater == <<attempts, recent>>
process == <<loops, started, handed, newer, updater, staged>>
agent == <<last, beat, task>>
history == <<asked, replaced, erased, executed, finished>>
vars == <<row, process, agent, faults, history>>

updateAttemptsPerWindow == 2

NoBeat == [at |-> "none"]
Beats ==
    {NoBeat, [at |-> "sent"]}
    \cup [at: {"answered"}, command: Commands \cup {NoCommand}]

Stages == {"none", "run", "ack"}

TypeOK ==
    /\ command \in Commands \cup {NoCommand}
    /\ clearing \subseteq [command: Commands, loop: Loops, seen: Commands]
    /\ started \in Loops
    /\ loops \subseteq 1..started /\ started \in loops
    /\ last \in [Loops -> Commands \cup {NoCommand}]
    /\ beat \in [Loops -> Beats]
    /\ task \in [Commands -> [Loops -> Stages]]
    /\ staged \subseteq Loops
    /\ handed \in BOOLEAN
    /\ newer \in [running: BOOLEAN, installed: BOOLEAN]
    /\ attempts \in Nat /\ recent \in BOOLEAN
    /\ faults \in 0..MaxFaults
    /\ asked \subseteq Commands /\ replaced \subseteq Commands
    /\ erased \subseteq Commands /\ finished \subseteq Commands
    /\ executed \in [Commands -> [Loops -> Nat]]

Init ==
    /\ command = NoCommand
    /\ clearing = {}
    /\ loops = {1} /\ started = 1
    /\ last = [l \in Loops |-> NoCommand]
    /\ beat = [l \in Loops |-> NoBeat]
    /\ task = [c \in Commands |-> [l \in Loops |-> "none"]]
    /\ staged = {} /\ handed = FALSE
    /\ newer = [running |-> FALSE, installed |-> FALSE]
    /\ attempts = 0 /\ recent = FALSE /\ faults = 0
    /\ asked = {} /\ replaced = {} /\ erased = {} /\ finished = {}
    /\ executed = [c \in Commands |-> [l \in Loops |-> 0]]

Fault ==
    /\ faults < MaxFaults
    /\ faults' = faults + 1

-----------------------------------------------------------------------------
(* Giving a command, and the heartbeats that carry it.                     *)

\* setBridgeCommand, whatever the column holds.
GiveCommand(c) ==
    /\ c \notin asked
    /\ command' = c
    /\ asked' = asked \cup {c}
    /\ replaced' = replaced \cup ({command} \ {NoCommand})
    /\ UNCHANGED <<clearing, process, agent, faults, erased, executed, finished>>

SendHeartbeat(l) ==
    /\ l \in loops /\ beat[l] = NoBeat
    /\ beat' = [beat EXCEPT ![l] = [at |-> "sent"]]
    /\ UNCHANGED <<row, process, last, task, faults, history>>

\* Mutant: a command is taken from the column when it is handed out.
AnswerEmptying(l) ==
    /\ beat[l].at = "sent"
    /\ beat' = [beat EXCEPT ![l] = [at |-> "answered", command |-> command]]
    /\ command' = NoCommand
    /\ UNCHANGED <<clearing, process, last, task, faults, history>>

\* getBridgeCommand
AnswerHeartbeat(l) ==
    /\ beat[l].at = "sent"
    /\ beat' = [beat EXCEPT ![l] = [at |-> "answered", command |-> command]]
    /\ UNCHANGED <<row, process, last, task, faults, history>>

\* The call fails or times out.
LoseHeartbeat(l) ==
    /\ beat[l] # NoBeat
    /\ beat' = [beat EXCEPT ![l] = NoBeat]
    /\ UNCHANGED <<row, process, last, task, faults, history>>

\* Mutant: a command is passed over only while it is being executed.
TakeUnlessRunning(l) ==
    LET c == beat[l].command
    IN  /\ beat[l].at = "answered"
        /\ beat' = [beat EXCEPT ![l] = NoBeat]
        /\ IF c = NoCommand \/ task[c][l] # "none"
             THEN UNCHANGED <<last, task, executed>>
             ELSE /\ last' = [last EXCEPT ![l] = c]
                  /\ task' = [task EXCEPT ![c][l] = "run"]
                  /\ executed' = [executed EXCEPT ![c][l] = @ + 1]
        /\ UNCHANGED <<row, process, faults, asked, replaced, erased, finished>>

\* maybeExecuteCommand: the id is noted first, the execution is a goroutine.
TakeAnswer(l) ==
    LET c == beat[l].command
    IN  /\ beat[l].at = "answered"
        /\ beat' = [beat EXCEPT ![l] = NoBeat]
        /\ IF c \in {NoCommand, last[l]}
             THEN UNCHANGED <<last, task, executed>>
             ELSE /\ last' = [last EXCEPT ![l] = c]
                  /\ task' = [task EXCEPT ![c][l] = "run"]
                  /\ executed' = [executed EXCEPT ![c][l] = @ + 1]
        /\ UNCHANGED <<row, process, faults, asked, replaced, erased, finished>>

-----------------------------------------------------------------------------
(* Executing a command and acknowledging it.                               *)

\* An execution goes from one stage to the next.
Moves(c, l, from, to) ==
    /\ task[c][l] = from
    /\ task' = [task EXCEPT ![c][l] = to]
    /\ UNCHANGED <<last, beat>>

Ends(c) ==
    /\ finished' = finished \cup {c}
    /\ UNCHANGED <<asked, replaced, erased, executed>>

\* A panic in the goroutine: there will be no acknowledgement.
Panic(c, l) ==
    /\ Moves(c, l, "run", "none")
    /\ Fault
    /\ UNCHANGED <<row, process, history>>

\* The network is scanned and the devices reported or not, a test ticket is printed or
\* not, an update finds nothing to stage: all are acknowledged.
Execute(c, l) ==
    /\ Moves(c, l, "run", "ack")
    /\ Ends(c)
    /\ UNCHANGED <<row, process, faults>>

\* checkForUpdate, when there is a release to stage that shouldSkipUpdateAttempt
\* does not hold back.
Stage(l) ==
    /\ ~newer.running /\ l \notin staged
    /\ attempts < updateAttemptsPerWindow \/ ~recent
    /\ attempts' = attempts + 1
    /\ recent' = TRUE
    /\ staged' = staged \cup {l}
    /\ handed' = TRUE

UpdateCommand(c, l) ==
    /\ c \in Updates
    /\ Moves(c, l, "run", "ack")
    /\ Ends(c)
    /\ Stage(l)
    /\ UNCHANGED <<row, loops, started, newer, faults>>

\* Mutant: what is acknowledged is not compared with what the column holds.
AcknowledgeAny(c, l) ==
    /\ Moves(c, l, "ack", "none")
    /\ clearing' = IF command = NoCommand THEN clearing
                     ELSE clearing \cup {[command |-> c, loop |-> l, seen |-> command]}
    /\ UNCHANGED <<command, process, faults, history>>

\* clearBridgeCommand, its SELECT.
Acknowledge(c, l) ==
    /\ Moves(c, l, "ack", "none")
    /\ clearing' = IF command # c THEN clearing
                     ELSE clearing \cup {[command |-> c, loop |-> l, seen |-> command]}
    /\ UNCHANGED <<command, process, faults, history>>

\* Its UPDATE, which asks for the bridge only.
Clear(a) ==
    /\ command' = NoCommand
    /\ erased' = erased \cup ({command} \ {a.seen, NoCommand})
    /\ clearing' = clearing \ {a}
    /\ UNCHANGED <<process, agent, faults, asked, replaced, executed, finished>>

\* The acknowledgement is sent once: a failure is only logged.
LoseAcknowledgement(c, l) ==
    /\ Moves(c, l, "ack", "none")
    /\ Fault
    /\ UNCHANGED <<row, process, history>>

-----------------------------------------------------------------------------
(* The agent's process.                                                    *)

\* At the start of a loop and every few hours.
CheckForUpdate(l) ==
    /\ l \in loops
    /\ Stage(l)
    /\ UNCHANGED <<row, loops, started, newer, agent, faults, history>>

\* An hour has gone by since the last attempt.  The count stays in the file, so from
\* the second attempt on there is one for every such hour.
WindowPasses ==
    /\ recent
    /\ Fault
    /\ recent' = FALSE
    /\ UNCHANGED <<row, loops, started, handed, newer, attempts, staged, agent, history>>

\* NewAgent: besides it, the loops of others go on.
StartLoop(others) ==
    /\ started < MaxLoops
    /\ started' = started + 1
    /\ loops' = others \cup {started + 1}

\* Mutant: a loop that fails is not started again.
LoopStaysDown(l) ==
    /\ l \in loops
    /\ Fault
    /\ loops' = loops \ {l}
    /\ beat' = [beat EXCEPT ![l] = NoBeat]
    /\ UNCHANGED <<row, started, handed, newer, updater, staged, last, task, history>>

\* The current loop fails and is started again; an earlier one is not missed.  The
\* goroutines of its commands go on.
LoopFails(l) ==
    /\ l \in loops
    /\ Fault
    /\ IF l = started THEN StartLoop(loops \ {l})
       ELSE loops' = loops \ {l} /\ UNCHANGED started
    /\ beat' = [beat EXCEPT ![l] = NoBeat]
    /\ UNCHANGED <<row, handed, newer, updater, staged, last, task, history>>

\* The process ends and another starts with the installed program.
NewProcess ==
    /\ StartLoop({})
    /\ beat' = [l \in Loops |-> NoBeat]
    /\ task' = [c \in Commands |-> [l \in Loops |-> "none"]]
    /\ staged' = {} /\ handed' = FALSE
    /\ UNCHANGED <<row, last, updater, history>>

\* A crash, a restart from the dashboard, or one by the watchdog.
Relaunch ==
    /\ Fault
    /\ NewProcess
    /\ newer' = [newer EXCEPT !.running = newer.installed]

\* launchUpdater succeeds and the process exits; the new one may find the program
\* replaced or not.
LaunchUpdate ==
    /\ handed
    /\ NewProcess
    /\ \E replacedOnDisk \in {TRUE, newer.installed} :
         newer' = [running |-> replacedOnDisk, installed |-> replacedOnDisk]
    /\ UNCHANGED faults

\* launchUpdater fails, before or after it has replaced the program: the supervisor
\* goes round its loop and starts an agent, without having stopped the one it has.
LaunchFails ==
    /\ handed
    /\ Fault
    /\ StartLoop(loops)
    /\ handed' = FALSE
    /\ staged' = staged \ {started}
    /\ \E replacedOnDisk \in {TRUE, newer.installed} :
         newer' = [newer EXCEPT !.installed = replacedOnDisk]
    /\ UNCHANGED <<row, updater, agent, history>>

-----------------------------------------------------------------------------
Heartbeats ==
    \E l \in Loops :
      SendHeartbeat(l) \/ AnswerHeartbeat(l) \/ LoseHeartbeat(l) \/ TakeAnswer(l)

Execution ==
    \/ \E c \in Commands, l \in Loops :
         \/ Panic(c, l) \/ Execute(c, l) \/ UpdateCommand(c, l)
         \/ Acknowledge(c, l) \/ LoseAcknowledgement(c, l)
    \/ \E a \in clearing : Clear(a)

Process ==
    \/ \E l \in Loops : CheckForUpdate(l) \/ LoopFails(l)
    \/ WindowPasses \/ Relaunch \/ LaunchUpdate \/ LaunchFails

Next == Heartbeats \/ Execution \/ Process \/ \E c \in Commands : GiveCommand(c)

Spec == Init /\ [][Next]_vars

\* A loop that runs sends its heartbeats, and not all of them are lost.
Fairness ==
    \A l \in Loops : /\ WF_vars(SendHeartbeat(l))
                     /\ SF_vars(AnswerHeartbeat(l))
                     /\ SF_vars(TakeAnswer(l))

FairSpec == Spec /\ Fairness

-----------------------------------------------------------------------------
(* Properties.                                                             *)

\* However often a command is handed out, and whichever others come between, a loop
\* executes it once (agent.go, lastCommandID).
RunsOncePerLoop == \A c \in Commands, l \in Loops : executed[c][l] <= 1

\* A command that was given is still in the column, has been executed to its end, was
\* overwritten by a later one, or was erased by the one acknowledgement that had read
\* the column before (print-bridge.repository.ts, clearBridgeCommand).
NoCommandDropped ==
    \A c \in asked : command = c \/ c \in finished \cup replaced \cup erased

\* A command in the column is executed unless another takes its place, although
\* answers are lost and loops come and go (agent.go, Run).
CommandsArrive ==
    \A c \in Commands :
      command = c ~> \/ \E l \in Loops : executed[c][l] > 0
                     \/ c \in replaced \cup erased
=============================================================================
