-------------------------- MODULE BridgeControlProofs --------------------------
(***************************************************************************)
(* Proofs about BridgeControl: its types, that a loop executes a command   *)
(* once, and that no command is lost from sight, for any commands and any  *)
(* number of loops and faults.                                             *)
(***************************************************************************)
EXTENDS BridgeControl, TLAPS

USE CommandsAssumption, BoundsAssumption DEF updater

-----------------------------------------------------------------------------
(* Types.                                                                  *)

LEMMA AnswerTypes ==
    ASSUME TypeOK, NEW l \in Loops, beat[l].at = "answered"
    PROVE  beat[l].command \in Commands \cup {NoCommand}
BY DEF TypeOK, Beats, NoBeat

LEMMA BeatTypes ==
    ASSUME TypeOK, NEW l \in Loops, NEW b \in Beats, beat' = [beat EXCEPT ![l] = b]
    PROVE  beat' \in [Loops -> Beats]
BY DEF TypeOK

LEMMA BeatMembers ==
    /\ NoBeat \in Beats
    /\ [at |-> "sent"] \in Beats
    /\ \A c \in Commands \cup {NoCommand} : [at |-> "answered", command |-> c] \in Beats
BY DEF Beats

LEMMA MoveTypes ==
    ASSUME TypeOK, NEW c \in Commands, NEW l \in Loops, NEW from, NEW to \in Stages,
           Moves(c, l, from, to)
    PROVE  task' \in [Commands -> [Loops -> Stages]]
BY DEF TypeOK, Moves

LEMMA StageTypes ==
    ASSUME TypeOK, NEW l \in Loops, Stage(l)
    PROVE  /\ attempts' \in Nat /\ recent' \in BOOLEAN
           /\ staged' \subseteq Loops
           /\ handed' \in BOOLEAN
BY DEF TypeOK, Stage

LEMMA FaultTypes == TypeOK /\ Fault => faults' \in 0..MaxFaults
BY DEF TypeOK, Fault

LEMMA StartTypes ==
    ASSUME TypeOK, NEW others \in SUBSET loops, StartLoop(others)
    PROVE  /\ started' \in Loops
           /\ loops' \subseteq 1..started' /\ started' \in loops'
BY DEF TypeOK, StartLoop, Loops

LEMMA HeartbeatTypes == TypeOK /\ Heartbeats => TypeOK'
<1> SUFFICES ASSUME TypeOK, NEW l \in Loops,
                    \/ SendHeartbeat(l) \/ AnswerHeartbeat(l) \/ LoseHeartbeat(l)
                    \/ TakeAnswer(l)
             PROVE  TypeOK'
  BY DEF Heartbeats
<1>1. ASSUME SendHeartbeat(l) PROVE TypeOK'
  <2>1. beat' \in [Loops -> Beats]
    BY <1>1, BeatTypes, BeatMembers DEF SendHeartbeat
  <2> QED
    BY <1>1, <2>1 DEF SendHeartbeat, TypeOK, row, process, history
<1>2. ASSUME AnswerHeartbeat(l) PROVE TypeOK'
  <2>1. [at |-> "answered", command |-> command] \in Beats
    BY BeatMembers DEF TypeOK
  <2>2. beat' \in [Loops -> Beats]
    BY <1>2, <2>1, BeatTypes DEF AnswerHeartbeat
  <2> QED
    BY <1>2, <2>2 DEF AnswerHeartbeat, TypeOK, row, process, history
<1>3. ASSUME LoseHeartbeat(l) PROVE TypeOK'
  <2>1. beat' \in [Loops -> Beats]
    BY <1>3, BeatTypes, BeatMembers DEF LoseHeartbeat
  <2> QED
    BY <1>3, <2>1 DEF LoseHeartbeat, TypeOK, row, process, history
<1>4. ASSUME TakeAnswer(l) PROVE TypeOK'
  <2>1. beat' \in [Loops -> Beats]
    BY <1>4, BeatTypes, BeatMembers DEF TakeAnswer
  <2>2. beat[l].command \in Commands \cup {NoCommand}
    BY <1>4, AnswerTypes DEF TakeAnswer
  <2>3. /\ last' \in [Loops -> Commands \cup {NoCommand}]
        /\ task' \in [Commands -> [Loops -> Stages]]
        /\ executed' \in [Commands -> [Loops -> Nat]]
    <3>1. CASE beat[l].command \in {NoCommand, last[l]}
      BY <1>4, <3>1 DEF TakeAnswer, TypeOK
    <3>2. CASE beat[l].command \notin {NoCommand, last[l]}
      <4> DEFINE c == beat[l].command
      <4>1. c \in Commands
        BY <2>2, <3>2
      <4>2. /\ last' = [last EXCEPT ![l] = c]
            /\ task' = [task EXCEPT ![c][l] = "run"]
            /\ executed' = [executed EXCEPT ![c][l] = @ + 1]
        BY <1>4, <3>2 DEF TakeAnswer
      <4> HIDE DEF c
      <4>3. last' \in [Loops -> Commands \cup {NoCommand}]
        BY <4>1, <4>2 DEF TypeOK
      <4>4. task' \in [Commands -> [Loops -> Stages]]
        BY <4>1, <4>2 DEF TypeOK, Stages
      <4>5. executed' \in [Commands -> [Loops -> Nat]]
        <5>1. executed[c][l] + 1 \in Nat
          BY <4>1 DEF TypeOK
        <5> QED
          BY <4>1, <4>2, <5>1 DEF TypeOK
      <4> QED
        BY <4>3, <4>4, <4>5
    <3> QED
      BY <3>1, <3>2
  <2> QED
    BY <1>4, <2>1, <2>3 DEF TakeAnswer, TypeOK, row, process
<1> QED
  BY <1>1, <1>2, <1>3, <1>4

LEMMA ExecutionTypes == TypeOK /\ Execution => TypeOK'
<1> SUFFICES ASSUME TypeOK, Execution PROVE TypeOK'
  OBVIOUS
<1> USE DEF Stages
<1>1. ASSUME NEW c \in Commands, NEW l \in Loops, Panic(c, l) PROVE TypeOK'
  BY <1>1, MoveTypes, FaultTypes DEF Panic, TypeOK, Moves, row, process, history
<1>2. ASSUME NEW c \in Commands, NEW l \in Loops, Execute(c, l) PROVE TypeOK'
  BY <1>2, MoveTypes DEF Execute, Ends, TypeOK, Moves, row, process
<1>3. ASSUME NEW c \in Commands, NEW l \in Loops, UpdateCommand(c, l) PROVE TypeOK'
  BY <1>3, MoveTypes, StageTypes DEF UpdateCommand, Ends, TypeOK, Moves, row
<1>4. ASSUME NEW c \in Commands, NEW l \in Loops, Acknowledge(c, l) PROVE TypeOK'
  <2>1. clearing' \subseteq [command: Commands, loop: Loops, seen: Commands]
    BY <1>4 DEF Acknowledge, TypeOK
  <2> QED
    BY <1>4, <2>1, MoveTypes DEF Acknowledge, TypeOK, Moves, process, history
<1>5. ASSUME NEW c \in Commands, NEW l \in Loops, LoseAcknowledgement(c, l) PROVE TypeOK'
  BY <1>5, MoveTypes, FaultTypes DEF LoseAcknowledgement, TypeOK, Moves, row, process, history
<1>6. ASSUME NEW a \in clearing, Clear(a) PROVE TypeOK'
  BY <1>6 DEF Clear, TypeOK, process, agent
<1> QED
  BY <1>1, <1>2, <1>3, <1>4, <1>5, <1>6 DEF Execution

LEMMA NewProcessTypes ==
    ASSUME TypeOK, NewProcess
    PROVE  /\ started' \in Loops
           /\ loops' \subseteq 1..started' /\ started' \in loops'
           /\ beat' \in [Loops -> Beats]
           /\ task' \in [Commands -> [Loops -> Stages]]
           /\ staged' \subseteq Loops /\ handed' \in BOOLEAN
<1>1. StartLoop({})
  BY DEF NewProcess
<1>2. /\ started' \in Loops
      /\ loops' \subseteq 1..started' /\ started' \in loops'
  BY <1>1, StartTypes
<1> QED
  BY <1>2, BeatMembers DEF NewProcess, Stages

LEMMA ProcessTypes == TypeOK /\ Process => TypeOK'
<1> SUFFICES ASSUME TypeOK, Process PROVE TypeOK'
  OBVIOUS
<1>1. ASSUME NEW l \in Loops, CheckForUpdate(l) PROVE TypeOK'
  BY <1>1, StageTypes DEF CheckForUpdate, TypeOK, row, agent, history
<1>2. ASSUME NEW l \in Loops, LoopFails(l) PROVE TypeOK'
  <2>1. beat' \in [Loops -> Beats]
    BY <1>2, BeatTypes, BeatMembers DEF LoopFails
  <2>2. /\ started' \in Loops
        /\ loops' \subseteq 1..started' /\ started' \in loops'
    <3>1. CASE l = started
      <4>1. StartLoop(loops \ {l})
        BY <1>2, <3>1 DEF LoopFails
      <4> QED
        BY <4>1, StartTypes
    <3>2. CASE l # started
      <4>1. loops' = loops \ {l} /\ started' = started
        BY <1>2, <3>2 DEF LoopFails
      <4> QED
        BY <3>2, <4>1 DEF TypeOK
    <3> QED
      BY <3>1, <3>2
  <2> QED
    BY <1>2, <2>1, <2>2, FaultTypes DEF LoopFails, TypeOK, row, history
<1>3. ASSUME WindowPasses PROVE TypeOK'
  BY <1>3, FaultTypes DEF WindowPasses, TypeOK, row, agent, history
<1>4. ASSUME Relaunch PROVE TypeOK'
  <2>1. newer' \in [running: BOOLEAN, installed: BOOLEAN]
    BY <1>4 DEF Relaunch, TypeOK
  <2> QED
    BY <1>4, <2>1, NewProcessTypes, FaultTypes DEF Relaunch, NewProcess, TypeOK, row, history
<1>5. ASSUME LaunchUpdate PROVE TypeOK'
  <2>1. newer' \in [running: BOOLEAN, installed: BOOLEAN]
    <3>1. PICK r \in {TRUE, newer.installed} : newer' = [running |-> r, installed |-> r]
      BY <1>5 DEF LaunchUpdate
    <3>2. r \in BOOLEAN
      BY DEF TypeOK
    <3> QED
      BY <3>1, <3>2
  <2> QED
    BY <1>5, <2>1, NewProcessTypes DEF LaunchUpdate, NewProcess, TypeOK, row, history
<1>6. ASSUME LaunchFails PROVE TypeOK'
  <2>1. newer' \in [running: BOOLEAN, installed: BOOLEAN]
    BY <1>6 DEF LaunchFails, TypeOK
  <2>2. StartLoop(loops)
    BY <1>6 DEF LaunchFails
  <2>3. /\ started' \in Loops
        /\ loops' \subseteq 1..started' /\ started' \in loops'
    BY <2>2, StartTypes
  <2> QED
    BY <1>6, <2>1, <2>3, FaultTypes DEF LaunchFails, TypeOK, row, agent, history
<1> QED
  BY <1>1, <1>2, <1>3, <1>4, <1>5, <1>6 DEF Process

\* Every variable keeps its type: in particular the agent never tries an update more
\* than twice in a window (BridgeControl, TypeOK; updater.go, shouldSkipUpdateAttempt).
THEOREM TypeCorrect == Spec => []TypeOK
<1>1. Init => TypeOK
  <2> SUFFICES ASSUME Init PROVE TypeOK
    OBVIOUS
  <2>1. beat \in [Loops -> Beats]
    BY BeatMembers DEF Init
  <2>2. newer \in [running: BOOLEAN, installed: BOOLEAN]
    BY DEF Init
  <2>3. /\ started \in Loops
        /\ loops \subseteq 1..started /\ started \in loops
    BY DEF Init, Loops
  <2>4. /\ last \in [Loops -> Commands \cup {NoCommand}]
        /\ task \in [Commands -> [Loops -> Stages]]
        /\ executed \in [Commands -> [Loops -> Nat]]
    BY DEF Init, Stages
  <2>5. attempts \in Nat /\ faults \in 0..MaxFaults
    BY DEF Init
  <2>6. recent \in BOOLEAN
    BY DEF Init
  <2> QED
    BY <2>1, <2>2, <2>3, <2>4, <2>5, <2>6 DEF Init, TypeOK
<1>2. TypeOK /\ [Next]_vars => TypeOK'
  <2> SUFFICES ASSUME TypeOK, [Next]_vars PROVE TypeOK'
    OBVIOUS
  <2>1. ASSUME NEW c \in Commands, GiveCommand(c) PROVE TypeOK'
    BY <2>1 DEF GiveCommand, TypeOK, process, agent
  <2>2. CASE UNCHANGED vars
    BY <2>2 DEF TypeOK, vars, row, process, agent, history
  <2> QED
    BY <2>1, <2>2, HeartbeatTypes, ExecutionTypes, ProcessTypes DEF Next
<1> QED
  BY <1>1, <1>2, PTL DEF Spec

-----------------------------------------------------------------------------
(* A loop executes a command once.                                         *)

\* What a loop has executed was given; once the loop has noted another command, or
\* has another answer before it, that command is no longer in the column.  A command
\* that has left the column never returns to it.
PastIsPast ==
    \A c \in Commands, l \in Loops : executed[c][l] > 0 =>
      /\ c \in asked
      /\ last[l] # c => command # c /\ (beat[l].at = "answered" => beat[l].command # c)
      /\ beat[l].at = "answered" /\ beat[l].command # c => command # c

AnswersWereGiven ==
    /\ command \in asked \cup {NoCommand}
    /\ \A l \in Loops :
         beat[l].at = "answered" => beat[l].command \in asked \cup {NoCommand}

RunsInv == RunsOncePerLoop /\ PastIsPast /\ AnswersWereGiven

\* Steps that leave alone the column, what was noted and what was executed, and that
\* only take heartbeats away.
LEMMA RunsKept ==
    ASSUME TypeOK, RunsInv, UNCHANGED <<command, last, asked, executed>>,
           \A l \in Loops : beat'[l].at = "answered" => beat'[l] = beat[l]
    PROVE  RunsInv'
BY DEF RunsInv, RunsOncePerLoop, PastIsPast, AnswersWereGiven

LEMMA GiveRuns ==
    ASSUME TypeOK, RunsInv, NEW c \in Commands, GiveCommand(c)
    PROVE  RunsInv'
<1>1. c \notin asked /\ command' = c /\ asked' = asked \cup {c} /\ UNCHANGED <<last, beat, executed>>
  BY DEF GiveCommand, agent
<1>2. RunsOncePerLoop'
  BY <1>1 DEF RunsInv, RunsOncePerLoop
<1>3. PastIsPast'
  BY <1>1 DEF RunsInv, PastIsPast
<1>4. AnswersWereGiven'
  BY <1>1 DEF RunsInv, AnswersWereGiven
<1> QED
  BY <1>2, <1>3, <1>4 DEF RunsInv

LEMMA AnswerRuns ==
    ASSUME TypeOK, RunsInv, NEW l \in Loops, AnswerHeartbeat(l)
    PROVE  RunsInv'
<1>1. UNCHANGED <<command, last, asked, executed>>
  BY DEF AnswerHeartbeat, row, history
<1>2. /\ beat'[l] = [at |-> "answered", command |-> command]
      /\ \A k \in Loops \ {l} : beat'[k] = beat[k]
  BY DEF AnswerHeartbeat, TypeOK
<1>3. RunsOncePerLoop'
  BY <1>1 DEF RunsInv, RunsOncePerLoop
<1>4. PastIsPast'
  <2> SUFFICES ASSUME NEW c \in Commands, NEW k \in Loops, executed[c][k] > 0
               PROVE  /\ c \in asked
                      /\ last[k] # c => /\ command # c
                                        /\ beat'[k].at = "answered" => beat'[k].command # c
                      /\ beat'[k].at = "answered" /\ beat'[k].command # c => command # c
    BY <1>1 DEF PastIsPast
  <2>1. CASE k = l
    BY <1>2, <2>1 DEF RunsInv, PastIsPast
  <2>2. CASE k # l
    BY <1>2, <2>2 DEF RunsInv, PastIsPast
  <2> QED
    BY <2>1, <2>2
<1>5. AnswersWereGiven'
  BY <1>1, <1>2 DEF RunsInv, AnswersWereGiven
<1> QED
  BY <1>3, <1>4, <1>5 DEF RunsInv

LEMMA TakeRuns ==
    ASSUME TypeOK, RunsInv, NEW l \in Loops, TakeAnswer(l)
    PROVE  RunsInv'
<1> DEFINE c == beat[l].command
<1>1. /\ UNCHANGED <<command, asked>>
      /\ beat[l].at = "answered"
      /\ beat' = [beat EXCEPT ![l] = NoBeat]
  BY DEF TakeAnswer, row
<1>2. /\ beat'[l].at # "answered"
      /\ \A k \in Loops \ {l} : beat'[k] = beat[k]
  BY <1>1 DEF TypeOK, NoBeat
<1>3. CASE c \in {NoCommand, last[l]}
  <2>1. UNCHANGED <<last, executed>>
    BY <1>3 DEF TakeAnswer
  <2> QED
    BY <1>1, <1>2, <2>1, RunsKept
<1>4. CASE c \notin {NoCommand, last[l]}
  <2>1. c \in Commands
    BY <1>1, <1>4, AnswerTypes
  <2>2. /\ last' = [last EXCEPT ![l] = c]
        /\ executed' = [executed EXCEPT ![c][l] = @ + 1]
    BY <1>4 DEF TakeAnswer
  <2>3. /\ last'[l] = c
        /\ \A k \in Loops \ {l} : last'[k] = last[k]
    BY <2>2 DEF TypeOK
  <2>4. ~(executed[c][l] > 0)
    BY <1>1, <1>4, <2>1 DEF RunsInv, PastIsPast
  <2>5. executed'[c][l] = 1
    <3>1. executed[c][l] = 0
      BY <2>1, <2>4 DEF TypeOK
    <3> QED
      BY <2>1, <2>2, <3>1 DEF TypeOK
  <2>6. \A d \in Commands, k \in Loops : d # c \/ k # l => executed'[d][k] = executed[d][k]
    BY <2>1, <2>2 DEF TypeOK
  <2>7. c \in asked
    BY <1>1, <1>4 DEF RunsInv, AnswersWereGiven
  <2> HIDE DEF c
  <2>8. RunsOncePerLoop'
    BY <2>5, <2>6 DEF RunsInv, RunsOncePerLoop
  <2>9. PastIsPast'
    <3> SUFFICES ASSUME NEW d \in Commands, NEW k \in Loops, executed'[d][k] > 0
                 PROVE  /\ d \in asked
                        /\ last'[k] # d => /\ command # d
                                           /\ beat'[k].at = "answered" => beat'[k].command # d
                        /\ beat'[k].at = "answered" /\ beat'[k].command # d => command # d
      BY <1>1 DEF PastIsPast
    <3>1. CASE k # l
      BY <1>2, <2>3, <2>6, <3>1 DEF RunsInv, PastIsPast
    <3>2. CASE k = l /\ d = c
      BY <1>2, <2>3, <2>7, <3>2
    <3>3. CASE k = l /\ d # c
      <4>1. executed[d][l] > 0
        BY <2>6, <3>3
      <4>2. d \in asked /\ command # d
        BY <1>1, <3>3, <4>1 DEF RunsInv, PastIsPast, c
      <4> QED
        BY <1>2, <3>3, <4>2
    <3> QED
      BY <3>1, <3>2, <3>3
  <2>10. AnswersWereGiven'
    BY <1>1, <1>2 DEF RunsInv, AnswersWereGiven
  <2> QED
    BY <2>8, <2>9, <2>10 DEF RunsInv
<1> QED
  BY <1>3, <1>4

LEMMA ClearRuns ==
    ASSUME TypeOK, RunsInv, NEW a \in clearing, Clear(a)
    PROVE  RunsInv'
<1>1. command' = NoCommand /\ UNCHANGED <<last, beat, asked, executed>>
  BY DEF Clear, agent
<1> QED
  BY <1>1 DEF RunsInv, RunsOncePerLoop, PastIsPast, AnswersWereGiven

LEMMA HeartbeatRuns == TypeOK /\ RunsInv /\ Heartbeats => RunsInv'
<1> SUFFICES ASSUME TypeOK, RunsInv, NEW l \in Loops,
                    \/ SendHeartbeat(l) \/ AnswerHeartbeat(l) \/ LoseHeartbeat(l)
                    \/ TakeAnswer(l)
             PROVE  RunsInv'
  BY DEF Heartbeats
<1>1. ASSUME SendHeartbeat(l) PROVE RunsInv'
  <2>1. \A k \in Loops : beat'[k].at = "answered" => beat'[k] = beat[k]
    BY <1>1 DEF SendHeartbeat, TypeOK
  <2> QED
    BY <1>1, <2>1, RunsKept DEF SendHeartbeat, row, history
<1>2. ASSUME LoseHeartbeat(l) PROVE RunsInv'
  <2>1. \A k \in Loops : beat'[k].at = "answered" => beat'[k] = beat[k]
    BY <1>2 DEF LoseHeartbeat, TypeOK, NoBeat
  <2> QED
    BY <1>2, <2>1, RunsKept DEF LoseHeartbeat, row, history
<1> QED
  BY <1>1, <1>2, AnswerRuns, TakeRuns

LEMMA ExecutionRuns == TypeOK /\ RunsInv /\ Execution => RunsInv'
<1> SUFFICES ASSUME TypeOK, RunsInv, Execution PROVE RunsInv'
  OBVIOUS
<1>1. ASSUME NEW c \in Commands, NEW l \in Loops,
             \/ Panic(c, l) \/ Execute(c, l) \/ UpdateCommand(c, l)
             \/ Acknowledge(c, l) \/ LoseAcknowledgement(c, l)
      PROVE  RunsInv'
  <2>1. UNCHANGED <<command, last, beat, asked, executed>>
    BY <1>1 DEF Panic, Execute, UpdateCommand, Acknowledge, LoseAcknowledgement, Moves, Ends,
                row, history
  <2> QED
    BY <2>1, RunsKept
<1> QED
  BY <1>1, ClearRuns DEF Execution

LEMMA ProcessRuns == TypeOK /\ RunsInv /\ Process => RunsInv'
<1> SUFFICES ASSUME TypeOK, RunsInv, Process PROVE RunsInv'
  OBVIOUS
<1>1. UNCHANGED <<command, last, asked, executed>>
  BY DEF Process, CheckForUpdate, LoopFails, WindowPasses, Relaunch, LaunchUpdate, LaunchFails,
         NewProcess, row, agent, history
<1>2. \A k \in Loops : beat'[k].at = "answered" => beat'[k] = beat[k]
  <2>1. ASSUME NEW l \in Loops, LoopFails(l)
        PROVE  \A k \in Loops : beat'[k].at = "answered" => beat'[k] = beat[k]
    BY <2>1 DEF LoopFails, TypeOK, NoBeat
  <2>2. ASSUME NewProcess
        PROVE  \A k \in Loops : beat'[k].at = "answered" => beat'[k] = beat[k]
    BY <2>2 DEF NewProcess, NoBeat
  <2>3. ASSUME UNCHANGED beat
        PROVE  \A k \in Loops : beat'[k].at = "answered" => beat'[k] = beat[k]
    BY <2>3
  <2> QED
    BY <2>1, <2>2, <2>3 DEF Process, CheckForUpdate, WindowPasses, Relaunch, LaunchUpdate,
                            LaunchFails, agent
<1> QED
  BY <1>1, <1>2, RunsKept

\* No loop executes a command twice (BridgeControl, RunsOncePerLoop; agent.go,
\* lastCommandID), for any number of commands, loops and faults.
THEOREM LoopsRunOnce == Spec => []RunsOncePerLoop
<1>1. Init => RunsInv
  BY DEF Init, RunsInv, RunsOncePerLoop, PastIsPast, AnswersWereGiven, NoBeat
<1>2. TypeOK /\ RunsInv /\ [Next]_vars => RunsInv'
  <2> SUFFICES ASSUME TypeOK, RunsInv, [Next]_vars PROVE RunsInv'
    OBVIOUS
  <2>1. CASE UNCHANGED vars
    BY <2>1, RunsKept DEF vars, row, process, agent, history
  <2> QED
    BY <2>1, GiveRuns, HeartbeatRuns, ExecutionRuns, ProcessRuns DEF Next
<1>3. RunsInv => RunsOncePerLoop
  BY DEF RunsInv
<1> QED
  BY <1>1, <1>2, <1>3, TypeCorrect, PTL DEF Spec

-----------------------------------------------------------------------------
(* No command is lost from sight.                                          *)

\* What is acknowledged has been executed, and an acknowledgement that goes on to
\* empty the column has seen its own command there.
AcksAreTrue ==
    /\ \A c \in Commands, l \in Loops : task[c][l] = "ack" => c \in finished
    /\ \A a \in clearing : a.seen \in finished

DropInv == NoCommandDropped /\ AcksAreTrue

\* Steps that leave the column and its books alone, and end no execution.
LEMMA DropKept ==
    ASSUME TypeOK, DropInv, UNCHANGED <<command, clearing, history>>,
           \A c \in Commands, l \in Loops : task'[c][l] = "ack" => task[c][l] = "ack"
    PROVE  DropInv'
BY DEF DropInv, NoCommandDropped, AcksAreTrue, history

LEMMA GiveDrop ==
    ASSUME TypeOK, DropInv, NEW c \in Commands, GiveCommand(c)
    PROVE  DropInv'
<1>1. /\ command' = c /\ asked' = asked \cup {c}
      /\ replaced' = replaced \cup ({command} \ {NoCommand})
      /\ UNCHANGED <<clearing, task, erased, finished>>
  BY DEF GiveCommand, agent
<1>2. NoCommandDropped'
  BY <1>1 DEF DropInv, NoCommandDropped, TypeOK
<1>3. AcksAreTrue'
  BY <1>1 DEF DropInv, AcksAreTrue
<1> QED
  BY <1>2, <1>3 DEF DropInv

LEMMA TakeDrop ==
    ASSUME TypeOK, DropInv, NEW l \in Loops, TakeAnswer(l)
    PROVE  DropInv'
<1>1. UNCHANGED <<command, clearing, asked, replaced, erased, finished>>
  BY DEF TakeAnswer, row
<1>2. \A c \in Commands, k \in Loops : task'[c][k] = "ack" => task[c][k] = "ack"
  BY DEF TakeAnswer, TypeOK
<1> QED
  BY <1>1, <1>2 DEF DropInv, NoCommandDropped, AcksAreTrue

\* An execution that ends.
LEMMA EndDrop ==
    ASSUME TypeOK, DropInv, NEW c \in Commands, NEW l \in Loops,
           Moves(c, l, "run", "ack"), Ends(c), UNCHANGED row
    PROVE  DropInv'
<1>1. NoCommandDropped'
  BY DEF DropInv, NoCommandDropped, Ends, row
<1>2. AcksAreTrue'
  BY DEF DropInv, AcksAreTrue, Moves, Ends, row, TypeOK
<1> QED
  BY <1>1, <1>2 DEF DropInv

LEMMA AcknowledgeDrop ==
    ASSUME TypeOK, DropInv, NEW c \in Commands, NEW l \in Loops, Acknowledge(c, l)
    PROVE  DropInv'
<1>1. UNCHANGED <<command, asked, replaced, erased, finished>>
  BY DEF Acknowledge, history
<1>2. \A d \in Commands, k \in Loops : task'[d][k] = "ack" => task[d][k] = "ack"
  BY DEF Acknowledge, Moves, TypeOK
<1>3. c \in finished
  BY DEF Acknowledge, Moves, DropInv, AcksAreTrue
<1>4. \A a \in clearing' : a.seen \in finished
  BY <1>3 DEF Acknowledge, DropInv, AcksAreTrue
<1> QED
  BY <1>1, <1>2, <1>4 DEF DropInv, NoCommandDropped, AcksAreTrue

LEMMA ClearDrop ==
    ASSUME TypeOK, DropInv, NEW a \in clearing, Clear(a)
    PROVE  DropInv'
<1>1. /\ command' = NoCommand
      /\ erased' = erased \cup ({command} \ {a.seen, NoCommand})
      /\ clearing' = clearing \ {a}
      /\ UNCHANGED <<task, asked, replaced, finished>>
  BY DEF Clear, agent
<1>2. a.seen \in finished
  BY DEF DropInv, AcksAreTrue
<1>3. NoCommandDropped'
  BY <1>1, <1>2 DEF DropInv, NoCommandDropped, TypeOK
<1>4. AcksAreTrue'
  BY <1>1 DEF DropInv, AcksAreTrue
<1> QED
  BY <1>3, <1>4 DEF DropInv

LEMMA ExecutionDrop == TypeOK /\ DropInv /\ Execution => DropInv'
<1> SUFFICES ASSUME TypeOK, DropInv, Execution PROVE DropInv'
  OBVIOUS
<1>1. ASSUME NEW c \in Commands, NEW l \in Loops, Panic(c, l) \/ LoseAcknowledgement(c, l)
      PROVE  DropInv'
  <2>1. \A d \in Commands, k \in Loops : task'[d][k] = "ack" => task[d][k] = "ack"
    <3>1. task' = [task EXCEPT ![c][l] = "none"]
      BY <1>1 DEF Panic, LoseAcknowledgement, Moves
    <3> QED
      BY <3>1 DEF TypeOK
  <2> QED
    BY <1>1, <2>1, DropKept DEF Panic, LoseAcknowledgement, row
<1>2. ASSUME NEW c \in Commands, NEW l \in Loops, Execute(c, l) \/ UpdateCommand(c, l)
      PROVE  DropInv'
  BY <1>2, EndDrop DEF Execute, UpdateCommand
<1> QED
  BY <1>1, <1>2, AcknowledgeDrop, ClearDrop DEF Execution

LEMMA ProcessDrop == TypeOK /\ DropInv /\ Process => DropInv'
<1> SUFFICES ASSUME TypeOK, DropInv, Process PROVE DropInv'
  OBVIOUS
<1>1. UNCHANGED <<command, clearing, history>>
  BY DEF Process, CheckForUpdate, LoopFails, WindowPasses, Relaunch, LaunchUpdate, LaunchFails,
         NewProcess, row
<1>2. \/ UNCHANGED task
      \/ task' = [c \in Commands |-> [l \in Loops |-> "none"]]
  BY DEF Process, CheckForUpdate, LoopFails, WindowPasses, Relaunch, LaunchUpdate, LaunchFails,
         NewProcess, agent
<1>3. \A c \in Commands, l \in Loops : task'[c][l] = "ack" => task[c][l] = "ack"
  BY <1>2
<1> QED
  BY <1>1, <1>3, DropKept

\* A command that was given is in the column, executed, replaced, or erased by an
\* acknowledgement that crossed it (BridgeControl, NoCommandDropped;
\* print-bridge.repository.ts, clearBridgeCommand).
THEOREM NothingDropped == Spec => []NoCommandDropped
<1>1. Init => DropInv
  BY DEF Init, DropInv, NoCommandDropped, AcksAreTrue
<1>2. TypeOK /\ DropInv /\ [Next]_vars => DropInv'
  <2> SUFFICES ASSUME TypeOK, DropInv, [Next]_vars PROVE DropInv'
    OBVIOUS
  <2>1. ASSUME NEW l \in Loops, SendHeartbeat(l) \/ AnswerHeartbeat(l) \/ LoseHeartbeat(l)
        PROVE  DropInv'
    BY <2>1, DropKept DEF SendHeartbeat, AnswerHeartbeat, LoseHeartbeat, row
  <2>2. CASE UNCHANGED vars
    BY <2>2, DropKept DEF vars, row, agent
  <2> QED
    BY <2>1, <2>2, GiveDrop, TakeDrop, ExecutionDrop, ProcessDrop DEF Next, Heartbeats
<1>3. DropInv => NoCommandDropped
  BY DEF DropInv
<1> QED
  BY <1>1, <1>2, <1>3, TypeCorrect, PTL DEF Spec
=============================================================================
