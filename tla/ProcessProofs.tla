--------------------------- MODULE ProcessProofs ---------------------------
(***************************************************************************)
(* Proofs about the processes around the agent, and about the stream of a  *)
(* generation through one of them, each for every value of the constants   *)
(* of its module.                                                          *)
(***************************************************************************)
EXTENDS MCProcesses, MCStreamAssembly, FiniteSetTheorems, SequenceTheorems,
        WellFoundedInduction, TLAPS

-----------------------------------------------------------------------------
(* The server process.                                                     *)

Holding == {"locked", "bound", "truncated", "serving", "stopping", "closed"}
HasPort == {"bound", "truncated", "serving"}
Told    == {"serving", "stopping", "closed", "exited", "killed"}

ServerTypes ==
  /\ state \in [Servers -> {"new"} \cup Holding \cup Server!Ended]
  /\ holder \in Servers \cup {"none"}
  /\ record \in [pid : Servers \cup {"old", "none"}, url : Ports \cup {"none"}]
  /\ port \in [Servers -> Ports \cup {"none"}]
  /\ streams \in [Servers -> Nat]
  /\ target \in [Servers -> Ports \cup {"none"}]

\* The lock is held exactly by the process between its lock and its end.
LockHeld == \A s \in Servers : state[s] \in Holding <=> holder = s

\* A process has a port from its listener on until it stops listening.
PortHeld == \A s \in Servers : state[s] \in HasPort <=> port[s] # "none"

\* A process that is named in the file, or was found, has served.
NamedHasServed ==
  \A s \in Servers : record.pid = s \/ target[s] # "none" => state[s] \in Told

ServerInv ==
  ServerTypes /\ LockHeld /\ PortHeld /\ NamedHasServed
  /\ Server!RecordIsOwn /\ Server!FindsItsOwn

\* Initially no process has begun, whatever an earlier one left in the file.
LEMMA ServerInit == Server!Init => ServerInv
<1> SUFFICES ASSUME Server!Init PROVE ServerInv
  OBVIOUS
<1> USE ProcessesAssumption DEF Server!Init, Holding, HasPort, Told
<1>1. ServerTypes
  BY DEF ServerTypes, Server!Empty
<1>2. LockHeld /\ PortHeld
  BY DEF LockHeld, PortHeld
<1>3. NamedHasServed
  BY DEF NamedHasServed, Server!Empty
<1>4. Server!RecordIsOwn /\ Server!FindsItsOwn
  BY DEF Server!RecordIsOwn, Server!FindsItsOwn
<1> QED BY <1>1, <1>2, <1>3, <1>4 DEF ServerInv

\* Every step of a process leaves the lock with the one process that is between
\* its lock and its end.
LEMMA ServerStep == ServerInv /\ [Server!Next]_(Server!vars) => ServerInv'
<1> SUFFICES ASSUME ServerInv, [Server!Next]_(Server!vars) PROVE ServerInv'
  OBVIOUS
<1> USE ProcessesAssumption DEF Holding, HasPort, Told, Server!Ended
<1> USE DEF ServerInv, ServerTypes, LockHeld, PortHeld, NamedHasServed,
            Server!RecordIsOwn, Server!FindsItsOwn
<1>1. ASSUME NEW s \in Servers, Server!Acquire(s) PROVE ServerInv'
  BY <1>1 DEF Server!Acquire, Server!Goes
<1>2. ASSUME NEW s \in Servers, Server!Listen(s) PROVE ServerInv'
  <2>1. CASE Server!Ends(s, "failed") /\ UNCHANGED <<record, streams, target>>
    BY <1>2, <2>1 DEF Server!Listen, Server!Goes, Server!Ends
  <2>2. CASE ~Server!Ends(s, "failed")
    BY <1>2, <2>2 DEF Server!Listen, Server!Goes
  <2> QED BY <1>2, <2>1, <2>2 DEF Server!Listen
<1>3. ASSUME NEW s \in Servers, Server!Truncate(s) PROVE ServerInv'
  BY <1>3 DEF Server!Truncate, Server!Goes, Server!Empty
<1>4. ASSUME NEW s \in Servers, Server!Publish(s) PROVE ServerInv'
  BY <1>4 DEF Server!Publish, Server!Goes
<1>5. ASSUME NEW s \in Servers, Server!PublishFails(s) PROVE ServerInv'
  BY <1>5 DEF Server!PublishFails, Server!Goes, Server!Ends
<1>6. ASSUME NEW s \in Servers, Server!Request(s) PROVE ServerInv'
  BY <1>6 DEF Server!Request
<1>7. ASSUME NEW s \in Servers, Server!RequestEnds(s) PROVE ServerInv'
  BY <1>7 DEF Server!RequestEnds
<1>8. ASSUME NEW s \in Servers, Server!Stop(s) PROVE ServerInv'
  BY <1>8 DEF Server!Stop, Server!Goes
<1>9. ASSUME NEW s \in Servers, Server!Close(s) PROVE ServerInv'
  BY <1>9 DEF Server!Close, Server!Goes
<1>10. ASSUME NEW s \in Servers, Server!Exit(s) PROVE ServerInv'
  BY <1>10 DEF Server!Exit, Server!Goes, Server!Ends
<1>11. ASSUME NEW s \in Servers, Server!Killed(s) PROVE ServerInv'
  BY <1>11 DEF Server!Killed, Server!Goes, Server!Ends
<1>12. ASSUME NEW s \in Servers, Server!Find(s) PROVE ServerInv'
  BY <1>12 DEF Server!Find
<1>13. CASE UNCHANGED Server!vars
  BY <1>13 DEF Server!vars
<1> QED
  BY <1>1, <1>2, <1>3, <1>4, <1>5, <1>6, <1>7, <1>8, <1>9, <1>10, <1>11, <1>12, <1>13
  DEF Server!Next

\* One process at a time is between its lock and its end, since each of them would
\* be the holder of the one lock.
LEMMA OneHolds == ServerInv => Server!OneServer
<1> SUFFICES ASSUME ServerInv PROVE Server!OneServer
  OBVIOUS
<1> DEFINE active == {s \in Servers : state[s] \notin Server!Ended \union {"new"}}
<1>1. active \subseteq {holder}
  BY DEF ServerInv, ServerTypes, LockHeld, Holding, Server!Ended
<1>2. Cardinality({holder}) = 1 /\ IsFiniteSet({holder})
  BY FS_Singleton
<1>3. Cardinality(active) <= Cardinality({holder})
  BY <1>1, <1>2, FS_Subset
<1>4. Server!Cardinality(active) = Cardinality(active)
  <2> HIDE DEF active
  <2> QED BY DEF Cardinality, Server!Cardinality
<1> QED BY <1>2, <1>3, <1>4 DEF Server!OneServer

\* The inductive invariant of the server process: the lock and the file belong to
\* the process they name (AcquireCodeInstanceGuard, Publish, Close).
THEOREM ServerInvariance == Server!Spec => []ServerInv
<1>1. Server!Init => ServerInv
  BY ServerInit
<1>2. ServerInv /\ [Server!Next]_(Server!vars) => ServerInv'
  BY ServerStep
<1> QED BY <1>1, <1>2, PTL DEF Server!Spec

\* One server at a time; while it serves the file names it and its address, and a
\* launcher that found it has that address, whatever processes crash, are refused
\* or stop around it (instance.go, web.sh).
THEOREM OneInstance == Server!Spec => []InstanceHolds
<1>1. ServerInv => InstanceHolds
  BY OneHolds DEF ServerInv, Server!InstanceHolds, InstanceHolds
<1> QED BY <1>1, ServerInvariance, PTL

-----------------------------------------------------------------------------
(* The commands of an agent and of its sub-agents.                         *)

Causes  == {"none", "deadline", "cancel"}
Records ==
  [runner : Shells!Runners, by : {"parent", "child"},
   leader : {"running", "exited", "killed"}, background : BOOLEAN,
   killed : {"no", "context", "parent", "child"}, file : BOOLEAN,
   status : {"none", "timed_out", "canceled", "completed", "execution_error"}]

ShellTypes ==
  /\ agent \in {"parent", "child", "over"}
  /\ children \in Shells!Runners
  /\ commands \in Seq(Records)
  /\ call \in {"none", "started", "waiting", "waited"}
  /\ cause \in Causes
  /\ recorded \in [Shells!Runners -> SUBSET Nat]
  /\ closed \in [Shells!Runners -> {"no", "at rest", "early"}]

\* The command of the call under way is the last one, of the agent whose turn it is,
\* and what ended it is told by the cause.
InFlight ==
  IF call = "none"
  THEN cause = "none"
  ELSE /\ agent # "over" /\ commands # <<>>
       /\ Shells!Command.runner = Shells!Runner /\ Shells!Command.by = agent
       /\ Shells!Command.status = "none"
       /\ Shells!Command.killed = "context" => cause # "none"

\* A sub-agent at work has a runner that was not closed, and the parent's is not
\* closed at rest before everything is over; runners to come are untouched.
RunnersOpen ==
  /\ agent = "child" => children > 0 /\ closed[children] = "no"
  /\ closed[0] = "at rest" => agent = "over"
  /\ \A r \in Shells!Runners : r > children => closed[r] = "no"

\* A command belongs to the runner that started it, which records it from the start
\* of the wait on until it is closed, and to the agent with that runner.
CommandsOwned ==
  \A i \in DOMAIN commands :
    LET c == commands[i] IN
    /\ c.runner <= children
    /\ c.by = IF c.runner = 0 THEN "parent" ELSE "child"
    /\ closed[c.runner] = "no" /\ i \notin recorded[c.runner] =>
         call = "started" /\ i = Len(commands)

\* A runner records its own commands only.
RecordedOwn ==
  \A r \in Shells!Runners : \A i \in recorded[r] :
    i \in DOMAIN commands /\ commands[i].runner = r

ShellInv ==
  /\ ShellTypes /\ InFlight /\ RunnersOpen /\ CommandsOwned /\ RecordedOwn
  /\ Shells!NothingOutlives /\ Shells!OthersSpared /\ Shells!KilledIsTold

\* Initially nothing was started and nothing is closed.
LEMMA ShellInit == MaxChildren \in Nat /\ Shells!Init => ShellInv
<1> SUFFICES ASSUME MaxChildren \in Nat, Shells!Init PROVE ShellInv
  OBVIOUS
<1> USE DEF Shells!Init, Shells!Runners
<1>1. ShellTypes
  BY DEF ShellTypes, Causes
<1>2. InFlight /\ RunnersOpen /\ CommandsOwned /\ RecordedOwn
  BY DEF InFlight, RunnersOpen, CommandsOwned, RecordedOwn
<1>3. Shells!NothingOutlives /\ Shells!OthersSpared /\ Shells!KilledIsTold
  BY DEF Shells!NothingOutlives, Shells!OthersSpared, Shells!KilledIsTold
<1> QED BY <1>1, <1>2, <1>3 DEF ShellInv

\* The runner whose turn it is exists, and was not closed at rest.
LEMMA RunnerOpen ==
  ASSUME MaxChildren \in Nat, ShellTypes, RunnersOpen, agent # "over"
  PROVE  /\ Shells!Runner \in Shells!Runners /\ Shells!Runner <= children
         /\ closed[Shells!Runner] # "at rest"
         /\ agent = IF Shells!Runner = 0 THEN "parent" ELSE "child"
<1>1. agent \in {"parent", "child"} /\ children \in 0 .. MaxChildren
  BY DEF ShellTypes, Shells!Runners
<1>2. CASE agent = "child"
  <2>1. Shells!Runner = children /\ children > 0 /\ closed[children] = "no"
    BY <1>2 DEF Shells!Runner, RunnersOpen
  <2> QED BY <1>1, <1>2, <2>1 DEF Shells!Runners
<1>3. CASE agent = "parent"
  <2>1. Shells!Runner = 0
    BY <1>3 DEF Shells!Runner
  <2>2. closed[Shells!Runner] # "at rest"
    BY <1>3, <2>1 DEF RunnersOpen
  <2>3. Shells!Runner \in Shells!Runners /\ Shells!Runner <= children
    BY <1>1, <2>1 DEF Shells!Runners
  <2> QED BY <1>3, <2>1, <2>2, <2>3
<1> QED BY <1>1, <1>2, <1>3

\* A command starts with the runner and for the agent whose turn it is.
LEMMA StartStep == MaxChildren \in Nat /\ ShellInv /\ Shells!Start => ShellInv'
<1> SUFFICES ASSUME MaxChildren \in Nat, ShellInv, Shells!Start PROVE ShellInv'
  OBVIOUS
<1> DEFINE n == Len(commands)
           c == [runner |-> Shells!Runner, by |-> agent, leader |-> "running",
                 background |-> FALSE, killed |-> "no", file |-> TRUE, status |-> "none"]
<1>1. /\ agent # "over" /\ call = "none" /\ call' = "started"
      /\ UNCHANGED <<agent, children, cause, recorded, closed>>
      /\ commands' = Append(commands, c)
  BY DEF Shells!Start
<1>2. /\ Shells!Runner \in Shells!Runners /\ Shells!Runner <= children
      /\ closed[Shells!Runner] # "at rest"
      /\ agent = IF Shells!Runner = 0 THEN "parent" ELSE "child"
  BY <1>1, RunnerOpen DEF ShellInv
<1>3. c \in Records /\ c.runner = Shells!Runner /\ c.by = agent /\ c.killed = "no"
      /\ c.status = "none"
  BY <1>2 DEF Records
<1> HIDE DEF c
<1>4. commands \in Seq(Records)
  BY DEF ShellInv, ShellTypes
<1>5. /\ commands' \in Seq(Records) /\ Len(commands') = n + 1 /\ n \in Nat
      /\ DOMAIN commands = 1 .. n /\ DOMAIN commands' = 1 .. n + 1
      /\ commands'[n + 1] = c /\ \A i \in 1 .. n : commands'[i] = commands[i]
  BY <1>1, <1>3, <1>4
<1>6. \A i \in 1 .. n + 1 : i = n + 1 \/ i \in 1 .. n
  BY <1>4
<1>7. Shells!Command' = c
  BY <1>5 DEF Shells!Command, Shells!Id
<1>8. ShellTypes'
  BY <1>1, <1>5 DEF ShellInv, ShellTypes
<1>9. InFlight'
  <2>1. Shells!Runner' = Shells!Runner
    BY <1>1 DEF Shells!Runner
  <2> QED BY <1>1, <1>3, <1>5, <1>7, <2>1 DEF InFlight
<1>10. RunnersOpen'
  BY <1>1 DEF ShellInv, RunnersOpen
<1>11. CommandsOwned'
  <2> SUFFICES ASSUME NEW i \in 1 .. n + 1
               PROVE  /\ commands'[i].runner <= children
                      /\ commands'[i].by = IF commands'[i].runner = 0 THEN "parent" ELSE "child"
                      /\ closed[commands'[i].runner] = "no" /\ i \notin recorded[commands'[i].runner] =>
                           i = n + 1
    BY <1>1, <1>5 DEF CommandsOwned
  <2>1. CASE i = n + 1
    BY <1>2, <1>3, <1>5, <2>1
  <2>2. CASE i \in 1 .. n
    BY <1>1, <1>5, <2>2 DEF ShellInv, CommandsOwned
  <2> QED BY <1>6, <2>1, <2>2
<1>12. RecordedOwn'
  BY <1>1, <1>5 DEF ShellInv, RecordedOwn
<1>13. Shells!NothingOutlives'
  <2> SUFFICES ASSUME NEW i \in 1 .. n + 1, closed[commands'[i].runner] = "at rest"
               PROVE  commands'[i].leader # "running" /\ ~commands'[i].background /\ ~commands'[i].file
    BY <1>1, <1>5 DEF Shells!NothingOutlives
  <2>1. CASE i = n + 1
    BY <1>2, <1>3, <1>5, <2>1
  <2>2. CASE i \in 1 .. n
    BY <1>5, <2>2 DEF ShellInv, Shells!NothingOutlives
  <2> QED BY <1>6, <2>1, <2>2
<1>14. Shells!OthersSpared'
  <2> SUFFICES ASSUME NEW i \in 1 .. n + 1
               PROVE  /\ commands'[i].killed \in {"no", "context", commands'[i].by}
                      /\ commands'[i].killed = commands'[i].by => closed[commands'[i].runner] # "no"
    BY <1>1, <1>5 DEF Shells!OthersSpared
  <2>1. CASE i = n + 1
    BY <1>2, <1>3, <1>5, <2>1
  <2>2. CASE i \in 1 .. n
    BY <1>5, <2>2 DEF ShellInv, Shells!OthersSpared
  <2> QED BY <1>6, <2>1, <2>2
<1>15. Shells!KilledIsTold'
  BY <1>1, <1>3, <1>5 DEF ShellInv, Shells!KilledIsTold
<1> QED
  BY <1>8, <1>9, <1>10, <1>11, <1>12, <1>13, <1>14, <1>15 DEF ShellInv

\* What a step says of the commands, together.
Outcomes ==
  CommandsOwned /\ RecordedOwn
  /\ Shells!NothingOutlives /\ Shells!OthersSpared /\ Shells!KilledIsTold

\* A step that leaves the commands and the runners alone.
LEMMA NoneChanged ==
  ASSUME ShellInv, UNCHANGED <<commands, recorded, closed>>, children' \in Shells!Runners,
         children <= children', MaxChildren \in Nat,
         call = "started" => call' = "started"
  PROVE  Outcomes'
<1>1. CommandsOwned'
  <2> SUFFICES ASSUME NEW i \in DOMAIN commands
               PROVE  /\ commands[i].runner <= children'
                      /\ commands[i].by = IF commands[i].runner = 0 THEN "parent" ELSE "child"
                      /\ closed[commands[i].runner] = "no" /\ i \notin recorded[commands[i].runner] =>
                           call' = "started" /\ i = Len(commands)
    BY DEF CommandsOwned
  <2>1. children \in 0 .. MaxChildren /\ children' \in 0 .. MaxChildren
    BY DEF ShellInv, ShellTypes, Shells!Runners
  <2>2. commands \in Seq(Records)
    BY DEF ShellInv, ShellTypes
  <2>3. commands[i] \in Records
    BY <2>2
  <2>4. commands[i].runner \in Nat
    BY <2>3 DEF Records, Shells!Runners
  <2>5. commands[i].runner <= children
    BY DEF ShellInv, CommandsOwned
  <2>6. commands[i].runner <= children'
    BY <2>1, <2>4, <2>5
  <2> QED BY <2>6 DEF ShellInv, CommandsOwned
<1>2. RecordedOwn'
  BY DEF ShellInv, RecordedOwn
<1>3. Shells!NothingOutlives' /\ Shells!OthersSpared' /\ Shells!KilledIsTold'
  BY DEF ShellInv, Shells!NothingOutlives, Shells!OthersSpared, Shells!KilledIsTold
<1> QED BY <1>1, <1>2, <1>3 DEF Outcomes

\* A step that changes one command: whose it is stays, what is gone stays gone, and
\* it may only be ended by its context, which it tells.
LEMMA OneChanged ==
  ASSUME ShellInv, UNCHANGED <<children, recorded, closed>>,
         call = "started" => call' = "started",
         NEW i \in DOMAIN commands, NEW c \in Records,
         commands' = [commands EXCEPT ![i] = c],
         c.runner = commands[i].runner, c.by = commands[i].by,
         commands[i].leader # "running" => c.leader # "running",
         commands[i].leader # "running" /\ ~commands[i].background => ~c.background,
         ~commands[i].file => ~c.file,
         c.killed \in {commands[i].killed, "context"},
         c.killed = "context" => c.status \in {"none", "timed_out", "canceled"}
  PROVE  /\ commands' \in Seq(Records) /\ Len(commands') = Len(commands)
         /\ DOMAIN commands' = DOMAIN commands
         /\ commands'[i] = c
         /\ \A j \in DOMAIN commands : j # i => commands'[j] = commands[j]
         /\ Outcomes'
<1>1. commands \in Seq(Records)
  BY DEF ShellInv, ShellTypes
<1>2. /\ commands' \in Seq(Records) /\ Len(commands') = Len(commands)
      /\ DOMAIN commands' = DOMAIN commands /\ commands'[i] = c
      /\ \A j \in DOMAIN commands : j # i => commands'[j] = commands[j]
  BY <1>1
<1>3. CommandsOwned'
  BY <1>2 DEF ShellInv, CommandsOwned
<1>4. RecordedOwn'
  BY <1>2 DEF ShellInv, RecordedOwn
<1>5. Shells!NothingOutlives'
  <2> SUFFICES ASSUME NEW j \in DOMAIN commands, closed[commands'[j].runner] = "at rest"
               PROVE  commands'[j].leader # "running" /\ ~commands'[j].background /\ ~commands'[j].file
    BY <1>2 DEF Shells!NothingOutlives
  <2>1. closed[commands[j].runner] = "at rest"
    BY <1>2
  <2>2. commands[j].leader # "running" /\ ~commands[j].background /\ ~commands[j].file
    BY <2>1 DEF ShellInv, Shells!NothingOutlives
  <2>3. CASE j = i
    BY <1>2, <2>2, <2>3
  <2>4. CASE j # i
    BY <1>2, <2>2, <2>4
  <2> QED BY <2>3, <2>4
<1>6. Shells!OthersSpared'
  <2> SUFFICES ASSUME NEW j \in DOMAIN commands
               PROVE  /\ commands'[j].killed \in {"no", "context", commands'[j].by}
                      /\ commands'[j].killed = commands'[j].by => closed[commands'[j].runner] # "no"
    BY <1>2 DEF Shells!OthersSpared
  <2>1. /\ commands[j].killed \in {"no", "context", commands[j].by}
        /\ commands[j].killed = commands[j].by => closed[commands[j].runner] # "no"
    BY DEF ShellInv, Shells!OthersSpared
  <2>2. commands[j] \in Records
    BY <1>1
  <2>3. CASE j = i
    BY <1>2, <2>1, <2>2, <2>3 DEF Records
  <2>4. CASE j # i
    BY <1>2, <2>1, <2>4
  <2> QED BY <2>3, <2>4
<1>7. Shells!KilledIsTold'
  BY <1>2 DEF ShellInv, Shells!KilledIsTold
<1> QED BY <1>2, <1>3, <1>4, <1>5, <1>6, <1>7 DEF Outcomes

\* A range that starts at one ends where its last member is.
LEMMA SameEnd == ASSUME NEW a \in Nat, NEW b \in Nat, 1 .. a = 1 .. b PROVE a = b
<1>1. CASE a < b
  <2>1. b \in 1 .. b /\ b \notin 1 .. a
    BY <1>1
  <2> QED BY <2>1
<1>2. CASE b < a
  <2>1. a \in 1 .. a /\ a \notin 1 .. b
    BY <1>2
  <2> QED BY <2>1
<1> QED BY <1>1, <1>2

\* The close of a runner ends and forgets what it recorded, on behalf of the agent it
\* belongs to; closed at rest, it recorded all its commands.
LEMMA CloseStep ==
  ASSUME ShellInv, MaxChildren \in Nat, NEW r \in Shells!Runners, NEW how \in {"at rest", "early"},
         Shells!Closing(r, how, IF r = 0 THEN "parent" ELSE "child"),
         closed[r] = "no", how = "at rest" => call = "none", UNCHANGED <<children, call>>
  PROVE  /\ commands' \in Seq(Records) /\ Len(commands') = Len(commands)
         /\ recorded' \in [Shells!Runners -> SUBSET Nat]
         /\ closed' \in [Shells!Runners -> {"no", "at rest", "early"}]
         /\ \A i \in DOMAIN commands :
              /\ commands'[i].runner = commands[i].runner /\ commands'[i].by = commands[i].by
              /\ commands'[i].status = commands[i].status
              /\ commands'[i].killed = "context" => commands[i].killed = "context"
         /\ Outcomes'
<1> DEFINE who == IF r = 0 THEN "parent" ELSE "child"
           gone(i) == [Shells!Dead(commands[i], who) EXCEPT !.file = FALSE]
<1>1. /\ commands' = [i \in DOMAIN commands |-> IF i \in recorded[r] THEN gone(i) ELSE commands[i]]
      /\ recorded' = [recorded EXCEPT ![r] = {}]
      /\ closed' = [closed EXCEPT ![r] = how]
  BY DEF Shells!Closing
<1>2. /\ commands \in Seq(Records)
      /\ recorded \in [Shells!Runners -> SUBSET Nat]
      /\ closed \in [Shells!Runners -> {"no", "at rest", "early"}]
  BY DEF ShellInv, ShellTypes
<1>3. ASSUME NEW i \in DOMAIN commands
      PROVE  commands[i] \in Records /\ commands[i].runner \in Shells!Runners
  <2>1. commands \in Seq(Records)
    BY <1>2
  <2>2. commands[i] \in Records
    BY <2>1, ElementOfSeq, LenProperties
  <2> QED BY <2>2 DEF Records
<1>4. ASSUME NEW i \in DOMAIN commands
      PROVE  /\ gone(i) \in Records
             /\ gone(i).runner = commands[i].runner /\ gone(i).by = commands[i].by
             /\ gone(i).status = commands[i].status
             /\ gone(i).leader # "running" /\ ~gone(i).background /\ ~gone(i).file
             /\ gone(i).killed \in {commands[i].killed, who}
  <2>1. commands[i] \in Records
    BY <1>3
  <2>2. who \in {"parent", "child"}
    OBVIOUS
  <2> HIDE DEF who
  <2> DEFINE d == Shells!Dead(commands[i], who)
  <2>3. /\ d \in Records
        /\ d.runner = commands[i].runner /\ d.by = commands[i].by /\ d.status = commands[i].status
        /\ d.killed \in {commands[i].killed, who}
    BY <2>1, <2>2 DEF Records, Shells!Dead
  <2>4. d.leader # "running" /\ ~d.background
    BY <2>1 DEF Records, Shells!Dead
  <2> HIDE DEF d
  <2>5. gone(i) = [d EXCEPT !.file = FALSE]
    BY DEF d
  <2> QED BY <2>3, <2>4, <2>5 DEF Records
<1> HIDE DEF gone, who
<1>5. /\ commands' \in Seq(Records) /\ Len(commands') = Len(commands)
      /\ DOMAIN commands' = DOMAIN commands
  <2> DEFINE n == Len(commands)
  <2>1. n \in Nat /\ DOMAIN commands = 1 .. n
    BY <1>2, LenProperties
  <2> HIDE DEF n
  <2>2. commands' \in [1 .. n -> Records]
    BY <1>1, <1>3, <1>4, <2>1
  <2>3. commands' \in Seq(Records)
    BY <2>1, <2>2, SeqDef
  <2>4. Len(commands') \in Nat /\ DOMAIN commands' = 1 .. Len(commands')
    BY <2>3, LenProperties
  <2>5. 1 .. Len(commands') = 1 .. n
    BY <2>2, <2>4
  <2>6. Len(commands') = n
    BY <2>1, <2>4, <2>5, SameEnd
  <2> QED BY <2>1, <2>3, <2>4, <2>6 DEF n
<1>6. ASSUME NEW i \in DOMAIN commands
      PROVE  /\ commands'[i].runner = commands[i].runner /\ commands'[i].by = commands[i].by
             /\ commands'[i].status = commands[i].status
             /\ commands'[i].killed \in {commands[i].killed, who}
             /\ i \in recorded[r] =>
                  commands'[i].leader # "running" /\ ~commands'[i].background
                  /\ ~commands'[i].file
             /\ i \notin recorded[r] => commands'[i] = commands[i]
  <2>1. CASE i \in recorded[r]
    BY <1>1, <1>4, <2>1
  <2>2. CASE i \notin recorded[r]
    BY <1>1, <2>2
  <2> QED BY <2>1, <2>2
<1>7. \A q \in Shells!Runners :
        IF q = r THEN recorded'[q] = {} /\ closed'[q] = how
                 ELSE recorded'[q] = recorded[q] /\ closed'[q] = closed[q]
  BY <1>1, <1>2
<1>8. CommandsOwned'
  <2> SUFFICES ASSUME NEW i \in DOMAIN commands
               PROVE  /\ commands[i].runner <= children
                      /\ commands[i].by = IF commands[i].runner = 0 THEN "parent" ELSE "child"
                      /\ closed'[commands[i].runner] = "no"
                         /\ i \notin recorded'[commands[i].runner] =>
                           call = "started" /\ i = Len(commands)
    BY <1>5, <1>6 DEF CommandsOwned
  <2>1. CASE commands[i].runner = r
    BY <1>7, <2>1 DEF ShellInv, CommandsOwned
  <2>2. CASE commands[i].runner # r
    BY <1>3, <1>7, <2>2 DEF ShellInv, CommandsOwned
  <2> QED BY <2>1, <2>2
<1>9. RecordedOwn'
  BY <1>5, <1>6, <1>7 DEF ShellInv, RecordedOwn
<1>10. Shells!NothingOutlives'
  <2> SUFFICES ASSUME NEW i \in DOMAIN commands, closed'[commands[i].runner] = "at rest"
               PROVE  commands'[i].leader # "running" /\ ~commands'[i].background
                      /\ ~commands'[i].file
    BY <1>5, <1>6 DEF Shells!NothingOutlives
  <2>1. CASE i \in recorded[r]
    BY <1>6, <2>1
  <2>2. CASE i \notin recorded[r]
    <3>1. commands'[i] = commands[i]
      BY <1>6, <2>2
    <3>2. CASE commands[i].runner = r
      <4>1. call = "none"
        BY <1>7, <3>2
      <4> QED BY <2>2, <3>2, <4>1 DEF ShellInv, CommandsOwned
    <3>3. CASE commands[i].runner # r
      <4>1. closed[commands[i].runner] = "at rest"
        BY <1>3, <1>7, <3>3
      <4> QED BY <3>1, <4>1 DEF ShellInv, Shells!NothingOutlives
    <3> QED BY <3>2, <3>3
  <2> QED BY <2>1, <2>2
<1>11. Shells!OthersSpared'
  <2> SUFFICES ASSUME NEW i \in DOMAIN commands
               PROVE  /\ commands'[i].killed \in {"no", "context", commands[i].by}
                      /\ commands'[i].killed = commands[i].by => closed'[commands[i].runner] # "no"
    BY <1>5, <1>6 DEF Shells!OthersSpared
  <2>1. /\ commands[i].killed \in {"no", "context", commands[i].by}
        /\ commands[i].killed = commands[i].by => closed[commands[i].runner] # "no"
    BY DEF ShellInv, Shells!OthersSpared
  <2>2. closed'[commands[i].runner] = "no" => closed[commands[i].runner] = "no"
    BY <1>3, <1>7
  <2>3. CASE i \in recorded[r]
    <3>1. commands[i].runner = r
      BY <2>3 DEF ShellInv, RecordedOwn
    <3>2. commands[i].by = who
      BY <3>1 DEF ShellInv, CommandsOwned, who
    <3>3. closed'[commands[i].runner] # "no"
      BY <1>7, <3>1
    <3> QED BY <1>6, <2>1, <3>2, <3>3
  <2>4. CASE i \notin recorded[r]
    BY <1>6, <2>1, <2>2, <2>4
  <2> QED BY <2>3, <2>4
<1>12. Shells!KilledIsTold'
  BY <1>5, <1>6 DEF ShellInv, Shells!KilledIsTold, who
<1> QED BY <1>1, <1>2, <1>5, <1>6, <1>8, <1>9, <1>10, <1>11, <1>12 DEF Outcomes, who

\* The steps of the call under way.
LEMMA CallStep == MaxChildren \in Nat /\ ShellInv /\ Shells!Call => ShellInv'
<1> SUFFICES ASSUME MaxChildren \in Nat, ShellInv, Shells!Call PROVE ShellInv'
  OBVIOUS
<1>1. ShellTypes /\ InFlight /\ RunnersOpen
  BY DEF ShellInv
<1>2. commands \in Seq(Records)
  BY <1>1 DEF ShellTypes
<1>3. ASSUME call # "none"
      PROVE  /\ Shells!Id \in DOMAIN commands /\ Shells!Command \in Records
             /\ Shells!Command = commands[Shells!Id]
             /\ Shells!Command.runner = Shells!Runner /\ Shells!Command.by = agent
             /\ Shells!Command.status = "none" /\ agent # "over"
             /\ Shells!Command.killed = "context" => cause # "none"
             /\ Shells!Command.runner \in Shells!Runners
  <2>1. commands # <<>>
    BY <1>1, <1>3 DEF InFlight
  <2>2. Shells!Id \in DOMAIN commands
    BY <1>2, <2>1 DEF Shells!Id
  <2>3. Shells!Command \in Records /\ Shells!Command = commands[Shells!Id]
    BY <1>2, <2>2, ElementOfSeq, LenProperties DEF Shells!Command
  <2>4. Shells!Command.runner \in Shells!Runners
    BY <2>3 DEF Records
  <2> QED BY <1>1, <1>3, <2>2, <2>3, <2>4 DEF InFlight
<1>4. CASE Shells!Track
  <2>1. /\ call = "started" /\ call' = "waiting"
        /\ recorded' = [recorded EXCEPT ![Shells!Command.runner] = @ \union {Shells!Id}]
        /\ UNCHANGED <<agent, children, commands, cause, closed>>
    BY <1>4 DEF Shells!Track
  <2>2. Shells!Id \in Nat /\ Shells!Id \in DOMAIN commands
        /\ Shells!Command = commands[Shells!Id] /\ Shells!Command.runner \in Shells!Runners
    BY <1>2, <1>3, <2>1 DEF Shells!Id
  <2>3. ShellTypes'
    BY <1>1, <2>1, <2>2 DEF ShellTypes
  <2>4. InFlight' /\ RunnersOpen'
    BY <1>1, <2>1 DEF InFlight, RunnersOpen, Shells!Command, Shells!Id, Shells!Runner
  <2>5. \A r \in Shells!Runners :
          recorded'[r] = IF r = Shells!Command.runner THEN recorded[r] \union {Shells!Id}
                                                     ELSE recorded[r]
    BY <1>1, <2>1 DEF ShellTypes
  <2>6. CommandsOwned'
    <3> SUFFICES ASSUME NEW j \in DOMAIN commands, closed[commands[j].runner] = "no"
                 PROVE  j \in recorded'[commands[j].runner]
      BY <2>1 DEF ShellInv, CommandsOwned
    <3>1. commands[j].runner \in Shells!Runners
      <4>1. commands[j] \in Records
        BY <1>2, ElementOfSeq, LenProperties
      <4> QED BY <4>1 DEF Records
    <3>2. CASE j = Shells!Id
      BY <2>2, <2>5, <3>2
    <3>3. CASE j # Shells!Id
      BY <2>5, <3>1, <3>3 DEF ShellInv, CommandsOwned, Shells!Id
    <3> QED BY <3>2, <3>3
  <2>7. RecordedOwn'
    BY <2>1, <2>2, <2>5 DEF ShellInv, RecordedOwn
  <2>8. Shells!NothingOutlives' /\ Shells!OthersSpared' /\ Shells!KilledIsTold'
    BY <2>1 DEF ShellInv, Shells!NothingOutlives, Shells!OthersSpared, Shells!KilledIsTold
  <2> QED BY <2>3, <2>4, <2>6, <2>7, <2>8 DEF ShellInv
<1>5. CASE Shells!KillGroup
  <2> DEFINE c == Shells!Dead(Shells!Command, "context")
  <2>1. /\ call # "none" /\ cause # "none"
        /\ commands' = [commands EXCEPT ![Shells!Id] = Shells!Dead(@, "context")]
        /\ UNCHANGED <<agent, children, call, cause, recorded, closed>>
    BY <1>5 DEF Shells!KillGroup
  <2>2. commands' = [commands EXCEPT ![Shells!Id] = c]
    BY <1>3, <2>1
  <2>3. /\ c \in Records
        /\ c.runner = Shells!Command.runner /\ c.by = Shells!Command.by
        /\ c.status = Shells!Command.status /\ c.file = Shells!Command.file
        /\ c.killed \in {Shells!Command.killed, "context"}
    BY <1>3, <2>1 DEF Records, Shells!Dead
  <2>4. c.leader # "running" /\ ~c.background
    BY <1>3, <2>1 DEF Records, Shells!Dead
  <2> HIDE DEF c
  <2>5. /\ commands' \in Seq(Records) /\ Len(commands') = Len(commands)
        /\ commands'[Shells!Id] = c /\ Outcomes'
    <3>1. /\ Shells!Id \in DOMAIN commands /\ c \in Records
          /\ c.runner = commands[Shells!Id].runner /\ c.by = commands[Shells!Id].by
          /\ c.killed \in {commands[Shells!Id].killed, "context"}
      BY <1>3, <2>1, <2>3
    <3>2. /\ commands[Shells!Id].leader # "running" => c.leader # "running"
          /\ commands[Shells!Id].leader # "running" /\ ~commands[Shells!Id].background
               => ~c.background
          /\ ~commands[Shells!Id].file => ~c.file
          /\ c.killed = "context" => c.status \in {"none", "timed_out", "canceled"}
      BY <1>3, <2>1, <2>3, <2>4
    <3>3. UNCHANGED <<children, recorded, closed>> /\ (call = "started" => call' = "started")
      BY <2>1
    <3> QED BY <2>2, <3>1, <3>2, <3>3, OneChanged
  <2>6. ShellTypes'
    BY <1>1, <2>1, <2>5 DEF ShellTypes
  <2>7. RunnersOpen'
    BY <1>1, <2>1 DEF RunnersOpen
  <2>8. InFlight'
    <3>1. Shells!Command' = c /\ Shells!Runner' = Shells!Runner
      BY <2>1, <2>5 DEF Shells!Command, Shells!Id, Shells!Runner
    <3>2. commands' # <<>>
      BY <1>2, <1>3, <2>1, <2>5
    <3> QED BY <1>3, <2>1, <2>3, <3>1, <3>2 DEF InFlight
  <2> QED BY <2>5, <2>6, <2>7, <2>8 DEF ShellInv, Outcomes
<1>6. CASE Shells!Wait
  <2>1. /\ call = "waiting" /\ call' = "waited"
        /\ UNCHANGED <<agent, children, commands, cause, recorded, closed>>
    BY <1>6 DEF Shells!Wait
  <2>2. ShellTypes'
    BY <1>1, <2>1 DEF ShellTypes
  <2>3. InFlight' /\ RunnersOpen'
    BY <1>1, <2>1 DEF InFlight, RunnersOpen, Shells!Command, Shells!Id, Shells!Runner
  <2>4. children \in Shells!Runners /\ children <= children
    <3>1. children \in 0 .. MaxChildren
      BY <1>1 DEF ShellTypes, Shells!Runners
    <3> QED BY <3>1 DEF Shells!Runners
  <2>5. Outcomes'
    BY <2>1, <2>4, NoneChanged
  <2> QED BY <2>2, <2>3, <2>5 DEF ShellInv, Outcomes
<1>7. CASE Shells!Result
  <2> DEFINE c == [Shells!Command EXCEPT !.status = Shells!Status]
  <2>1. /\ call = "waited" /\ call' = "none" /\ cause' = "none"
        /\ commands' = [commands EXCEPT ![Shells!Id].status = Shells!Status]
        /\ UNCHANGED <<agent, children, recorded, closed>>
    BY <1>7 DEF Shells!Result
  <2>2. commands' = [commands EXCEPT ![Shells!Id] = c]
    BY <1>3, <2>1
  <2>3. /\ Shells!Status \in {"timed_out", "canceled", "completed", "execution_error"}
        /\ cause # "none" => Shells!Status \in {"timed_out", "canceled"}
    BY <1>1 DEF Shells!Status, ShellTypes, Causes
  <2>4. /\ c \in Records
        /\ c.runner = Shells!Command.runner /\ c.by = Shells!Command.by
        /\ c.status = Shells!Status /\ c.killed = Shells!Command.killed
    BY <1>3, <2>1, <2>3 DEF Records
  <2>5. /\ c.file = Shells!Command.file /\ c.leader = Shells!Command.leader
        /\ c.background = Shells!Command.background
    BY <1>3, <2>1, <2>3 DEF Records
  <2> HIDE DEF c
  <2>6. /\ commands' \in Seq(Records) /\ Len(commands') = Len(commands) /\ Outcomes'
    <3>1. /\ Shells!Id \in DOMAIN commands /\ c \in Records
          /\ c.runner = commands[Shells!Id].runner /\ c.by = commands[Shells!Id].by
          /\ c.killed \in {commands[Shells!Id].killed, "context"}
      BY <1>3, <2>1, <2>4
    <3>2. /\ commands[Shells!Id].leader # "running" => c.leader # "running"
          /\ commands[Shells!Id].leader # "running" /\ ~commands[Shells!Id].background
               => ~c.background
          /\ ~commands[Shells!Id].file => ~c.file
      BY <1>3, <2>1, <2>5
    <3>3. c.killed = "context" => c.status \in {"none", "timed_out", "canceled"}
      BY <1>3, <2>1, <2>3, <2>4
    <3>4. UNCHANGED <<children, recorded, closed>> /\ (call = "started" => call' = "started")
      BY <2>1
    <3> QED BY <2>2, <3>1, <3>2, <3>3, <3>4, OneChanged
  <2>7. ShellTypes'
    BY <1>1, <2>1, <2>6 DEF ShellTypes, Causes
  <2>8. RunnersOpen' /\ InFlight'
    BY <1>1, <2>1 DEF RunnersOpen, InFlight
  <2> QED BY <2>6, <2>7, <2>8 DEF ShellInv, Outcomes
<1> QED BY <1>4, <1>5, <1>6, <1>7 DEF Shells!Call

\* The steps of the system, of the user and of the timer.
LEMMA OutsideStep ==
  MaxChildren \in Nat /\ ShellInv
  /\ (Shells!Expire \/ Shells!LeaderExits \/ Shells!Background \/ Shells!Cancel) => ShellInv'
<1> SUFFICES ASSUME MaxChildren \in Nat, ShellInv,
                    Shells!Expire \/ Shells!LeaderExits \/ Shells!Background \/ Shells!Cancel
             PROVE  ShellInv'
  OBVIOUS
<1>1. ShellTypes /\ InFlight /\ RunnersOpen
  BY DEF ShellInv
<1>2. commands \in Seq(Records)
  BY <1>1 DEF ShellTypes
<1>3. CASE Shells!Expire \/ Shells!Cancel
  <2>1. UNCHANGED <<agent, children, commands, call, recorded, closed>>
    BY <1>3 DEF Shells!Expire, Shells!Cancel
  <2>2. cause' # cause => call # "none" /\ cause' \in {"deadline", "cancel"}
    <3>1. CASE Shells!Expire
      BY <3>1 DEF Shells!Expire
    <3>2. CASE Shells!Cancel
      BY <3>2 DEF Shells!Cancel
    <3> QED BY <1>3, <3>1, <3>2
  <2>3. ShellTypes'
    BY <1>1, <2>1, <2>2 DEF ShellTypes, Causes
  <2>4. InFlight' /\ RunnersOpen'
    BY <1>1, <2>1, <2>2 DEF InFlight, RunnersOpen, Shells!Command, Shells!Id, Shells!Runner
  <2>5. children \in Shells!Runners /\ children <= children
    <3>1. children \in 0 .. MaxChildren
      BY <1>1 DEF ShellTypes, Shells!Runners
    <3> QED BY <3>1 DEF Shells!Runners
  <2>6. Outcomes'
    BY <2>1, <2>5, NoneChanged
  <2> QED BY <2>3, <2>4, <2>6 DEF ShellInv, Outcomes
<1>4. CASE Shells!LeaderExits \/ Shells!Background
  <2>1. UNCHANGED <<agent, children, call, cause, recorded, closed>>
    BY <1>4 DEF Shells!LeaderExits, Shells!Background
  <2>2. \E i \in DOMAIN commands, c \in Records :
          /\ commands' = [commands EXCEPT ![i] = c]
          /\ c.runner = commands[i].runner /\ c.by = commands[i].by
          /\ c.killed = commands[i].killed /\ c.status = commands[i].status
          /\ c.file = commands[i].file
          /\ commands[i].leader # "running" => c.leader # "running"
          /\ commands[i].leader # "running" /\ ~commands[i].background => ~c.background
    <3>1. CASE Shells!LeaderExits
      <4>1. PICK i \in 1 .. Shells!Id :
              /\ commands[i].leader = "running"
              /\ commands' = [commands EXCEPT ![i].leader = "exited"]
        BY <3>1 DEF Shells!LeaderExits
      <4> DEFINE c == [commands[i] EXCEPT !.leader = "exited"]
      <4>2. i \in DOMAIN commands /\ commands[i] \in Records
        BY <1>2, ElementOfSeq, LenProperties DEF Shells!Id
      <4>3. c \in Records /\ commands' = [commands EXCEPT ![i] = c]
        BY <4>1, <4>2 DEF Records
      <4>4. /\ c.runner = commands[i].runner /\ c.by = commands[i].by
            /\ c.killed = commands[i].killed /\ c.status = commands[i].status
            /\ c.file = commands[i].file /\ c.background = commands[i].background
            /\ c.leader # "running"
        BY <4>2 DEF Records
      <4> HIDE DEF c
      <4> QED BY <4>1, <4>2, <4>3, <4>4
    <3>2. CASE Shells!Background
      <4>1. PICK i \in 1 .. Shells!Id :
              /\ commands[i].background \/ commands[i].leader = "running"
              /\ commands' = [commands EXCEPT ![i].background = ~@]
        BY <3>2 DEF Shells!Background
      <4> DEFINE c == [commands[i] EXCEPT !.background = ~@]
      <4>2. i \in DOMAIN commands /\ commands[i] \in Records
        BY <1>2, ElementOfSeq, LenProperties DEF Shells!Id
      <4>3. c \in Records /\ commands' = [commands EXCEPT ![i] = c]
        BY <4>1, <4>2 DEF Records
      <4>4. /\ c.runner = commands[i].runner /\ c.by = commands[i].by
            /\ c.killed = commands[i].killed /\ c.status = commands[i].status
            /\ c.file = commands[i].file /\ c.leader = commands[i].leader
        BY <4>2 DEF Records
      <4>5. commands[i].background => ~c.background
        BY <4>2 DEF Records
      <4> HIDE DEF c
      <4>6. commands[i].leader # "running" /\ ~commands[i].background => ~c.background
        BY <4>1
      <4> QED BY <4>1, <4>2, <4>3, <4>4, <4>6
    <3> QED BY <1>4, <3>1, <3>2
  <2>3. PICK i \in DOMAIN commands, c \in Records :
          /\ commands' = [commands EXCEPT ![i] = c]
          /\ c.runner = commands[i].runner /\ c.by = commands[i].by
          /\ c.killed = commands[i].killed /\ c.status = commands[i].status
          /\ c.file = commands[i].file
          /\ commands[i].leader # "running" => c.leader # "running"
          /\ commands[i].leader # "running" /\ ~commands[i].background => ~c.background
    BY <2>2
  <2>4. /\ commands' \in Seq(Records) /\ Len(commands') = Len(commands)
        /\ commands'[i] = c
        /\ \A j \in DOMAIN commands : j # i => commands'[j] = commands[j]
        /\ Outcomes'
    <3>1. UNCHANGED <<children, recorded, closed>> /\ (call = "started" => call' = "started")
      BY <2>1
    <3>2. c.killed = "context" => c.status \in {"none", "timed_out", "canceled"}
      BY <2>3 DEF ShellInv, Shells!KilledIsTold
    <3>3. /\ c.killed \in {commands[i].killed, "context"}
          /\ ~commands[i].file => ~c.file
      BY <2>3
    <3> QED BY <2>3, <3>1, <3>2, <3>3, OneChanged
  <2>5. ShellTypes' /\ RunnersOpen'
    BY <1>1, <2>1, <2>4 DEF ShellTypes, RunnersOpen
  <2>6. InFlight'
    <3>1. CASE call = "none"
      BY <1>1, <2>1, <3>1 DEF InFlight
    <3>2. CASE call # "none"
      <4>1. Shells!Id \in DOMAIN commands /\ Shells!Id' = Shells!Id /\ commands' # <<>>
        BY <1>1, <1>2, <2>4, <3>2 DEF InFlight, Shells!Id
      <4>2. /\ Shells!Command'.runner = Shells!Command.runner
            /\ Shells!Command'.by = Shells!Command.by
            /\ Shells!Command'.status = Shells!Command.status
            /\ Shells!Command'.killed = Shells!Command.killed
        BY <2>3, <2>4, <4>1 DEF Shells!Command
      <4>3. Shells!Runner' = Shells!Runner
        BY <2>1 DEF Shells!Runner
      <4> QED BY <1>1, <2>1, <3>2, <4>1, <4>2, <4>3 DEF InFlight
    <3> QED BY <3>1, <3>2
  <2> QED BY <2>4, <2>5, <2>6 DEF ShellInv, Outcomes
<1> QED BY <1>3, <1>4

\* The steps between calls: a sub-agent begins, an agent is done with its runner.
LEMMA AgentStep ==
  MaxChildren \in Nat /\ ShellInv
  /\ (\/ Shells!SubAgent \/ Shells!SubAgentEnds \/ Shells!Cleanup \/ Shells!CleanupOfCli
      \/ Shells!ChatEnds) => ShellInv'
<1> SUFFICES ASSUME MaxChildren \in Nat, ShellInv,
                    \/ Shells!SubAgent \/ Shells!SubAgentEnds \/ Shells!Cleanup
                    \/ Shells!CleanupOfCli \/ Shells!ChatEnds
             PROVE  ShellInv'
  OBVIOUS
<1>1. ShellTypes /\ InFlight /\ RunnersOpen
  BY DEF ShellInv
<1>2. children \in 0 .. MaxChildren
  BY <1>1 DEF ShellTypes, Shells!Runners
<1>3. CASE Shells!SubAgent
  <2>1. /\ agent = "parent" /\ call = "none" /\ agent' = "child" /\ children' = children + 1
        /\ children < MaxChildren
        /\ UNCHANGED <<commands, call, cause, recorded, closed>>
    BY <1>3 DEF Shells!SubAgent
  <2>2. children' \in Shells!Runners /\ children <= children' /\ children' > 0
    BY <1>2, <2>1 DEF Shells!Runners
  <2>3. ShellTypes' /\ InFlight'
    BY <1>1, <2>1, <2>2 DEF ShellTypes, InFlight
  <2>4. RunnersOpen'
    <3>1. \A r \in 0 .. MaxChildren : r > children => closed[r] = "no"
      BY <1>1 DEF RunnersOpen, Shells!Runners
    <3>2. children + 1 \in 0 .. MaxChildren /\ children + 1 > children
      BY <1>2, <2>1
    <3>3. closed[children + 1] = "no"
      BY <3>1, <3>2
    <3>4. closed[0] # "at rest"
      BY <1>1, <2>1 DEF RunnersOpen
    <3>5. \A r \in 0 .. MaxChildren : r > children + 1 => closed[r] = "no"
      BY <1>2, <3>1
    <3> QED BY <2>1, <2>2, <3>3, <3>4, <3>5 DEF RunnersOpen, Shells!Runners
  <2>5. Outcomes'
    BY <2>1, <2>2, NoneChanged
  <2> QED BY <2>3, <2>4, <2>5 DEF ShellInv, Outcomes
<1>4. CASE Shells!ChatEnds
  <2>1. /\ call = "none" /\ agent' = "over"
        /\ UNCHANGED <<children, commands, call, cause, recorded, closed>>
    BY <1>4 DEF Shells!ChatEnds
  <2>2. children \in Shells!Runners /\ children <= children
    BY <1>2 DEF Shells!Runners
  <2>3. ShellTypes' /\ InFlight' /\ RunnersOpen'
    BY <1>1, <2>1 DEF ShellTypes, InFlight, RunnersOpen
  <2>4. Outcomes'
    BY <2>1, <2>2, NoneChanged
  <2> QED BY <2>3, <2>4 DEF ShellInv, Outcomes
<1>5. CASE Shells!SubAgentEnds
  <2>1. /\ agent = "child" /\ call = "none" /\ agent' = "parent"
        /\ Shells!Closing(children, "at rest", "child")
        /\ UNCHANGED <<children, call, cause>>
    BY <1>5 DEF Shells!SubAgentEnds, Shells!Runner
  <2>2. children > 0 /\ closed[children] = "no"
    BY <1>1, <2>1 DEF RunnersOpen
  <2>3. children \in Shells!Runners /\ children # 0
    BY <1>2, <2>2 DEF Shells!Runners
  <2>4. /\ commands' \in Seq(Records) /\ Outcomes'
        /\ recorded' \in [Shells!Runners -> SUBSET Nat]
        /\ closed' \in [Shells!Runners -> {"no", "at rest", "early"}]
    BY <2>1, <2>2, <2>3, CloseStep
  <2>5. ShellTypes' /\ InFlight'
    BY <1>1, <2>1, <2>4 DEF ShellTypes, InFlight
  <2>6. closed' = [closed EXCEPT ![children] = "at rest"]
    BY <2>1 DEF Shells!Closing
  <2>7. RunnersOpen'
    <3>1. \A q \in Shells!Runners : q # children => closed'[q] = closed[q]
      BY <1>1, <2>6 DEF ShellTypes
    <3>2. closed'[children] = "at rest"
      BY <1>1, <2>3, <2>6 DEF ShellTypes
    <3>3. 0 \in Shells!Runners
      BY DEF Shells!Runners
    <3>4. \A q \in Shells!Runners : q > children => q # children
      BY <1>2 DEF Shells!Runners
    <3> QED BY <1>1, <2>1, <2>3, <3>1, <3>2, <3>3, <3>4 DEF RunnersOpen
  <2> QED BY <2>4, <2>5, <2>7 DEF ShellInv, Outcomes
<1>6. CASE Shells!Cleanup
  <2>1. /\ agent = "parent" /\ call = "none" /\ agent' = "over" /\ closed[0] = "no"
        /\ Shells!Closing(0, "at rest", "parent")
        /\ UNCHANGED <<children, call, cause>>
    BY <1>6 DEF Shells!Cleanup
  <2>2. 0 \in Shells!Runners
    BY DEF Shells!Runners
  <2>3. /\ commands' \in Seq(Records) /\ Outcomes'
        /\ recorded' \in [Shells!Runners -> SUBSET Nat]
        /\ closed' \in [Shells!Runners -> {"no", "at rest", "early"}]
    BY <2>1, <2>2, CloseStep
  <2>4. ShellTypes' /\ InFlight'
    BY <1>1, <2>1, <2>3 DEF ShellTypes, InFlight
  <2>5. closed' = [closed EXCEPT ![0] = "at rest"]
    BY <2>1 DEF Shells!Closing
  <2>6. RunnersOpen'
    <3>1. \A q \in Shells!Runners : q # 0 => closed'[q] = closed[q]
      BY <1>1, <2>5 DEF ShellTypes
    <3>2. closed'[0] = "at rest"
      BY <1>1, <2>2, <2>5 DEF ShellTypes
    <3>3. 0 \in Shells!Runners
      BY DEF Shells!Runners
    <3>4. \A q \in Shells!Runners : q > children => q # 0
      BY <1>2 DEF Shells!Runners
    <3> QED BY <1>1, <2>1, <2>2, <3>1, <3>2, <3>3, <3>4 DEF RunnersOpen
  <2> QED BY <2>3, <2>4, <2>6 DEF ShellInv, Outcomes
<1>7. CASE Shells!CleanupOfCli
  <2>1. /\ agent # "over" /\ closed[0] = "no"
        /\ Shells!Closing(0, "early", "parent")
        /\ UNCHANGED <<agent, children, call, cause>>
    BY <1>7 DEF Shells!CleanupOfCli
  <2>2. 0 \in Shells!Runners
    BY DEF Shells!Runners
  <2>3. /\ commands' \in Seq(Records) /\ Len(commands') = Len(commands) /\ Outcomes'
        /\ recorded' \in [Shells!Runners -> SUBSET Nat]
        /\ closed' \in [Shells!Runners -> {"no", "at rest", "early"}]
        /\ \A i \in DOMAIN commands :
             /\ commands'[i].runner = commands[i].runner /\ commands'[i].by = commands[i].by
             /\ commands'[i].status = commands[i].status
             /\ commands'[i].killed = "context" => commands[i].killed = "context"
    BY <2>1, <2>2, CloseStep
  <2>4. ShellTypes'
    BY <1>1, <2>1, <2>3 DEF ShellTypes
  <2>5. closed' = [closed EXCEPT ![0] = "early"]
    BY <2>1 DEF Shells!Closing
  <2>6. RunnersOpen'
    <3>1. \A q \in Shells!Runners : q # 0 => closed'[q] = closed[q]
      BY <1>1, <2>5 DEF ShellTypes
    <3>2. closed'[0] = "early"
      BY <1>1, <2>2, <2>5 DEF ShellTypes
    <3>3. 0 \in Shells!Runners
      BY DEF Shells!Runners
    <3>4. \A q \in Shells!Runners : q > children => q # 0
      BY <1>2 DEF Shells!Runners
    <3>5. children \in Shells!Runners
      BY <1>2 DEF Shells!Runners
    <3>6. agent = "child" => children # 0 /\ closed[children] = "no"
      BY <1>1, <2>1 DEF RunnersOpen
    <3> QED BY <1>1, <2>1, <2>2, <3>1, <3>2, <3>3, <3>4, <3>5, <3>6 DEF RunnersOpen
  <2>7. InFlight'
    <3>1. CASE call = "none"
      BY <1>1, <2>1, <3>1 DEF InFlight
    <3>2. CASE call # "none"
      <4>1. commands \in Seq(Records) /\ commands # <<>>
        BY <1>1, <3>2 DEF ShellTypes, InFlight
      <4>2. Shells!Id \in DOMAIN commands /\ Shells!Id' = Shells!Id /\ commands' # <<>>
        <5>1. Len(commands) \in Nat \ {0}
          BY <4>1, EmptySeq
        <5>2. commands' \in Seq(Records) /\ Len(commands') = Len(commands)
          BY <2>3
        <5> QED BY <4>1, <5>1, <5>2, LenProperties, EmptySeq DEF Shells!Id
      <4>3. /\ Shells!Command'.runner = Shells!Command.runner
            /\ Shells!Command'.by = Shells!Command.by
            /\ Shells!Command'.status = Shells!Command.status
            /\ Shells!Command'.killed = "context" => Shells!Command.killed = "context"
        BY <2>3, <4>2 DEF Shells!Command
      <4>4. Shells!Runner' = Shells!Runner
        BY <2>1 DEF Shells!Runner
      <4> QED BY <1>1, <2>1, <3>2, <4>2, <4>3, <4>4 DEF InFlight
    <3> QED BY <3>1, <3>2
  <2> QED BY <2>3, <2>4, <2>6, <2>7 DEF ShellInv, Outcomes
<1> QED BY <1>3, <1>4, <1>5, <1>6, <1>7

\* The inductive invariant of the commands of an agent.
THEOREM ShellsInvariance == Shells!Spec => []ShellInv
<1>1. Shells!Init => ShellInv
  BY ShellInit, ProcessesAssumption
<1>2. ShellInv /\ [Shells!Next]_(Shells!vars) => ShellInv'
  <2> SUFFICES ASSUME ShellInv, [Shells!Next]_(Shells!vars) PROVE ShellInv'
    OBVIOUS
  <2>1. CASE Shells!Done \/ UNCHANGED Shells!vars
    <3>1. UNCHANGED Shells!vars
      BY <2>1 DEF Shells!Done
    <3> QED
      BY <3>1 DEF Shells!vars, ShellInv, ShellTypes, InFlight, RunnersOpen, CommandsOwned,
         RecordedOwn, Shells!NothingOutlives, Shells!OthersSpared, Shells!KilledIsTold,
         Shells!Command, Shells!Id, Shells!Runner
  <2> QED
    BY <2>1, ProcessesAssumption, StartStep, CallStep, OutsideStep, AgentStep DEF Shells!Next
<1> QED BY <1>1, <1>2, PTL DEF Shells!Spec

\* What an agent starts is contained, for any number of commands and of sub-agents:
\* nothing outlives a runner that is closed at rest, nobody's commands are ended for
\* another's end, and what a context ended is told so (bash.go, shell.go, subagent.go).
THEOREM ShellsContain == Shells!Spec => []CommandsContained
<1>1. ShellInv => CommandsContained
  BY DEF ShellInv, CommandsContained
<1> QED BY <1>1, ShellsInvariance, PTL

-----------------------------------------------------------------------------
(* A streamed generation.  The provider shows what it is told, event by    *)
(* event (Shown); what it holds of a text, of the calls and of the         *)
(* reasoning is the first part of what was said, and the rest is under way *)
(* in order (Lane), or was cut off where the connection broke.             *)

(* The provider, event by event.                                           *)

\* What the provider assembles has the fields of what it starts with.
Shaped(p) ==
  /\ p = [msg |-> p.msg, textStarted |-> p.textStarted, reasoningStarted |-> p.reasoningStarted,
          pending |-> p.pending, chunks |-> p.chunks, result |-> p.result]
  /\ p.msg = [content |-> p.msg.content, reasoning |-> p.msg.reasoning, calls |-> p.msg.calls,
              finish |-> p.msg.finish]

Has(q, content, reasoning, calls, finish, pending, result) ==
  /\ Shaped(q)
  /\ q.msg.content = content /\ q.msg.reasoning = reasoning /\ q.msg.calls = calls
  /\ q.msg.finish = finish /\ q.pending = pending /\ q.result = result

\* The same message, of which nothing has changed.
Unmoved(p, q) ==
  Has(q, p.msg.content, p.msg.reasoning, p.msg.calls, p.msg.finish, p.pending, p.result)

Showing(q, inText, inThought, chunks) ==
  q.textStarted = inText /\ q.reasoningStarted = inThought /\ q.chunks = chunks

With(chunks, kind, what) == Append(chunks, [kind |-> kind, what |-> what])

Opening(chunks, isOpen, kind) == IF isOpen THEN chunks ELSE With(chunks, kind, 0)

\* Emit adds one chunk behind the others and changes nothing else.
LEMMA EmitIs ==
  ASSUME NEW p, Shaped(p), NEW kind, NEW what, NEW q, q = Stream!Emit(p, kind, what)
  PROVE  Unmoved(p, q) /\ Showing(q, p.textStarted, p.reasoningStarted, With(p.chunks, kind, what))
<1>1. PICK cs : cs = With(p.chunks, kind, what)
  OBVIOUS
<1>2. q = [p EXCEPT !.chunks = cs]
  BY <1>1 DEF Stream!Emit, With
<1>3. q = [msg |-> p.msg, textStarted |-> p.textStarted,
           reasoningStarted |-> p.reasoningStarted, pending |-> p.pending, chunks |-> cs,
           result |-> p.result]
  BY <1>2 DEF Shaped
<1> QED BY <1>1, <1>3 DEF Shaped, Unmoved, Has, Showing

\* A text or a reasoning that is not open is opened by a chunk, and only then.
LEMMA OpenedIs ==
  ASSUME NEW p, Shaped(p), NEW isOpen \in BOOLEAN, NEW kind,
         NEW q, q = IF isOpen THEN p ELSE Stream!Emit(p, kind, 0)
  PROVE  /\ Unmoved(p, q)
         /\ Showing(q, p.textStarted, p.reasoningStarted, Opening(p.chunks, isOpen, kind))
<1>1. CASE isOpen
  BY <1>1 DEF Unmoved, Has, Showing, Opening
<1>2. CASE ~isOpen
  <2>1. q = Stream!Emit(p, kind, 0) /\ Opening(p.chunks, isOpen, kind) = With(p.chunks, kind, 0)
    BY <1>2 DEF Opening
  <2> QED BY <2>1, EmitIs
<1> QED BY <1>1, <1>2

\* A piece of text is added to the content and shown, in a text that is open.
LEMMA OnTextDeltaIs ==
  ASSUME NEW p, Shaped(p), p.textStarted \in BOOLEAN, NEW piece,
         NEW q, q = Stream!OnTextDelta(p, piece)
  PROVE  /\ Has(q, Append(p.msg.content, piece), p.msg.reasoning, p.msg.calls, p.msg.finish,
                   p.pending, p.result)
         /\ Showing(q, TRUE, p.reasoningStarted,
                    With(Opening(p.chunks, p.textStarted, "text_start"), "text_delta", piece))
<1>1. PICK o : o = IF p.textStarted THEN p ELSE Stream!Emit(p, "text_start", 0)
  OBVIOUS
<1>2. Unmoved(p, o) /\ Showing(o, p.textStarted, p.reasoningStarted,
                               Opening(p.chunks, p.textStarted, "text_start"))
  BY <1>1, OpenedIs
<1>3. PICK r : r = [o EXCEPT !.textStarted = TRUE, !.msg.content = Append(@, piece)]
  OBVIOUS
<1>4. PICK yes : yes = TRUE
  OBVIOUS
<1>5. PICK c : c = Append(p.msg.content, piece)
  OBVIOUS
<1>6. r = [msg |-> [content |-> c, reasoning |-> o.msg.reasoning, calls |-> o.msg.calls,
                    finish |-> o.msg.finish],
           textStarted |-> yes, reasoningStarted |-> o.reasoningStarted, pending |-> o.pending,
           chunks |-> o.chunks, result |-> o.result]
  <2>1. PICK m : m = [o.msg EXCEPT !.content = c]
    OBVIOUS
  <2>2. r = [[o EXCEPT !.textStarted = yes] EXCEPT !.msg = m]
    BY <1>2, <1>3, <1>4, <1>5, <2>1 DEF Unmoved, Has, Shaped
  <2> QED BY <1>2, <2>1, <2>2 DEF Unmoved, Has, Shaped
<1>7. /\ Has(r, c, p.msg.reasoning, p.msg.calls, p.msg.finish, p.pending, p.result)
      /\ Showing(r, yes, p.reasoningStarted, o.chunks)
  BY <1>2, <1>6 DEF Unmoved, Has, Shaped, Showing
<1>8. q = Stream!Emit(r, "text_delta", piece)
  BY <1>1, <1>3, Zenon DEF Stream!OnTextDelta
<1>9. Unmoved(r, q) /\ Showing(q, r.textStarted, r.reasoningStarted,
                               With(r.chunks, "text_delta", piece))
  BY <1>7, <1>8, EmitIs DEF Has
<1>10. Has(q, c, p.msg.reasoning, p.msg.calls, p.msg.finish, p.pending, p.result)
  BY <1>7, <1>9 DEF Unmoved, Has
<1>11. Showing(q, yes, p.reasoningStarted, With(o.chunks, "text_delta", piece))
  BY <1>7, <1>9 DEF Showing
<1> QED BY <1>2, <1>4, <1>5, <1>10, <1>11, Zenon DEF Showing

\* The end of a text closes it if it is open; the message stays.
LEMMA OnTextDoneIs ==
  ASSUME NEW p, Shaped(p), p.textStarted \in BOOLEAN, NEW q, q = Stream!OnTextDone(p)
  PROVE  /\ Unmoved(p, q)
         /\ Showing(q, FALSE, p.reasoningStarted,
                    IF p.textStarted THEN With(p.chunks, "text_end", 0) ELSE p.chunks)
<1>1. PICK no : no = FALSE
  OBVIOUS
<1>2. CASE p.textStarted
  <2>1. PICK o : o = Stream!Emit(p, "text_end", 0)
    OBVIOUS
  <2>2. Unmoved(p, o) /\ Showing(o, p.textStarted, p.reasoningStarted,
                                 With(p.chunks, "text_end", 0))
    BY <2>1, EmitIs
  <2>3. q = [o EXCEPT !.textStarted = no]
    BY <1>1, <1>2, <2>1, Zenon DEF Stream!OnTextDone
  <2>4. Unmoved(p, q) /\ Showing(q, no, p.reasoningStarted, With(p.chunks, "text_end", 0))
    BY <2>2, <2>3 DEF Unmoved, Has, Shaped, Showing
  <2> QED BY <1>1, <1>2, <2>4, Zenon
<1>3. CASE ~p.textStarted
  <2>1. q = p
    BY <1>3, Zenon DEF Stream!OnTextDone
  <2>2. p.textStarted = FALSE
    BY <1>3
  <2>3. Unmoved(p, q)
    BY <2>1 DEF Unmoved, Has
  <2> QED BY <1>3, <2>1, <2>2, <2>3, Zenon DEF Showing
<1> QED BY <1>2, <1>3

\* A piece of reasoning is collected for its item and shown; the message stays.
LEMMA OnReasoningDeltaIs ==
  ASSUME NEW p, Shaped(p), p.reasoningStarted \in BOOLEAN, NEW piece,
         NEW q, q = Stream!OnReasoningDelta(p, piece)
  PROVE  /\ Has(q, p.msg.content, p.msg.reasoning, p.msg.calls, p.msg.finish,
                   Append(p.pending, piece), p.result)
         /\ Showing(q, p.textStarted, TRUE,
                    With(Opening(p.chunks, p.reasoningStarted, "reasoning_start"),
                         "reasoning_delta", piece))
<1>1. PICK o : o = IF p.reasoningStarted THEN p ELSE Stream!Emit(p, "reasoning_start", 0)
  OBVIOUS
<1>2. Unmoved(p, o) /\ Showing(o, p.textStarted, p.reasoningStarted,
                               Opening(p.chunks, p.reasoningStarted, "reasoning_start"))
  BY <1>1, OpenedIs
<1>3. PICK r : r = [o EXCEPT !.reasoningStarted = TRUE, !.pending = Append(@, piece)]
  OBVIOUS
<1>4. PICK yes : yes = TRUE
  OBVIOUS
<1>5. PICK c : c = Append(p.pending, piece)
  OBVIOUS
<1>6. r = [msg |-> o.msg, textStarted |-> o.textStarted, reasoningStarted |-> yes,
           pending |-> c, chunks |-> o.chunks, result |-> o.result]
  <2>1. r = [[o EXCEPT !.reasoningStarted = yes] EXCEPT !.pending = c]
    BY <1>2, <1>3, <1>4, <1>5 DEF Unmoved, Has, Shaped
  <2> QED BY <1>2, <2>1 DEF Unmoved, Has, Shaped
<1>7. /\ Has(r, p.msg.content, p.msg.reasoning, p.msg.calls, p.msg.finish, c, p.result)
      /\ Showing(r, p.textStarted, yes, o.chunks)
  BY <1>2, <1>6 DEF Unmoved, Has, Shaped, Showing
<1>8. q = Stream!Emit(r, "reasoning_delta", piece)
  BY <1>1, <1>3, Zenon DEF Stream!OnReasoningDelta
<1>9. Unmoved(r, q) /\ Showing(q, r.textStarted, r.reasoningStarted,
                               With(r.chunks, "reasoning_delta", piece))
  BY <1>7, <1>8, EmitIs DEF Has
<1>10. Has(q, p.msg.content, p.msg.reasoning, p.msg.calls, p.msg.finish, c, p.result)
  BY <1>7, <1>9 DEF Unmoved, Has
<1>11. Showing(q, p.textStarted, yes, With(o.chunks, "reasoning_delta", piece))
  BY <1>7, <1>9 DEF Showing
<1> QED BY <1>2, <1>4, <1>5, <1>10, <1>11, Zenon DEF Showing

\* A finished item of reasoning adds its content, or what was collected for it, to the
\* message and closes the reasoning if it is open.
LEMMA OnReasoningItemIs ==
  ASSUME NEW p, Shaped(p), p.reasoningStarted \in BOOLEAN, NEW content,
         NEW q, q = Stream!OnReasoningItem(p, content)
  PROVE  /\ Has(q, p.msg.content,
                   p.msg.reasoning \o (IF content # <<>> THEN content ELSE p.pending),
                   p.msg.calls, p.msg.finish, <<>>, p.result)
         /\ Showing(q, p.textStarted, FALSE,
                    IF p.reasoningStarted THEN With(p.chunks, "reasoning_end", 0) ELSE p.chunks)
<1>1. PICK o : o = IF p.reasoningStarted THEN Stream!Emit(p, "reasoning_end", 0) ELSE p
  OBVIOUS
<1>2. PICK cs : cs = IF p.reasoningStarted THEN With(p.chunks, "reasoning_end", 0) ELSE p.chunks
  OBVIOUS
<1>3. Unmoved(p, o) /\ Showing(o, p.textStarted, p.reasoningStarted, cs)
  <2>1. CASE p.reasoningStarted
    BY <1>1, <1>2, <2>1, EmitIs
  <2>2. CASE ~p.reasoningStarted
    BY <1>1, <1>2, <2>2 DEF Unmoved, Has, Showing
  <2> QED BY <2>1, <2>2
<1>4. PICK none, no : none = <<>> /\ no = FALSE
  OBVIOUS
<1>5. PICK r : r = p.msg.reasoning \o (IF content # <<>> THEN content ELSE p.pending)
  OBVIOUS
<1>6. o.msg.reasoning = p.msg.reasoning
  BY <1>3 DEF Unmoved, Has
<1>7. q = [o EXCEPT !.msg.reasoning = r, !.pending = none, !.reasoningStarted = no]
  <2>1. q = [o EXCEPT !.msg.reasoning = @ \o (IF content # <<>> THEN content ELSE p.pending),
                      !.pending = none, !.reasoningStarted = no]
    BY <1>1, <1>4, Zenon DEF Stream!OnReasoningItem
  <2> QED BY <1>3, <1>5, <1>6, <2>1 DEF Unmoved, Has, Shaped
<1>8. q = [msg |-> [content |-> o.msg.content, reasoning |-> r, calls |-> o.msg.calls,
                    finish |-> o.msg.finish],
           textStarted |-> o.textStarted, reasoningStarted |-> no, pending |-> none,
           chunks |-> o.chunks, result |-> o.result]
  <2>1. PICK m : m = [o.msg EXCEPT !.reasoning = r]
    OBVIOUS
  <2>2. q = [[[o EXCEPT !.msg = m] EXCEPT !.pending = none] EXCEPT !.reasoningStarted = no]
    BY <1>3, <1>7, <2>1 DEF Unmoved, Has, Shaped
  <2>3. q = [msg |-> m, textStarted |-> o.textStarted, reasoningStarted |-> no,
             pending |-> none, chunks |-> o.chunks, result |-> o.result]
    BY <1>3, <2>2 DEF Unmoved, Has, Shaped
  <2> QED BY <1>3, <2>1, <2>3 DEF Unmoved, Has, Shaped
<1>9. Has(q, p.msg.content, r, p.msg.calls, p.msg.finish, none, p.result)
        /\ Showing(q, p.textStarted, no, cs)
  BY <1>3, <1>8 DEF Unmoved, Has, Shaped, Showing
<1> QED BY <1>2, <1>4, <1>5, <1>9, Zenon

\* A call is added to the message and shown.
LEMMA OnCallIs ==
  ASSUME NEW p, Shaped(p), NEW number, NEW q, q = Stream!OnCall(p, number)
  PROVE  /\ Has(q, p.msg.content, p.msg.reasoning, Append(p.msg.calls, number), p.msg.finish,
                   p.pending, p.result)
         /\ Showing(q, p.textStarted, p.reasoningStarted, With(p.chunks, "tool_call", number))
<1>1. PICK r : r = [p EXCEPT !.msg.calls = Append(@, number)]
  OBVIOUS
<1>2. PICK c : c = Append(p.msg.calls, number)
  OBVIOUS
<1>3. r = [msg |-> [content |-> p.msg.content, reasoning |-> p.msg.reasoning, calls |-> c,
                    finish |-> p.msg.finish],
           textStarted |-> p.textStarted, reasoningStarted |-> p.reasoningStarted,
           pending |-> p.pending, chunks |-> p.chunks, result |-> p.result]
  <2>1. PICK m : m = [p.msg EXCEPT !.calls = c]
    OBVIOUS
  <2>2. r = [p EXCEPT !.msg = m]
    BY <1>1, <1>2, <2>1 DEF Shaped
  <2> QED BY <2>1, <2>2 DEF Shaped
<1>4. Has(r, p.msg.content, p.msg.reasoning, c, p.msg.finish, p.pending, p.result)
        /\ Showing(r, p.textStarted, p.reasoningStarted, p.chunks)
  BY <1>3 DEF Has, Shaped, Showing
<1>5. q = Stream!Emit(r, "tool_call", number)
  BY <1>1, Zenon DEF Stream!OnCall
<1>6. Unmoved(r, q) /\ Showing(q, r.textStarted, r.reasoningStarted,
                               With(r.chunks, "tool_call", number))
  BY <1>4, <1>5, EmitIs DEF Has
<1> QED BY <1>2, <1>4, <1>6 DEF Unmoved, Has, Showing

\* A terminal event tells the message how it ended ...
LEMMA OnTerminalIs ==
  ASSUME NEW p, Shaped(p), NEW how, NEW q, q = Stream!OnTerminal(p, how)
  PROVE  /\ Has(q, p.msg.content, p.msg.reasoning, p.msg.calls,
                   Stream!FinishReason(how, style.usage), p.pending,
                   IF how = "failed" THEN "error" ELSE p.result)
         /\ Showing(q, p.textStarted, p.reasoningStarted, p.chunks)
<1>1. PICK f : f = Stream!FinishReason(how, style.usage)
  OBVIOUS
<1>2. PICK r : r = IF how = "failed" THEN "error" ELSE p.result
  OBVIOUS
<1>3. PICK m : m = [p.msg EXCEPT !.finish = f]
  OBVIOUS
<1>4. q = [[p EXCEPT !.msg = m] EXCEPT !.result = r]
  BY <1>1, <1>2, <1>3 DEF Stream!OnTerminal, Shaped
<1>5. q = [msg |-> m, textStarted |-> p.textStarted, reasoningStarted |-> p.reasoningStarted,
           pending |-> p.pending, chunks |-> p.chunks, result |-> r]
  BY <1>4 DEF Shaped
<1>6. m = [content |-> p.msg.content, reasoning |-> p.msg.reasoning, calls |-> p.msg.calls,
           finish |-> f]
  BY <1>3 DEF Shaped
<1>7. Has(q, p.msg.content, p.msg.reasoning, p.msg.calls, f, p.pending, r)
        /\ Showing(q, p.textStarted, p.reasoningStarted, p.chunks)
  BY <1>5, <1>6 DEF Has, Shaped, Showing
<1> QED BY <1>1, <1>2, <1>7

\* ... and the end tells it, unless that is known or the stream failed.
EndReason(finish, failed) ==
  IF failed THEN "cancelled" ELSE IF finish = "" THEN "usage_unavailable" ELSE finish

\* The end keeps what was collected for an unfinished item and settles the reason and the
\* result; it shows nothing.
LEMMA OnEndIs ==
  ASSUME NEW p, Shaped(p), NEW failed \in BOOLEAN, NEW q, q = Stream!OnEnd(p, failed)
  PROVE  /\ Has(q, p.msg.content, p.msg.reasoning \o p.pending, p.msg.calls,
                   EndReason(p.msg.finish, failed), p.pending,
                   IF failed THEN "error" ELSE "ok")
         /\ Showing(q, p.textStarted, p.reasoningStarted, p.chunks)
<1>1. PICK f : f = EndReason(p.msg.finish, failed)
  OBVIOUS
<1>2. PICK r : r = IF failed THEN "error" ELSE "ok"
  OBVIOUS
<1>3. PICK c : c = p.msg.reasoning \o p.pending
  OBVIOUS
<1>4. PICK m : m = [[p.msg EXCEPT !.reasoning = c] EXCEPT !.finish = f]
  OBVIOUS
<1>5. q = [[p EXCEPT !.msg = m] EXCEPT !.result = r]
  <2>1. CASE failed
    <3>1. f = "cancelled" /\ r = "error"
      BY <1>1, <1>2, <2>1 DEF EndReason
    <3> QED BY <1>3, <1>4, <2>1, <3>1 DEF Stream!OnEnd, Shaped
  <2>2. CASE ~failed /\ p.msg.finish = ""
    <3>1. f = "usage_unavailable" /\ r = "ok"
      BY <1>1, <1>2, <2>2 DEF EndReason
    <3> QED BY <1>3, <1>4, <2>2, <3>1 DEF Stream!OnEnd, Shaped
  <2>3. CASE ~failed /\ p.msg.finish # ""
    <3>1. f = p.msg.finish /\ r = "ok"
      BY <1>1, <1>2, <2>3 DEF EndReason
    <3> QED BY <1>3, <1>4, <2>3, <3>1 DEF Stream!OnEnd, Shaped
  <2> QED BY <2>1, <2>2, <2>3
<1>6. q = [msg |-> m, textStarted |-> p.textStarted, reasoningStarted |-> p.reasoningStarted,
           pending |-> p.pending, chunks |-> p.chunks, result |-> r]
  BY <1>5 DEF Shaped
<1>7. m = [content |-> p.msg.content, reasoning |-> c, calls |-> p.msg.calls, finish |-> f]
  BY <1>4 DEF Shaped
<1>8. Has(q, p.msg.content, c, p.msg.calls, f, p.pending, r)
        /\ Showing(q, p.textStarted, p.reasoningStarted, p.chunks)
  BY <1>6, <1>7 DEF Has, Shaped, Showing
<1> QED BY <1>1, <1>2, <1>3, <1>8

-----------------------------------------------------------------------------
(* Lanes: what has arrived of a sequence of numbers, and what is under way. *)

\* The pieces of a text.
Elements(s) == {s[i] : i \in DOMAIN s}

\* Of whole, got has arrived; the numbers T are under way, the next ones of it in
\* order, and all of the rest unless the way is broken.
Lane(got, whole, T, way) ==
  \E rest \in Seq(Nat) :
    /\ whole = got \o rest
    /\ \A i, j \in DOMAIN rest : i < j => rest[i] < rest[j]
    /\ T \subseteq Elements(rest)
    /\ \A x \in Elements(rest), d \in T : x < d => x \in T
    /\ way # "broken" => Elements(rest) \subseteq T

\* Three parts of a text can be joined from either side.
LEMMA Reassociated ==
  \A s, t, u \in Seq(Nat) : (s \o t) \o u = s \o (t \o u)
BY ConcatAssociative

\* Before anything is said, nothing is missing.
LEMMA LaneStarts ==
  ASSUME NEW way
  PROVE  Lane(<<>>, <<>>, {}, way)
<1>1. <<>> \in Seq(Nat) /\ <<>> = <<>> \o <<>> /\ DOMAIN <<>> = {}
  BY ConcatEmptySeq, EmptySeq
<1> QED BY <1>1 DEF Lane, Elements

\* A number after all others is sent.
LEMMA LaneSends ==
  ASSUME NEW got \in Seq(Nat), NEW whole \in Seq(Nat), NEW T, NEW way,
         Lane(got, whole, T, way), way # "broken",
         NEW n \in Nat, \A i \in DOMAIN whole : whole[i] < n
  PROVE  Lane(got, Append(whole, n), T \cup {n}, way)
<1>1. PICK rest \in Seq(Nat) :
        /\ whole = got \o rest
        /\ \A i, j \in DOMAIN rest : i < j => rest[i] < rest[j]
        /\ T \subseteq Elements(rest)
        /\ Elements(rest) \subseteq T
  BY DEF Lane
<1>2. PICK more : more = Append(rest, n) /\ more \in Seq(Nat)
  <2>1. Append(rest, n) \in Seq(Nat)
    OBVIOUS
  <2> QED BY <2>1
<1>3. /\ Len(more) = Len(rest) + 1 /\ more[Len(rest) + 1] = n /\ Len(rest) \in Nat
      /\ DOMAIN more = 1 .. Len(rest) + 1 /\ DOMAIN rest = 1 .. Len(rest)
      /\ \A i \in 1 .. Len(rest) : more[i] = rest[i]
  BY <1>2
<1>4. Append(whole, n) = got \o more
  <2>1. whole \o <<n>> = Append(whole, n) /\ rest \o <<n>> = Append(rest, n) /\ <<n>> \in Seq(Nat)
    OBVIOUS
  <2>2. (got \o rest) \o <<n>> = got \o (rest \o <<n>>)
    BY <2>1, Reassociated
  <2> QED BY <1>1, <1>2, <2>1, <2>2
<1>5. \A i \in DOMAIN rest : rest[i] < n
  <2> TAKE i \in DOMAIN rest
  <2>1. Len(got) + i \in DOMAIN whole /\ whole[Len(got) + i] = rest[i]
    <3>1. /\ Len(got) \in Nat /\ Len(rest) \in Nat /\ DOMAIN rest = 1 .. Len(rest)
          /\ Len(whole) = Len(got) + Len(rest) /\ DOMAIN whole = 1 .. Len(whole)
      BY <1>1, ConcatProperties, LenProperties
    <3>2. \A k \in 1 .. Len(got) + Len(rest) :
            whole[k] = IF k <= Len(got) THEN got[k] ELSE rest[k - Len(got)]
      BY <1>1, ConcatProperties
    <3>3. Len(got) + i \in 1 .. Len(got) + Len(rest) /\ ~(Len(got) + i <= Len(got))
            /\ (Len(got) + i) - Len(got) = i
      BY <3>1
    <3> QED BY <3>1, <3>2, <3>3
  <2> QED BY <2>1
<1>6. \A i, j \in DOMAIN more : i < j => more[i] < more[j]
  <2> TAKE i, j \in DOMAIN more
  <2> HAVE i < j
  <2>1. i \in DOMAIN rest /\ more[i] = rest[i]
    BY <1>3
  <2>2. CASE j = Len(rest) + 1
    BY <1>3, <1>5, <2>1, <2>2
  <2>3. CASE j # Len(rest) + 1
    <3>1. j \in DOMAIN rest /\ more[j] = rest[j]
      BY <1>3, <2>3
    <3> QED BY <1>1, <2>1, <3>1
  <2> QED BY <2>2, <2>3
<1>7. Elements(more) = Elements(rest) \cup {n}
  <2>1. ASSUME NEW x \in Elements(more) PROVE x = n \/ x \in Elements(rest)
    <3>1. PICK i \in DOMAIN more : x = more[i]
      BY <2>1 DEF Elements
    <3>2. CASE i = Len(rest) + 1
      BY <1>3, <3>1, <3>2
    <3>3. CASE i # Len(rest) + 1
      <4>1. i \in DOMAIN rest /\ x = rest[i]
        BY <1>3, <3>1, <3>3
      <4> QED BY <4>1 DEF Elements
    <3> QED BY <3>2, <3>3
  <2>2. ASSUME NEW x \in Elements(rest) PROVE x \in Elements(more)
    BY <1>3, <2>2 DEF Elements
  <2>3. n \in Elements(more)
    <3>1. Len(rest) + 1 \in DOMAIN more
      BY <1>3
    <3> QED BY <1>3, <3>1 DEF Elements
  <2> QED BY <2>1, <2>2, <2>3
<1> QED BY <1>1, <1>2, <1>4, <1>6, <1>7 DEF Lane

\* The first number under way arrives.
LEMMA LaneTakes ==
  ASSUME NEW got \in Seq(Nat), NEW whole \in Seq(Nat), NEW T \in SUBSET Nat, NEW d \in Nat,
         d \notin T, \A x \in T : d < x, NEW way,
         Lane(got, whole, T \cup {d}, way)
  PROVE  Lane(Append(got, d), whole, T, way)
<1>1. PICK rest \in Seq(Nat) :
        /\ whole = got \o rest
        /\ \A i, j \in DOMAIN rest : i < j => rest[i] < rest[j]
        /\ T \cup {d} \subseteq Elements(rest)
        /\ \A x \in Elements(rest), y \in T \cup {d} : x < y => x \in T \cup {d}
        /\ way # "broken" => Elements(rest) \subseteq T \cup {d}
  BY DEF Lane
<1>2. rest # <<>> /\ DOMAIN rest = 1 .. Len(rest) /\ Len(rest) \in Nat \ {0} /\ rest[1] \in Nat
  BY <1>1 DEF Elements
<1>3. rest[1] = d
  <2>1. PICK i \in DOMAIN rest : rest[i] = d
    BY <1>1 DEF Elements
  <2>2. 1 \in DOMAIN rest
    BY <1>2
  <2>3. rest[1] \in Elements(rest)
    BY <2>2 DEF Elements
  <2>4. rest[1] <= d
    <3>1. i = 1 \/ 1 < i
      BY <1>2, <2>1
    <3>2. CASE i = 1
      BY <1>2, <2>1, <3>2
    <3>3. CASE 1 < i
      <4>1. rest[1] < rest[i]
        BY <1>1, <2>1, <2>2, <3>3
      <4> QED BY <1>2, <2>1, <4>1
    <3> QED BY <3>1, <3>2, <3>3
  <2>5. rest[1] \in T \cup {d}
    BY <1>1, <1>2, <2>3, <2>4
  <2> QED BY <1>2, <2>4, <2>5
<1>4. PICK less : less = Tail(rest) /\ less \in Seq(Nat)
  BY <1>2, HeadTailProperties
<1>5. Len(less) = Len(rest) - 1 /\ \A i \in 1 .. Len(less) : less[i] = rest[i + 1]
  BY <1>2, <1>4, HeadTailProperties
<1>6. rest = <<d>> \o less
  <2>1. <<d>> \o less \in Seq(Nat) /\ Len(<<d>> \o less) = Len(rest)
    <3>1. <<d>> \in Seq(Nat) /\ Len(<<d>>) = 1 /\ 1 + Len(less) = Len(rest)
      BY <1>2, <1>5
    <3> QED BY <1>4, <3>1, ConcatProperties
  <2>2. \A i \in 1 .. Len(rest) : (<<d>> \o less)[i] = rest[i]
    BY <1>2, <1>3, <1>4, <1>5
  <2> QED BY <2>1, <2>2, SeqEqual
<1>7. whole = Append(got, d) \o less
  <2>1. <<d>> \in Seq(Nat)
    OBVIOUS
  <2>2. (got \o <<d>>) \o less = got \o (<<d>> \o less)
    BY <1>4, <2>1, Reassociated
  <2>3. Append(got, d) = got \o <<d>>
    OBVIOUS
  <2> QED BY <1>1, <1>6, <2>2, <2>3
<1>8. DOMAIN less = 1 .. Len(less) /\ \A i \in DOMAIN less : i + 1 \in DOMAIN rest
  BY <1>2, <1>4, <1>5
<1>9. \A i, j \in DOMAIN less : i < j => less[i] < less[j]
  BY <1>1, <1>2, <1>5, <1>8
<1>10. Elements(less) = Elements(rest) \ {d}
  <2>1. \A i \in DOMAIN less : less[i] \in Elements(rest) /\ less[i] # d
    <3> TAKE i \in DOMAIN less
    <3>1. i + 1 \in DOMAIN rest /\ 1 < i + 1 /\ 1 \in DOMAIN rest /\ less[i] = rest[i + 1]
      BY <1>2, <1>5, <1>8
    <3>2. rest[1] < rest[i + 1] /\ rest[i + 1] \in Nat
      BY <1>1, <3>1
    <3> QED BY <1>3, <3>1, <3>2 DEF Elements
  <2>2. \A i \in DOMAIN rest : rest[i] # d => rest[i] \in Elements(less)
    <3> TAKE i \in DOMAIN rest
    <3> HAVE rest[i] # d
    <3>1. i # 1 /\ i \in 1 .. Len(rest)
      BY <1>2, <1>3
    <3>2. i - 1 \in 1 .. Len(rest) - 1 /\ (i - 1) + 1 = i
      BY <1>2, <3>1
    <3> QED BY <1>5, <1>8, <3>2 DEF Elements
  <2> QED BY <2>1, <2>2 DEF Elements
<1>11. T \subseteq Elements(less) /\ (way # "broken" => Elements(less) \subseteq T)
  BY <1>1, <1>10
<1>12. ASSUME NEW x \in Elements(less), NEW y \in T, x < y PROVE x \in T
  <2>1. x \in Elements(rest) /\ x # d /\ y \in T \cup {d}
    BY <1>10
  <2> QED BY <1>1, <1>12, <2>1
<1> QED BY <1>4, <1>7, <1>9, <1>11, <1>12 DEF Lane

\* The end of what is under way is lost.
LEMMA LaneCut ==
  ASSUME NEW got, NEW whole, NEW T, NEW way, Lane(got, whole, T, way),
         NEW U \in SUBSET T, \A x \in T, d \in U : x < d => x \in U
  PROVE  Lane(got, whole, U, "broken")
BY DEF Lane

\* A lane stays as it is while the connection lives, and when it breaks.
LEMMA LaneGoesOn ==
  ASSUME NEW got, NEW whole, NEW T, NEW way, NEW next, Lane(got, whole, T, way),
         way # "broken" \/ next = "broken"
  PROVE  Lane(got, whole, T, next)
BY DEF Lane

\* What has arrived is a part from the front; without loss and with nothing under way it
\* is everything.
LEMMA LaneArrived ==
  ASSUME NEW got \in Seq(Nat), NEW whole \in Seq(Nat), NEW T, NEW way,
         Lane(got, whole, T, way)
  PROVE  /\ Len(got) <= Len(whole) /\ SubSeq(got, 1, Len(got)) = SubSeq(whole, 1, Len(got))
         /\ way # "broken" /\ T = {} => got = whole
<1>1. PICK rest \in Seq(Nat) :
        whole = got \o rest /\ (way # "broken" => Elements(rest) \subseteq T)
  BY DEF Lane
<1>2. Len(got) \in Nat /\ Len(rest) \in Nat /\ Len(whole) = Len(got) + Len(rest)
  BY <1>1, ConcatProperties, LenProperties
<1>3. SubSeq(got, 1, Len(got)) = got
  BY SubSeqFull
<1>4. SubSeq(whole, 1, Len(got)) = got
  <2>1. \A i \in 1 .. Len(got) : whole[i] = got[i] /\ whole[i] \in Nat
    BY <1>1, <1>2
  <2>2. /\ SubSeq(whole, 1, Len(got)) \in Seq(Nat)
        /\ Len(SubSeq(whole, 1, Len(got))) = Len(got)
        /\ \A i \in 1 .. Len(got) : SubSeq(whole, 1, Len(got))[i] = whole[i]
    BY <1>2, <2>1
  <2> QED BY <2>1, <2>2, SeqEqual
<1>5. ASSUME way # "broken", T = {} PROVE got = whole
  <2>1. rest = <<>>
    <3>1. rest # <<>> => rest[1] \in Elements(rest)
      BY DEF Elements
    <3> QED BY <1>1, <1>5, <3>1
  <2> QED BY <1>1, <2>1, ConcatEmptySeq
<1> QED BY <1>2, <1>3, <1>4, <1>5

-----------------------------------------------------------------------------
(* What is shown.                                                          *)

Shapes == {"text_start", "text_delta", "text_end", "reasoning_start", "reasoning_delta",
           "reasoning_end", "tool_call"}

Frame == [kind : Shapes, what : Nat]

\* The chunks shown before stay at their places, and the new one is the last.
LEMMA ShownIs ==
  ASSUME NEW chunks \in Seq(Frame), NEW c \in Frame, NEW more, more = Append(chunks, c)
  PROVE  /\ more \in Seq(Frame) /\ Len(more) = Len(chunks) + 1 /\ Len(chunks) \in Nat
         /\ DOMAIN more = 1 .. Len(chunks) + 1 /\ DOMAIN chunks = 1 .. Len(chunks)
         /\ more[Len(chunks) + 1] = c
         /\ \A i \in 1 .. Len(chunks) : more[i] = chunks[i] /\ i < Len(chunks) + 1
OBVIOUS

\* AreAt with the cardinality that the library states its facts about.
LEMMA AreAtIs ==
  ASSUME NEW pieces, NEW chunks, NEW places
  PROVE  Stream!AreAt(pieces, chunks, places) <=>
           /\ Len(pieces) = Cardinality(places)
           /\ \A i \in places : pieces[Cardinality({j \in places : j <= i})] = chunks[i].what
<1>1. \A S : Stream!Cardinality(S) = Cardinality(S)
  BY DEF Stream!Cardinality, Cardinality, Stream!IsFiniteSet, IsFiniteSet
<1> QED BY <1>1 DEF Stream!AreAt

\* The pieces are exactly those of the chunks of a kind.
Framed(pieces, chunks, kind) == Stream!AreAt(pieces, chunks, Stream!Frames(chunks, kind))

\* Nothing shown is nothing held.
LEMMA FramesStart ==
  ASSUME NEW kind PROVE Framed(<<>>, <<>>, kind)
<1>1. \A i : i \notin DOMAIN <<>>
  OBVIOUS
<1>2. Stream!Frames(<<>>, kind) = {}
  BY <1>1, Zenon DEF Stream!Frames
<1>3. Cardinality({}) = 0 /\ Len(<<>>) = 0
  BY FS_EmptySet
<1>4. Stream!AreAt(<<>>, <<>>, {})
  BY <1>3, AreAtIs
<1> QED BY <1>2, <1>4 DEF Framed

\* A chunk of another kind makes no frame ...
LEMMA FramesSame ==
  ASSUME NEW chunks \in Seq(Frame), NEW c \in Frame, NEW pieces, NEW kind,
         Framed(pieces, chunks, kind), c.kind # kind
  PROVE  Framed(pieces, Append(chunks, c), kind)
<1>1. PICK more : more = Append(chunks, c)
  OBVIOUS
<1>2. Stream!Frames(more, kind) = Stream!Frames(chunks, kind)
  BY <1>1, ShownIs DEF Stream!Frames
<1>3. \A i \in Stream!Frames(chunks, kind) : more[i] = chunks[i]
  BY <1>1, ShownIs DEF Stream!Frames
<1>4. PICK F : F = Stream!Frames(chunks, kind)
  OBVIOUS
<1>5. Stream!AreAt(pieces, chunks, F) => Stream!AreAt(pieces, more, F)
  BY <1>3, <1>4 DEF Stream!AreAt
<1> QED BY <1>1, <1>2, <1>4, <1>5 DEF Framed

\* ... and one of its own the next.
LEMMA OneMoreAt ==
  ASSUME NEW chunks \in Seq(Frame), NEW c \in Frame, NEW pieces \in Seq(Nat),
         NEW F \in SUBSET (1 .. Len(chunks)), Stream!AreAt(pieces, chunks, F)
  PROVE  Stream!AreAt(Append(pieces, c.what), Append(chunks, c), F \cup {Len(chunks) + 1})
<1>1. PICK more : more = Append(chunks, c)
  OBVIOUS
<1>2. PICK n : n = Len(chunks) + 1 /\ n \in Nat /\ \A i \in F : i \in Nat /\ i < n
  OBVIOUS
<1>3. IsFiniteSet(F)
  <2>1. IsFiniteSet(1 .. Len(chunks))
    BY FS_Interval
  <2> QED BY <2>1, FS_Subset
<1>4. /\ Len(pieces) = Cardinality(F)
      /\ \A i \in F : pieces[Cardinality({j \in F : j <= i})] = chunks[i].what
  BY AreAtIs
<1>5. Cardinality(F \cup {n}) = Len(pieces) + 1
  <2>1. n \notin F
    BY <1>2
  <2> QED BY <1>3, <1>4, <2>1, FS_AddElement
<1>6. PICK ps : ps = Append(pieces, c.what)
  OBVIOUS
<1>7. /\ Len(pieces) \in Nat /\ Len(ps) = Len(pieces) + 1 /\ ps[Len(pieces) + 1] = c.what
      /\ \A k \in 1 .. Len(pieces) : ps[k] = pieces[k]
  <2>1. c.what \in Nat
    BY DEF Frame
  <2> QED BY <1>6, <2>1
<1>8. ASSUME NEW i \in F \cup {n}
      PROVE  ps[Cardinality({j \in F \cup {n} : j <= i})] = more[i].what
  <2>1. CASE i = n
    <3>1. \A j \in F \cup {n} : j <= i
      BY <1>2, <2>1
    <3>2. {j \in F \cup {n} : j <= i} = F \cup {n}
      BY <3>1
    <3>3. more[n] = c
      BY <1>1, <1>2, ShownIs
    <3> QED BY <1>5, <1>7, <2>1, <3>2, <3>3
  <2>2. CASE i \in F
    <3>1. {j \in F \cup {n} : j <= i} = {j \in F : j <= i}
      BY <1>2, <2>2
    <3>2. PICK R : R = {j \in F : j <= i}
      OBVIOUS
    <3>3. IsFiniteSet(R) /\ Cardinality(R) \in Nat /\ Cardinality(R) <= Cardinality(F)
      BY <1>3, <3>2, FS_Subset, FS_CardinalityType
    <3>4. i \in R
      BY <1>2, <2>2, <3>2
    <3>5. Cardinality(R) # 0
      BY <3>3, <3>4, FS_EmptySet
    <3>6. Cardinality({j \in F : j <= i}) \in 1 .. Len(pieces)
      BY <1>4, <1>7, <3>2, <3>3, <3>5
    <3>7. more[i] = chunks[i]
      BY <1>1, <2>2, ShownIs
    <3> QED BY <1>4, <1>7, <2>2, <3>1, <3>6, <3>7
  <2> QED BY <1>8, <2>1, <2>2
<1>9. PICK G : G = F \cup {n}
  OBVIOUS
<1>10. Len(ps) = Cardinality(G)
  BY <1>5, <1>7, <1>9
<1>11. \A i \in G : ps[Cardinality({j \in G : j <= i})] = more[i].what
  BY <1>8, <1>9
<1>12. Stream!AreAt(ps, more, G)
  BY <1>10, <1>11, AreAtIs
<1> QED BY <1>1, <1>2, <1>6, <1>9, <1>12

\* A chunk of the kind that carries the pieces adds one piece.
LEMMA FramesMore ==
  ASSUME NEW chunks \in Seq(Frame), NEW c \in Frame, NEW pieces \in Seq(Nat), NEW kind,
         Framed(pieces, chunks, kind), c.kind = kind
  PROVE  Framed(Append(pieces, c.what), Append(chunks, c), kind)
<1>1. PICK more : more = Append(chunks, c)
  OBVIOUS
<1>2. Stream!Frames(chunks, kind) \in SUBSET (1 .. Len(chunks))
  BY ShownIs DEF Stream!Frames
<1>3. Stream!Frames(more, kind) = Stream!Frames(chunks, kind) \cup {Len(chunks) + 1}
  <2>1. \A i : i \in Stream!Frames(more, kind) <=>
                 i \in Stream!Frames(chunks, kind) \/ i = Len(chunks) + 1
    BY <1>1, ShownIs DEF Stream!Frames
  <2> QED BY <2>1
<1>4. PICK F : F = Stream!Frames(chunks, kind)
  OBVIOUS
<1>5. Stream!AreAt(pieces, chunks, F)
  BY <1>4 DEF Framed
<1>6. Stream!AreAt(Append(pieces, c.what), more, F \cup {Len(chunks) + 1})
  BY <1>1, <1>2, <1>4, <1>5, OneMoreAt
<1> QED BY <1>1, <1>3, <1>4, <1>6 DEF Framed

\* Of what is shown, the chunks of a bracket come in order, and the flag says whether the
\* last of them leaves it open.
Ordered(chunks, b) ==
  \A i \in Stream!Own(chunks, b) :
    chunks[i].kind = b.start <=>
      \A j \in Stream!Own(chunks, b) :
        j < i /\ (\A k \in Stream!Own(chunks, b) : k < i => k <= j) => chunks[j].kind = b.end

\* The last chunk of a bracket.
Latest(chunks, b, j) ==
  j \in Stream!Own(chunks, b) /\ \A k \in Stream!Own(chunks, b) : k <= j

\* A bracket is in order, and open or not.
BracketOk(chunks, b, isOpen) ==
  /\ Ordered(chunks, b)
  /\ isOpen => \E j \in Stream!Own(chunks, b) : Latest(chunks, b, j) /\ chunks[j].kind # b.end
  /\ ~isOpen => \A j \in Stream!Own(chunks, b) : Latest(chunks, b, j) => chunks[j].kind = b.end

\* Nothing shown is in order, and nothing is open.
LEMMA BracketStarts ==
  ASSUME NEW b PROVE BracketOk(<<>>, b, FALSE)
BY DEF BracketOk, Ordered, Stream!Own

\* Chunks of other kinds do not open or close a bracket.
LEMMA BracketSame ==
  ASSUME NEW chunks \in Seq(Frame), NEW c \in Frame, NEW b, NEW isOpen \in BOOLEAN,
         BracketOk(chunks, b, isOpen), c.kind \notin {b.start, b.delta, b.end}
  PROVE  BracketOk(Append(chunks, c), b, isOpen)
<1>1. PICK more : more = Append(chunks, c)
  OBVIOUS
<1>2. Stream!Own(more, b) = Stream!Own(chunks, b)
  BY <1>1, ShownIs DEF Stream!Own
<1>3. \A i \in Stream!Own(chunks, b) : more[i] = chunks[i]
  BY <1>1, ShownIs DEF Stream!Own
<1>4. Ordered(more, b)
  BY <1>2, <1>3 DEF BracketOk, Ordered
<1>5. \A j : Latest(more, b, j) <=> Latest(chunks, b, j)
  BY <1>2 DEF Latest
<1> QED BY <1>1, <1>2, <1>3, <1>4, <1>5 DEF BracketOk

\* A chunk of the bracket keeps it in order if it opens exactly what is closed.
LEMMA BracketMoves ==
  ASSUME NEW chunks \in Seq(Frame), NEW c \in Frame, NEW b, NEW isOpen \in BOOLEAN,
         BracketOk(chunks, b, isOpen), c.kind \in {b.start, b.delta, b.end},
         b.start # b.end, c.kind = b.start <=> ~isOpen,
         NEW now \in BOOLEAN, now <=> c.kind # b.end
  PROVE  BracketOk(Append(chunks, c), b, now)
<1>1. PICK more : more = Append(chunks, c)
  OBVIOUS
<1>2. PICK n : n = Len(chunks) + 1
  OBVIOUS
<1>3. PICK O : O = Stream!Own(chunks, b)
  OBVIOUS
<1>4. Stream!Own(more, b) = O \cup {n} /\ n \notin O /\ n \in Nat
        /\ \A i \in O : i \in Nat /\ i < n /\ more[i] = chunks[i]
  BY <1>1, <1>2, <1>3, ShownIs DEF Stream!Own
<1>5. more[n] = c
  BY <1>1, <1>2, ShownIs
<1>6. ASSUME NEW i \in O
      PROVE  more[i].kind = b.start <=>
               \A j \in O \cup {n} :
                 j < i /\ (\A k \in O \cup {n} : k < i => k <= j) => more[j].kind = b.end
  <2>1. chunks[i].kind = b.start <=>
          \A j \in O : j < i /\ (\A k \in O : k < i => k <= j) => chunks[j].kind = b.end
    BY <1>3, <1>6 DEF BracketOk, Ordered
  <2>2. i \in Nat /\ i < n /\ ~(n < i)
    BY <1>4, <1>6
  <2> QED BY <1>4, <1>6, <2>1, <2>2
<1>7. more[n].kind = b.start <=>
        \A j \in O \cup {n} :
          j < n /\ (\A k \in O \cup {n} : k < n => k <= j) => more[j].kind = b.end
  <2>1. ~(n < n) /\ \A k \in O : k < n
    BY <1>4
  <2>2. \A j \in O : Latest(chunks, b, j) <=> \A k \in O : k <= j
    BY <1>3 DEF Latest
  <2>3. CASE isOpen
    BY <1>3, <1>4, <1>5, <2>1, <2>2, <2>3 DEF BracketOk
  <2>4. CASE ~isOpen
    BY <1>3, <1>4, <1>5, <2>1, <2>2, <2>4 DEF BracketOk
  <2> QED BY <2>3, <2>4
<1>8. Ordered(more, b)
  BY <1>4, <1>6, <1>7 DEF Ordered
<1>9. Latest(more, b, n) /\ \A j : Latest(more, b, j) => j = n
  BY <1>4 DEF Latest
<1> QED BY <1>1, <1>4, <1>5, <1>8, <1>9 DEF BracketOk

-----------------------------------------------------------------------------
(* How a generation ends.                                                  *)

Ways == {"completed", "max_output_tokens", "content_filter", "other", "failed"}

StreamEvent ==
  [type : {"text.delta", "reasoning.delta", "summary.delta"}, delta : Nat]
    \cup [type : {"text.done"}]
    \cup [type : {"item.reasoning"}, content : Seq(Nat)]
    \cup [type : {"item.call"}, call : Nat]
    \cup [type : {"terminal"}, how : Ways]
    \cup [type : {"end", "error"}]

Typed(p) ==
  /\ Shaped(p)
  /\ p.msg.content \in Seq(Nat) /\ p.msg.reasoning \in Seq(Nat) /\ p.msg.calls \in Seq(Nat)
  /\ p.pending \in Seq(Nat) /\ p.chunks \in Seq(Frame)
  /\ p.textStarted \in BOOLEAN /\ p.reasoningStarted \in BOOLEAN

StreamTypes ==
  /\ style \in Stream!Styles
  /\ said \in [text : Seq(Nat), thoughts : Seq(Nat), notes : Seq(Nat), calls : Seq(Nat)]
  /\ open.thoughts \in Seq(Nat)
  /\ ended \in Ways \cup {"no", "closed", "refused", "broken", "abandoned"}
  /\ wire \in Seq(StreamEvent)
  /\ pipe = <<>> \/ \E e \in StreamEvent : pipe = <<e>>
  /\ Typed(provider)

Ends(event, how) == event.type = "terminal" /\ event.how = how

\* The last event of the endpoint is on its way ...
Announced(how) ==
  /\ provider.msg.finish = ""
  /\ \/ /\ wire # <<>> /\ Ends(wire[Len(wire)], how)
        /\ \A i \in 1 .. Len(wire) - 1 : wire[i].type # "terminal"
        /\ pipe # <<>> => pipe[1].type \notin {"terminal", "end"}
     \/ wire = <<>> /\ pipe # <<>> /\ Ends(pipe[1], how)

\* ... and then in the message, and nothing but the end comes after it.
HasTold(how) ==
  /\ provider.msg.finish = Stream!FinishReason(how, style.usage)
  /\ how # "failed" /\ wire = <<>>
  /\ pipe # <<>> => pipe[1].type = "end"

\* How the endpoint ended is what the message says, or is still to be told; the
\* stream ends in its end only if it did not break, and then for good.
EndTold ==
  /\ \A i \in DOMAIN wire : wire[i].type \notin {"end", "error"}
  /\ ended \in {"no", "closed", "refused", "abandoned"} =>
       /\ provider.msg.finish = ""
       /\ \A i \in DOMAIN wire : wire[i].type # "terminal"
       /\ pipe # <<>> => pipe[1].type # "terminal"
  /\ ended \in Ways => Announced(ended) \/ HasTold(ended)
  /\ pipe # <<>> /\ pipe[1].type = "end" =>
       router = "closed" /\ wire = <<>> /\ ended \notin {"no", "broken"}

\* Nothing is shown before the router has answered; a refusal closes it.
Answers ==
  /\ router = "waiting" => reply = "none"
  /\ router = "streaming" => reply = "ok"
  /\ reply \in {"upstream", "bad gateway"} => router = "closed"
  /\ reply = "upstream" => ended = "refused"
  /\ reply # "ok" =>
       /\ pipe = <<>> /\ provider.chunks = <<>> /\ provider.msg = Stream!NoMessage

StreamInv ==
  /\ StreamTypes
  /\ provider.result = "none" => EndTold /\ Answers
  /\ Stream!StopIsTrue /\ Stream!RefusalsKept

\* A request starts with nothing said, nothing under way and nothing answered.
LEMMA StreamInit == Stream!Init => StreamInv
<1> SUFFICES ASSUME Stream!Init PROVE StreamInv
  OBVIOUS
<1>1. /\ Shaped(provider) /\ provider.result = "none" /\ provider.msg = Stream!NoMessage
      /\ provider.chunks = <<>> /\ provider.msg.finish = "" /\ provider.pending = <<>>
      /\ provider.msg.content = <<>> /\ provider.msg.reasoning = <<>> /\ provider.msg.calls = <<>>
  BY DEF Stream!Init, Shaped, Stream!NoMessage
<1>7. Typed(provider)
  <2>1. provider.textStarted = FALSE /\ provider.reasoningStarted = FALSE
    BY Zenon DEF Stream!Init
  <2>2. <<>> \in Seq(Nat) /\ <<>> \in Seq(Frame)
    BY EmptySeq
  <2> QED BY <1>1, <2>1, <2>2 DEF Typed
<1>2. <<>> \in Seq(Nat) /\ <<>> \in Seq(StreamEvent) /\ DOMAIN <<>> = {}
  OBVIOUS
<1>3. StreamTypes
  BY <1>1, <1>2, <1>7 DEF Stream!Init, StreamTypes, Stream!NoItem
<1>4. wire = <<>> /\ pipe = <<>> /\ ended = "no" /\ router = "waiting" /\ reply = "none"
  BY DEF Stream!Init
<1>5. EndTold
  BY <1>1, <1>2, <1>4 DEF EndTold, Ways
<1>6. Answers
  BY <1>1, <1>4 DEF Answers
<1> QED BY <1>1, <1>3, <1>4, <1>5, <1>6 DEF StreamInv, Stream!StopIsTrue, Stream!RefusalsKept

-----------------------------------------------------------------------------
\* The places of a sequence with one more element at its end.
LEMMA AppendedIs ==
  ASSUME NEW S, NEW s \in Seq(S), NEW e \in S, NEW t, t = Append(s, e)
  PROVE  /\ t \in Seq(S) /\ t # <<>> /\ Len(t) = Len(s) + 1 /\ t[Len(t)] = e
         /\ \A i \in 1 .. Len(t) - 1 : i \in DOMAIN s /\ t[i] = s[i]
         /\ \A i \in DOMAIN t : (t[i] = e \/ (i \in DOMAIN s /\ t[i] = s[i]))
<1>1. t \in Seq(S) /\ Len(t) = Len(s) + 1 /\ DOMAIN t = 1 .. Len(t) /\ DOMAIN s = 1 .. Len(s)
        /\ Len(s) \in Nat
  OBVIOUS
<1>2. t[Len(s) + 1] = e
  OBVIOUS
<1>3. \A i \in 1 .. Len(s) : t[i] = s[i]
  OBVIOUS
<1>4. \A i \in 1 .. Len(t) - 1 : i \in 1 .. Len(s)
  BY <1>1
<1>5. \A i \in 1 .. Len(t) : i = Len(s) + 1 \/ i \in 1 .. Len(s)
  BY <1>1
<1>6. t # <<>>
  BY <1>1
<1> QED BY <1>1, <1>2, <1>3, <1>4, <1>5, <1>6

\* An event of the endpoint that does not end the response.
LEMMA SentHeld ==
  ASSUME StreamInv, NEW e \in StreamEvent, e.type \notin {"terminal", "end", "error"},
         provider.result = "none", ended = "no", ended' = ended,
         wire' = Append(wire, e), StreamTypes',
         UNCHANGED <<style, router, reply, pipe, provider>>
  PROVE  StreamInv'
<1>1. StreamTypes /\ EndTold /\ Answers /\ Stream!StopIsTrue /\ Stream!RefusalsKept
  BY DEF StreamInv
<1>2. wire \in Seq(StreamEvent)
  BY <1>1 DEF StreamTypes
<1>3. \A i \in DOMAIN wire' : (wire'[i] = e \/ (i \in DOMAIN wire /\ wire'[i] = wire[i]))
  BY <1>2, AppendedIs
<1>4. EndTold'
  <2>1. provider.msg.finish = "" /\ (pipe # <<>> => pipe[1].type \notin {"terminal", "end"})
    BY <1>1 DEF EndTold
  <2>2. \A i \in DOMAIN wire' : wire'[i].type \notin {"terminal", "end", "error"}
    BY <1>1, <1>3 DEF EndTold
  <2> QED BY <2>1, <2>2 DEF EndTold, Ways
<1> QED BY <1>1, <1>4 DEF StreamInv, Answers, Stream!StopIsTrue, Stream!RefusalsKept

\* What the endpoint says next is a number, behind the others of its kind.
LEMMA SayingTyped ==
  ASSUME StreamInv
  PROVE  /\ Stream!Produced \in Nat /\ Stream!Produced + 1 \in Nat
         /\ said.text \in Seq(Nat) /\ said.thoughts \in Seq(Nat)
         /\ said.notes \in Seq(Nat) /\ said.calls \in Seq(Nat)
         /\ Append(said.text, Stream!Produced + 1) \in Seq(Nat)
         /\ Append(said.thoughts, Stream!Produced + 1) \in Seq(Nat)
         /\ Append(said.notes, Stream!Produced + 1) \in Seq(Nat)
         /\ Append(said.calls, Stream!Produced + 1) \in Seq(Nat)
         /\ Append(open.thoughts, Stream!Produced + 1) \in Seq(Nat)
         /\ <<Stream!Produced + 1>> \in Seq(Nat) /\ <<>> \in Seq(Nat)
<1>1. /\ said.text \in Seq(Nat) /\ said.thoughts \in Seq(Nat)
      /\ said.notes \in Seq(Nat) /\ said.calls \in Seq(Nat) /\ open.thoughts \in Seq(Nat)
  BY DEF StreamInv, StreamTypes
<1>2. Stream!Produced \in Nat
  <2>1. /\ Len(said.text) \in Nat /\ Len(said.thoughts) \in Nat
        /\ Len(said.notes) \in Nat /\ Len(said.calls) \in Nat
    BY <1>1
  <2>2. \A a, b, c, d \in Nat : a + b + c + d \in Nat
    OBVIOUS
  <2> QED BY <2>1, <2>2 DEF Stream!Produced
<1>3. PICK n \in Nat : n = Stream!Produced + 1
  BY <1>2
<1> QED BY <1>1, <1>2, <1>3

\* What the endpoint says goes on the wire as it is.
LEMMA SaysHeld ==
  ASSUME StreamInv, provider.result = "none",
         Stream!SayText \/ Stream!SayThought \/ Stream!SayNote \/ Stream!SayCall
  PROVE  StreamInv'
<1>1. StreamTypes
  BY DEF StreamInv
<1>2. wire \in Seq(StreamEvent)
  BY <1>1 DEF StreamTypes
<1>3. PICK n \in Nat : n = Stream!Produced + 1
  BY SayingTyped
<1>4. \A e \in StreamEvent : Append(wire, e) \in Seq(StreamEvent)
  BY <1>2
<1>5. /\ [type |-> "text.delta", delta |-> n] \in StreamEvent
      /\ [type |-> "reasoning.delta", delta |-> n] \in StreamEvent
      /\ [type |-> "summary.delta", delta |-> n] \in StreamEvent
      /\ [type |-> "item.call", call |-> n] \in StreamEvent
  BY DEF StreamEvent
<1>6. CASE Stream!SayText
  <2>1. wire' = Append(wire, [type |-> "text.delta", delta |-> n]) /\ ended = "no"
    BY <1>3, <1>6 DEF Stream!SayText, Stream!Sends, Stream!Producing
  <2>2. said' = [said EXCEPT !.text = Append(said.text, n)] /\ open'.thoughts = <<>>
    BY <1>3, <1>6 DEF Stream!SayText
  <2>3. StreamTypes'
    BY <1>1, <1>3, <1>4, <1>5, <1>6, <2>1, <2>2, SayingTyped DEF StreamTypes, Stream!SayText
  <2> QED BY <1>5, <1>6, <2>1, <2>3, SentHeld DEF Stream!SayText
<1>7. CASE Stream!SayThought
  <2>1. wire' = Append(wire, [type |-> "reasoning.delta", delta |-> n]) /\ ended = "no"
    BY <1>3, <1>7 DEF Stream!SayThought, Stream!Sends, Stream!Producing
  <2>2. said' = [said EXCEPT !.thoughts = Append(said.thoughts, n)]
    BY <1>3, <1>7 DEF Stream!SayThought
  <2>3. open'.thoughts = IF open.kind = "reasoning" THEN Append(open.thoughts, n) ELSE <<n>>
    BY <1>3, <1>7 DEF Stream!SayThought
  <2>4. open'.thoughts \in Seq(Nat)
    BY <1>3, <2>3, SayingTyped
  <2>5. StreamTypes'
    BY <1>1, <1>3, <1>4, <1>5, <1>7, <2>1, <2>2, <2>4, SayingTyped
       DEF StreamTypes, Stream!SayThought
  <2> QED BY <1>5, <1>7, <2>1, <2>5, SentHeld DEF Stream!SayThought
<1>8. CASE Stream!SayNote
  <2>1. wire' = Append(wire, [type |-> "summary.delta", delta |-> n]) /\ ended = "no"
    BY <1>3, <1>8 DEF Stream!SayNote, Stream!Sends, Stream!Producing
  <2>2. said' = [said EXCEPT !.notes = Append(said.notes, n)] /\ open'.thoughts = <<>>
    BY <1>3, <1>8 DEF Stream!SayNote
  <2>3. StreamTypes'
    BY <1>1, <1>3, <1>4, <1>5, <1>8, <2>1, <2>2, SayingTyped DEF StreamTypes, Stream!SayNote
  <2> QED BY <1>5, <1>8, <2>1, <2>3, SentHeld DEF Stream!SayNote
<1>9. CASE Stream!SayCall
  <2>1. wire' = Append(wire, [type |-> "item.call", call |-> n]) /\ ended = "no"
    BY <1>3, <1>9 DEF Stream!SayCall, Stream!Sends, Stream!Producing
  <2>2. said' = [said EXCEPT !.calls = Append(said.calls, n)]
    BY <1>3, <1>9 DEF Stream!SayCall
  <2>3. StreamTypes'
    BY <1>1, <1>3, <1>4, <1>5, <1>9, <2>1, <2>2, SayingTyped DEF StreamTypes, Stream!SayCall
  <2> QED BY <1>5, <1>9, <2>1, <2>3, SentHeld DEF Stream!SayCall
<1> QED BY <1>6, <1>7, <1>8, <1>9

\* The event that ends an item tells nothing about how the stream ends.
LEMMA ItemsHeld ==
  ASSUME StreamInv, provider.result = "none", Stream!EndText \/ Stream!EndReasoning
  PROVE  StreamInv'
<1>1. StreamTypes
  BY DEF StreamInv
<1>2. wire \in Seq(StreamEvent)
  BY <1>1 DEF StreamTypes
<1>3. CASE Stream!EndText
  <2>1. wire' = Append(wire, [type |-> "text.done"]) /\ ended = "no" /\ open'.thoughts = <<>>
    BY <1>3 DEF Stream!EndText, Stream!Sends, Stream!NoItem
  <2>2. [type |-> "text.done"] \in StreamEvent
    BY DEF StreamEvent
  <2>3. Append(wire, [type |-> "text.done"]) \in Seq(StreamEvent)
    BY <1>2, <2>2
  <2>4. StreamTypes'
    BY <1>1, <1>3, <2>1, <2>3, SayingTyped DEF StreamTypes, Stream!EndText
  <2> QED BY <1>3, <2>1, <2>2, <2>4, SentHeld DEF Stream!EndText
<1>4. CASE Stream!EndReasoning
  <2>1. PICK held \in Seq(Nat) : held = IF style.content THEN open.thoughts ELSE <<>>
    BY <1>1, SayingTyped DEF StreamTypes
  <2>2. PICK e : e = [type |-> "item.reasoning", content |-> held]
    OBVIOUS
  <2>3. e \in StreamEvent /\ e.type = "item.reasoning"
    BY <2>2 DEF StreamEvent
  <2>4. wire' = Append(wire, e) /\ ended = "no" /\ open'.thoughts = <<>>
    BY <1>4, <2>1, <2>2 DEF Stream!EndReasoning, Stream!Sends, Stream!NoItem
  <2>5. Append(wire, e) \in Seq(StreamEvent)
    BY <1>2, <2>3
  <2>6. StreamTypes'
    BY <1>1, <1>4, <2>4, <2>5, SayingTyped DEF StreamTypes, Stream!EndReasoning
  <2> QED BY <1>4, <2>3, <2>4, <2>6, SentHeld DEF Stream!EndReasoning
<1> QED BY <1>3, <1>4

\* The endpoint ends the response, with a terminal event if it has one.
LEMMA FinishHeld ==
  ASSUME StreamInv, provider.result = "none", Stream!Finish
  PROVE  StreamInv'
<1>1. StreamTypes /\ EndTold /\ Answers /\ Stream!StopIsTrue /\ Stream!RefusalsKept
  BY DEF StreamInv
<1>2. wire \in Seq(StreamEvent) /\ ended = "no"
  BY <1>1 DEF StreamTypes, Stream!Finish
<1>3. provider.msg.finish = "" /\ (pipe # <<>> => pipe[1].type \notin {"terminal", "end"})
        /\ \A i \in DOMAIN wire : wire[i].type \notin {"terminal", "end", "error"}
  BY <1>1, <1>2 DEF EndTold
<1>4. CASE style.terminal
  <2>1. PICK how \in Ways : ended' = how /\ wire' = Append(wire, [type |-> "terminal", how |-> how])
    BY <1>4 DEF Stream!Finish, Stream!Sends, Ways
  <2>2. PICK e \in StreamEvent : e = [type |-> "terminal", how |-> how]
    BY DEF StreamEvent
  <2>3. /\ wire' \in Seq(StreamEvent) /\ wire' # <<>> /\ wire'[Len(wire')] = e
        /\ \A i \in DOMAIN wire' : (wire'[i] = e \/ (i \in DOMAIN wire /\ wire'[i] = wire[i]))
        /\ \A i \in 1 .. Len(wire') - 1 : i \in DOMAIN wire /\ wire'[i] = wire[i]
    BY <1>2, <2>1, <2>2, AppendedIs
  <2>4. StreamTypes'
    BY <1>1, <2>1, <2>3 DEF StreamTypes, Stream!Finish
  <2>5. UNCHANGED <<style, router, reply, pipe, provider>>
    BY DEF Stream!Finish
  <2>6. Announced(ended)'
    <3>1. Ends(e, how)
      BY <2>2 DEF Ends
    <3>2. \A i \in 1 .. Len(wire') - 1 : wire'[i].type # "terminal"
      BY <1>3, <2>3
    <3> QED BY <1>3, <2>1, <2>3, <2>5, <3>1, <3>2 DEF Announced, Ends
  <2>7. EndTold'
    <3>1. \A i \in DOMAIN wire' : wire'[i].type \notin {"end", "error"}
      <4>1. e.type = "terminal"
        BY <2>2
      <4> QED BY <1>3, <2>3, <4>1
    <3>2. ended' \in Ways /\ ended' \notin {"no", "closed", "refused", "abandoned"}
      BY <2>1 DEF Ways
    <3> QED BY <1>3, <2>5, <2>6, <3>1, <3>2 DEF EndTold
  <2> QED BY <1>1, <2>4, <2>5, <2>7, <1>2
          DEF StreamInv, Answers, Stream!StopIsTrue, Stream!RefusalsKept
<1>5. CASE ~style.terminal
  <2>1. ended' = "closed" /\ UNCHANGED <<style, said, open, wire, router, reply, pipe, provider>>
    BY <1>5 DEF Stream!Finish
  <2>2. StreamTypes'
    BY <1>1, <2>1 DEF StreamTypes
  <2>3. EndTold'
    BY <1>3, <2>1 DEF EndTold, Ways
  <2> QED BY <1>1, <1>2, <2>1, <2>2, <2>3
          DEF StreamInv, Answers, Stream!StopIsTrue, Stream!RefusalsKept
<1> QED BY <1>1, <1>4, <1>5 DEF StreamTypes, Stream!Styles

\* It refuses the request, or the connection breaks.
LEMMA RefuseHeld ==
  ASSUME StreamInv, provider.result = "none", Stream!Refuse
  PROVE  StreamInv'
<1>1. StreamTypes /\ EndTold /\ Answers /\ Stream!StopIsTrue /\ Stream!RefusalsKept
  BY DEF StreamInv
<1>2. /\ ended = "no" /\ ended' = "refused" /\ router = "waiting"
      /\ UNCHANGED <<style, said, open, wire, router, reply, pipe, provider>>
  BY DEF Stream!Refuse
<1>3. StreamTypes'
  BY <1>1, <1>2 DEF StreamTypes
<1>4. EndTold'
  BY <1>1, <1>2 DEF EndTold, Ways
<1> QED BY <1>1, <1>2, <1>3, <1>4
        DEF StreamInv, Answers, Stream!StopIsTrue, Stream!RefusalsKept

\* A connection that breaks is told as an error, never as a normal end.
LEMMA BreakHeld ==
  ASSUME StreamInv, provider.result = "none", Stream!Break
  PROVE  StreamInv'
<1>1. StreamTypes /\ EndTold /\ Answers /\ Stream!StopIsTrue /\ Stream!RefusalsKept
  BY DEF StreamInv
<1>2. /\ ended # "refused" /\ router # "closed" /\ ended' = "broken" /\ wire' = <<>>
      /\ UNCHANGED <<style, said, open, router, reply, pipe, provider>>
  BY DEF Stream!Break
<1>3. <<>> \in Seq(StreamEvent) /\ DOMAIN <<>> = {}
  OBVIOUS
<1>4. StreamTypes'
  BY <1>1, <1>2, <1>3 DEF StreamTypes
<1>5. EndTold'
  BY <1>1, <1>2, <1>3 DEF EndTold, Ways
<1> QED BY <1>1, <1>2, <1>4, <1>5
        DEF StreamInv, Answers, Stream!StopIsTrue, Stream!RefusalsKept

-----------------------------------------------------------------------------
\* The router.
LEMMA PrefetchHeld ==
  ASSUME StreamInv, provider.result = "none", Stream!PrefetchFails
  PROVE  StreamInv'
<1>1. StreamTypes /\ EndTold /\ Answers /\ Stream!StopIsTrue /\ Stream!RefusalsKept
  BY DEF StreamInv
<1>2. /\ router = "waiting" /\ router' = "closed" /\ wire = <<>> /\ ended # "no"
      /\ reply' = (IF ended = "refused" THEN "upstream" ELSE "bad gateway")
      /\ UNCHANGED <<style, said, open, ended, wire, pipe, provider>>
  BY DEF Stream!PrefetchFails, Stream!Answered, Stream!PreStreamStatus
<1>3. reply = "none" /\ pipe = <<>>
  BY <1>1, <1>2 DEF Answers
<1>4. StreamTypes'
  BY <1>1, <1>2 DEF StreamTypes
<1>5. EndTold'
  BY <1>1, <1>2, <1>3 DEF EndTold, Announced, HasTold
<1>6. Answers'
  BY <1>1, <1>2, <1>3 DEF Answers
<1>7. Stream!StopIsTrue' /\ Stream!RefusalsKept'
  BY <1>1, <1>2, <1>6 DEF Answers, Stream!StopIsTrue, Stream!RefusalsKept
<1> QED BY <1>4, <1>5, <1>6, <1>7 DEF StreamInv

\* The router answers with 200 only when it holds an event, and passes one on at a time.
LEMMA ForwardHeld ==
  ASSUME StreamInv, provider.result = "none", Stream!Forward
  PROVE  StreamInv'
<1>1. StreamTypes /\ EndTold /\ Answers /\ Stream!StopIsTrue /\ Stream!RefusalsKept
  BY DEF StreamInv
<1>2. /\ router \in {"waiting", "streaming"} /\ router' = "streaming" /\ reply' = "ok"
      /\ wire # <<>> /\ pipe = <<>> /\ pipe' = <<Head(wire)>> /\ wire' = Tail(wire)
      /\ UNCHANGED <<style, said, open, ended, provider>>
  BY DEF Stream!Forward, Stream!Answered
<1>3. /\ wire[1] \in StreamEvent /\ pipe' = <<wire[1]>> /\ wire' \in Seq(StreamEvent)
      /\ Len(wire) \in Nat \ {0} /\ Len(wire') = Len(wire) - 1
      /\ \A i \in DOMAIN wire' : i + 1 \in DOMAIN wire /\ wire'[i] = wire[i + 1]
  <2>1. wire \in Seq(StreamEvent)
    BY <1>1 DEF StreamTypes
  <2> QED BY <1>2, <2>1
<1>4. StreamTypes'
  BY <1>1, <1>2, <1>3 DEF StreamTypes
<1>5. pipe' # <<>> /\ pipe'[1] = wire[1] /\ 1 \in DOMAIN wire
  BY <1>2, <1>3
<1>6. ASSUME ended \in Ways PROVE Announced(ended)'
  <2>1. CASE Announced(ended)
    <3>1. /\ provider.msg.finish = "" /\ Ends(wire[Len(wire)], ended)
          /\ \A i \in 1 .. Len(wire) - 1 : wire[i].type # "terminal"
      BY <1>2, <2>1 DEF Announced
    <3>2. CASE Len(wire) = 1
      <4>1. wire' = <<>>
        BY <1>3, <3>2
      <4> QED BY <1>2, <1>5, <3>1, <3>2, <4>1 DEF Announced
    <3>3. CASE Len(wire) # 1
      <4>1. wire' # <<>> /\ Len(wire') \in DOMAIN wire' /\ wire'[Len(wire')] = wire[Len(wire)]
        BY <1>3, <3>3
      <4>2. \A i \in 1 .. Len(wire') - 1 : wire'[i].type # "terminal"
        <5> TAKE i \in 1 .. Len(wire') - 1
        <5>1. i \in DOMAIN wire' /\ i + 1 \in 1 .. Len(wire) - 1
          BY <1>3
        <5> QED BY <1>3, <3>1, <5>1
      <4>3. pipe'[1].type \notin {"terminal", "end"}
        <5>1. 1 \in 1 .. Len(wire) - 1
          BY <1>3, <3>3
        <5> QED BY <1>1, <1>5, <3>1, <5>1 DEF EndTold
      <4> QED BY <1>2, <3>1, <4>1, <4>2, <4>3 DEF Announced
    <3> QED BY <3>2, <3>3
  <2>2. CASE HasTold(ended)
    BY <1>2, <2>2 DEF HasTold
  <2> QED BY <1>1, <1>6, <2>1, <2>2 DEF EndTold
<1>7. EndTold'
  <2>1. \A i \in DOMAIN wire' : wire'[i].type \notin {"end", "error"}
    BY <1>1, <1>3 DEF EndTold
  <2>2. ended \in {"no", "closed", "refused", "abandoned"} =>
          /\ provider.msg.finish = ""
          /\ \A i \in DOMAIN wire' : wire'[i].type # "terminal"
          /\ pipe'[1].type # "terminal"
    BY <1>1, <1>3, <1>5 DEF EndTold
  <2>3. pipe'[1].type # "end"
    BY <1>1, <1>5 DEF EndTold
  <2> QED BY <1>2, <1>6, <2>1, <2>2, <2>3 DEF EndTold
<1>8. Answers'
  BY <1>2 DEF Answers
<1> QED BY <1>1, <1>2, <1>4, <1>7, <1>8 DEF StreamInv, Stream!StopIsTrue, Stream!RefusalsKept

\* The closing event of the router says how the endpoint ended.
LEMMA CloseHeld ==
  ASSUME StreamInv, provider.result = "none", Stream!CloseStream
  PROVE  StreamInv'
<1>1. StreamTypes /\ EndTold /\ Answers /\ Stream!StopIsTrue /\ Stream!RefusalsKept
  BY DEF StreamInv
<1>2. PICK kind : kind = IF ended = "broken" THEN "error" ELSE "end"
  OBVIOUS
<1>3. /\ router = "streaming" /\ router' = "closed" /\ wire = <<>> /\ pipe = <<>> /\ ended # "no"
      /\ pipe' = <<[type |-> kind]>>
      /\ UNCHANGED <<style, said, open, ended, wire, reply, provider>>
  BY <1>2 DEF Stream!CloseStream, Stream!ClosingEvent
<1>4. [type |-> kind] \in StreamEvent
  BY <1>2 DEF StreamEvent
<1>5. StreamTypes'
  BY <1>1, <1>3, <1>4 DEF StreamTypes
<1>6. pipe' # <<>> /\ pipe'[1].type = kind /\ kind # "terminal"
  BY <1>2, <1>3
<1>7. ended \in Ways => HasTold(ended) /\ kind = "end"
  BY <1>1, <1>2, <1>3 DEF EndTold, Announced, Ways
<1>8. EndTold'
  BY <1>1, <1>2, <1>3, <1>6, <1>7 DEF EndTold, HasTold
<1>9. Answers' /\ reply = "ok"
  BY <1>1, <1>3 DEF Answers
<1> QED BY <1>1, <1>3, <1>5, <1>8, <1>9 DEF StreamInv, Stream!StopIsTrue, Stream!RefusalsKept

-----------------------------------------------------------------------------
\* The result ends the generation.
LEMMA ErrorHeld ==
  ASSUME StreamTypes', provider'.result = "error", provider'.msg.finish = "cancelled",
         reply' = "ok"
  PROVE  StreamInv'
<1>1. provider'.result # "none" /\ provider'.result # "ok" /\ provider'.result # "refused"
  OBVIOUS
<1>2. Stream!StopIsTrue'
  BY <1>1, Zenon DEF Stream!StopIsTrue, Stream!msg
<1>3. Stream!RefusalsKept'
  BY <1>1 DEF Stream!RefusalsKept
<1> QED BY <1>1, <1>2, <1>3 DEF StreamInv

\* A result without an error is settled: its reason is what the endpoint said.
LEMMA OkHeld ==
  ASSUME StreamTypes', provider'.result = "ok", reply' = "ok",
         provider'.msg.finish = "stop" <=> (ended' = "completed" /\ style'.usage)
  PROVE  StreamInv'
<1>1. provider'.result # "none" /\ provider'.result # "error" /\ provider'.result # "refused"
  OBVIOUS
<1>2. Stream!StopIsTrue'
  BY <1>1, Zenon DEF Stream!StopIsTrue, Stream!msg
<1>3. Stream!RefusalsKept'
  BY <1>1 DEF Stream!RefusalsKept
<1> QED BY <1>1, <1>2, <1>3 DEF StreamInv

\* The provider.
LEMMA FrameTyped ==
  ASSUME NEW chunks \in Seq(Frame), NEW kind \in Shapes, NEW what \in Nat
  PROVE  With(chunks, kind, what) \in Seq(Frame)
<1>1. PICK c \in Frame : c = [kind |-> kind, what |-> what]
  BY DEF Frame
<1>2. Append(chunks, c) \in Seq(Frame)
  OBVIOUS
<1> QED BY <1>1, <1>2 DEF With

\* The provider stays well formed when the stream ends.
LEMMA OnEndTyped ==
  ASSUME NEW p, Typed(p), NEW failed \in BOOLEAN, NEW q, q = Stream!OnEnd(p, failed)
  PROVE  Typed(q)
<1>1. p.msg.reasoning \o p.pending \in Seq(Nat)
  <2>1. \A a, b \in Seq(Nat) : a \o b \in Seq(Nat)
    BY ConcatProperties
  <2> QED BY <2>1 DEF Typed
<1>2. /\ Has(q, p.msg.content, p.msg.reasoning \o p.pending, p.msg.calls,
               EndReason(p.msg.finish, failed), p.pending, IF failed THEN "error" ELSE "ok")
      /\ Showing(q, p.textStarted, p.reasoningStarted, p.chunks)
  BY OnEndIs DEF Typed
<1> QED BY <1>1, <1>2 DEF Typed, Has, Showing

\* The provider stays well formed whatever event it handles.
LEMMA HandledTyped ==
  ASSUME NEW p, Typed(p), NEW e \in StreamEvent, NEW q, q = Stream!Handled(p, e)
  PROVE  Typed(q)
<1>1. /\ Shaped(p) /\ p.textStarted \in BOOLEAN /\ p.reasoningStarted \in BOOLEAN
      /\ p.msg.content \in Seq(Nat) /\ p.msg.reasoning \in Seq(Nat) /\ p.msg.calls \in Seq(Nat)
      /\ p.pending \in Seq(Nat) /\ p.chunks \in Seq(Frame)
  BY DEF Typed
<1>2. \A s \in Seq(Nat), n \in Nat : Append(s, n) \in Seq(Nat)
  OBVIOUS
<1>3. /\ 0 \in Nat /\ "text_start" \in Shapes /\ "text_delta" \in Shapes /\ "text_end" \in Shapes
      /\ "reasoning_start" \in Shapes /\ "reasoning_delta" \in Shapes
      /\ "reasoning_end" \in Shapes /\ "tool_call" \in Shapes
  BY DEF Shapes
<1>4. \A kind \in Shapes, what \in Nat : With(p.chunks, kind, what) \in Seq(Frame)
  BY <1>1, FrameTyped
<1>5. /\ Opening(p.chunks, p.textStarted, "text_start") \in Seq(Frame)
      /\ Opening(p.chunks, p.reasoningStarted, "reasoning_start") \in Seq(Frame)
  BY <1>1, <1>3, <1>4 DEF Opening
<1>6. CASE e.type = "text.delta"
  <2>1. e.delta \in Nat /\ q = Stream!OnTextDelta(p, e.delta)
    BY <1>6 DEF StreamEvent, Stream!Handled
  <2>2. PICK piece : piece = e.delta
    OBVIOUS
  <2>3. /\ Has(q, Append(p.msg.content, piece), p.msg.reasoning, p.msg.calls, p.msg.finish,
                 p.pending, p.result)
        /\ Showing(q, TRUE, p.reasoningStarted,
                    With(Opening(p.chunks, p.textStarted, "text_start"), "text_delta", piece))
    BY <1>1, <2>1, <2>2, OnTextDeltaIs
  <2>4. q.chunks \in Seq(Frame)
    BY <1>3, <1>5, <2>1, <2>2, <2>3, FrameTyped DEF Showing
  <2>5. q.textStarted \in BOOLEAN /\ q.reasoningStarted \in BOOLEAN
    BY <1>1, <2>3, Zenon DEF Showing
  <2> QED BY <1>1, <1>2, <2>1, <2>2, <2>3, <2>4, <2>5 DEF Typed, Has
<1>7. CASE e.type = "text.done"
  <2>1. q = Stream!OnTextDone(p)
    BY <1>7 DEF Stream!Handled
  <2>2. /\ Unmoved(p, q)
        /\ Showing(q, FALSE, p.reasoningStarted,
                    IF p.textStarted THEN With(p.chunks, "text_end", 0) ELSE p.chunks)
    BY <1>1, <2>1, OnTextDoneIs
  <2>3. q.chunks \in Seq(Frame)
    BY <1>1, <1>3, <1>4, <2>2 DEF Showing
  <2>4. q.textStarted \in BOOLEAN /\ q.reasoningStarted \in BOOLEAN
    BY <1>1, <2>2, Zenon DEF Showing
  <2> QED BY <1>1, <2>2, <2>3, <2>4 DEF Typed, Unmoved, Has
<1>8. CASE e.type \in {"reasoning.delta", "summary.delta"}
  <2>1. e.delta \in Nat /\ q = Stream!OnReasoningDelta(p, e.delta)
    BY <1>8 DEF StreamEvent, Stream!Handled
  <2>2. PICK piece : piece = e.delta
    OBVIOUS
  <2>3. /\ Has(q, p.msg.content, p.msg.reasoning, p.msg.calls, p.msg.finish,
                 Append(p.pending, piece), p.result)
        /\ Showing(q, p.textStarted, TRUE,
                    With(Opening(p.chunks, p.reasoningStarted, "reasoning_start"),
                         "reasoning_delta", piece))
    BY <1>1, <2>1, <2>2, OnReasoningDeltaIs
  <2>4. q.chunks \in Seq(Frame)
    BY <1>3, <1>5, <2>1, <2>2, <2>3, FrameTyped DEF Showing
  <2>5. q.textStarted \in BOOLEAN /\ q.reasoningStarted \in BOOLEAN
    BY <1>1, <2>3, Zenon DEF Showing
  <2> QED BY <1>1, <1>2, <2>1, <2>2, <2>3, <2>4, <2>5 DEF Typed, Has
<1>9. CASE e.type = "item.reasoning"
  <2>1. e.content \in Seq(Nat) /\ q = Stream!OnReasoningItem(p, e.content)
    BY <1>9 DEF StreamEvent, Stream!Handled
  <2>2. PICK r : r = p.msg.reasoning \o (IF e.content # <<>> THEN e.content ELSE p.pending)
    OBVIOUS
  <2>3. /\ Has(q, p.msg.content, r, p.msg.calls, p.msg.finish, <<>>, p.result)
        /\ Showing(q, p.textStarted, FALSE,
                    IF p.reasoningStarted THEN With(p.chunks, "reasoning_end", 0) ELSE p.chunks)
    BY <1>1, <2>1, <2>2, OnReasoningItemIs
  <2>4. r \in Seq(Nat) /\ <<>> \in Seq(Nat)
    BY <1>1, <2>1, <2>2, ConcatProperties, EmptySeq
  <2>5. q.chunks \in Seq(Frame)
    BY <1>1, <1>3, <1>4, <2>3 DEF Showing
  <2>6. q.textStarted \in BOOLEAN /\ q.reasoningStarted \in BOOLEAN
    BY <1>1, <2>3, Zenon DEF Showing
  <2> QED BY <1>1, <2>3, <2>4, <2>5, <2>6 DEF Typed, Has
<1>10. CASE e.type = "item.call"
  <2>1. e.call \in Nat /\ q = Stream!OnCall(p, e.call)
    BY <1>10 DEF StreamEvent, Stream!Handled
  <2>2. /\ Has(q, p.msg.content, p.msg.reasoning, Append(p.msg.calls, e.call), p.msg.finish,
                 p.pending, p.result)
        /\ Showing(q, p.textStarted, p.reasoningStarted, With(p.chunks, "tool_call", e.call))
    BY <1>1, <2>1, OnCallIs
  <2>3. q.chunks \in Seq(Frame)
    BY <1>3, <1>4, <2>1, <2>2 DEF Showing
  <2> QED BY <1>1, <1>2, <2>1, <2>2, <2>3 DEF Typed, Has, Showing
<1>11. CASE e.type = "terminal"
  <2>1. q = Stream!OnTerminal(p, e.how)
    BY <1>11 DEF Stream!Handled
  <2> QED BY <1>1, <2>1, OnTerminalIs DEF Typed, Has, Showing
<1>12. CASE e.type \in {"end", "error"}
  <2>1. q = Stream!OnEnd(p, FALSE) \/ q = Stream!OnEnd(p, TRUE)
    BY <1>12 DEF Stream!Handled
  <2> QED BY <2>1, OnEndTyped
<1> QED BY <1>6, <1>7, <1>8, <1>9, <1>10, <1>11, <1>12 DEF StreamEvent

\* Only the last events of a stream touch how the message ended.
LEMMA HandledQuietly ==
  ASSUME NEW p, Typed(p), NEW e \in StreamEvent, NEW q, q = Stream!Handled(p, e),
         e.type \in {"text.delta", "text.done", "reasoning.delta", "summary.delta",
                    "item.reasoning", "item.call"}
  PROVE  q.msg.finish = p.msg.finish /\ q.result = p.result
<1>1. Shaped(p) /\ p.textStarted \in BOOLEAN /\ p.reasoningStarted \in BOOLEAN
  BY DEF Typed
<1>2. CASE e.type = "text.delta"
  <2>1. PICK piece : piece = e.delta
    OBVIOUS
  <2>2. q = Stream!OnTextDelta(p, piece)
    BY <1>2, <2>1 DEF Stream!Handled
  <2>3. PICK content : Has(q, content, p.msg.reasoning, p.msg.calls, p.msg.finish, p.pending,
                           p.result)
    BY <1>1, <2>2, OnTextDeltaIs
  <2> QED BY <2>3 DEF Has
<1>3. CASE e.type = "text.done"
  BY <1>1, <1>3, OnTextDoneIs DEF Stream!Handled, Unmoved, Has
<1>4. CASE e.type \in {"reasoning.delta", "summary.delta"}
  <2>1. PICK piece : piece = e.delta
    OBVIOUS
  <2>2. q = Stream!OnReasoningDelta(p, piece)
    BY <1>4, <2>1 DEF Stream!Handled
  <2>3. PICK pending : Has(q, p.msg.content, p.msg.reasoning, p.msg.calls, p.msg.finish,
                           pending, p.result)
    BY <1>1, <2>2, OnReasoningDeltaIs
  <2> QED BY <2>3 DEF Has
<1>5. CASE e.type = "item.reasoning"
  <2>1. PICK content : content = e.content
    OBVIOUS
  <2>2. q = Stream!OnReasoningItem(p, content)
    BY <1>5, <2>1 DEF Stream!Handled
  <2>3. PICK reasoning, pending : Has(q, p.msg.content, reasoning, p.msg.calls, p.msg.finish,
                                      pending, p.result)
    BY <1>1, <2>2, OnReasoningItemIs
  <2> QED BY <2>3 DEF Has
<1>6. CASE e.type = "item.call"
  BY <1>1, <1>6, OnCallIs DEF Stream!Handled, Has
<1> QED BY <1>2, <1>3, <1>4, <1>5, <1>6

\* Handling an event keeps the types, the refusals and what a normal end means.
LEMMA EventHeld ==
  ASSUME StreamInv, Stream!HandleEvent
  PROVE  StreamInv'
<1>1. StreamTypes /\ EndTold /\ Answers /\ provider.result = "none" /\ reply = "ok"
        /\ pipe # <<>>
  BY DEF StreamInv, Stream!HandleEvent, Stream!Running
<1>2. PICK e \in StreamEvent : pipe = <<e>>
  BY <1>1 DEF StreamTypes
<1>3. pipe[1] = e /\ Head(pipe) = e /\ Tail(pipe) = <<>> /\ Typed(provider)
  BY <1>1, <1>2 DEF StreamTypes
<1>4. /\ provider' = Stream!Handled(provider, e) /\ pipe' = <<>>
      /\ UNCHANGED <<style, said, open, ended, wire, router, reply>>
  BY <1>3 DEF Stream!HandleEvent
<1>5. StreamTypes'
  BY <1>1, <1>3, <1>4, HandledTyped DEF StreamTypes
<1>6. Answers' /\ reply' = "ok"
  BY <1>1, <1>4 DEF Answers
<1>7. CASE e.type \notin {"terminal", "end", "error"}
  <2>1. e.type \in {"text.delta", "text.done", "reasoning.delta", "summary.delta",
                    "item.reasoning", "item.call"}
    BY <1>7 DEF StreamEvent
  <2>2. provider'.msg.finish = provider.msg.finish /\ provider'.result = "none"
    BY <1>1, <1>3, <1>4, <2>1, HandledQuietly
  <2>3. ended \in Ways => Announced(ended)'
    <3>1. ~HasTold(ended)
      BY <1>1, <1>3, <1>7 DEF HasTold
    <3>2. ASSUME Announced(ended) PROVE Announced(ended)'
      <4>1. wire # <<>>
        BY <1>3, <1>7, <3>2 DEF Announced, Ends
      <4> QED BY <1>4, <2>2, <3>2, <4>1 DEF Announced
    <3> QED BY <1>1, <3>1, <3>2 DEF EndTold
  <2>4. EndTold'
    BY <1>1, <1>4, <2>2, <2>3 DEF EndTold
  <2> QED BY <1>5, <1>6, <2>2, <2>4 DEF StreamInv, Stream!StopIsTrue, Stream!RefusalsKept
<1>8. CASE e.type = "terminal"
  <2>1. provider' = Stream!OnTerminal(provider, e.how)
    BY <1>4, <1>8 DEF Stream!Handled
  <2>2. /\ provider'.msg.finish = Stream!FinishReason(e.how, style.usage)
        /\ provider'.result = IF e.how = "failed" THEN "error" ELSE "none"
    BY <1>1, <1>3, <2>1, OnTerminalIs DEF Typed, Has
  <2>3. CASE e.how = "failed"
    <3>1. provider'.msg.finish = "cancelled" /\ provider'.result = "error"
      BY <2>2, <2>3 DEF Stream!FinishReason
    <3> QED BY <1>5, <1>6, <2>2, <3>1, ErrorHeld
  <2>4. CASE e.how # "failed"
    <3>1. ended \notin {"no", "closed", "refused", "abandoned"}
      BY <1>1, <1>3, <1>8 DEF EndTold
    <3>2. ASSUME ended \in Ways PROVE HasTold(ended)'
      <4>1. ~HasTold(ended)
        BY <1>1, <1>3, <1>8 DEF HasTold
      <4>2. Announced(ended) /\ wire = <<>> /\ Ends(e, ended)
        BY <1>1, <1>3, <1>8, <3>2, <4>1 DEF EndTold, Announced
      <4>3. e.how = ended
        BY <4>2 DEF Ends
      <4> QED BY <1>4, <2>2, <2>4, <4>2, <4>3 DEF HasTold, Stream!FinishReason
    <3>3. EndTold'
      BY <1>1, <1>4, <3>1, <3>2 DEF EndTold
    <3>4. provider'.result = "none"
      BY <2>2, <2>4
    <3> QED BY <1>5, <1>6, <2>2, <3>3, <3>4
            DEF StreamInv, Stream!StopIsTrue, Stream!RefusalsKept
  <2> QED BY <2>3, <2>4
<1>9. CASE e.type = "end"
  <2>1. provider' = Stream!OnEnd(provider, FALSE)
    BY <1>4, <1>9 DEF Stream!Handled
  <2>2. /\ provider'.result = "ok"
        /\ provider'.msg.finish = IF provider.msg.finish = "" THEN "usage_unavailable"
                                  ELSE provider.msg.finish
    BY <1>3, <2>1, OnEndIs DEF Typed, Has, EndReason
  <2>3. wire = <<>> /\ ended \notin {"no", "broken"}
    BY <1>1, <1>3, <1>9 DEF EndTold
  <2>4. ended \in Ways \/ ended \in {"closed", "refused", "abandoned"}
    BY <1>1, <2>3 DEF StreamTypes
  <2>5. CASE ended \in Ways
    <3>1. HasTold(ended)
      BY <1>1, <1>3, <1>9, <2>3, <2>5 DEF EndTold, Announced, Ends
    <3>2. provider.msg.finish = Stream!FinishReason(ended, style.usage)
      BY <3>1 DEF HasTold
    <3>3. style.usage \in BOOLEAN
      BY <1>1 DEF StreamTypes, Stream!Styles
    <3>4. provider.msg.finish # ""
            /\ (provider.msg.finish = "stop" <=> ended = "completed" /\ style.usage)
      BY <2>5, <3>2, <3>3 DEF Stream!FinishReason, Ways
    <3>5. provider'.msg.finish = "stop" <=> (ended' = "completed" /\ style'.usage)
      BY <1>4, <2>2, <3>4
    <3> QED BY <1>5, <1>6, <2>2, <3>5, OkHeld
  <2>6. CASE ended \in {"closed", "refused", "abandoned"}
    <3>1. provider'.msg.finish = "usage_unavailable"
      BY <1>1, <2>2, <2>6 DEF EndTold
    <3>2. ended' # "completed" /\ provider'.msg.finish # "stop"
      BY <1>4, <2>6, <3>1
    <3> QED BY <1>5, <1>6, <2>2, <3>2, OkHeld
  <2> QED BY <2>4, <2>5, <2>6
<1>10. CASE e.type = "error"
  <2>1. provider' = Stream!OnEnd(provider, TRUE)
    BY <1>4, <1>10 DEF Stream!Handled
  <2>2. provider'.result = "error" /\ provider'.msg.finish = "cancelled"
    BY <1>3, <2>1, OnEndIs DEF Typed, Has, EndReason
  <2> QED BY <1>5, <1>6, <2>2, ErrorHeld
<1> QED BY <1>7, <1>8, <1>9, <1>10

\* A request that is refused, or cancelled before it was answered, has shown nothing.
LEMMA RefusedHeld ==
  ASSUME StreamInv, provider.result = "none", reply # "ok",
         provider' = [provider EXCEPT !.result = "refused"],
         StreamTypes => StreamTypes', UNCHANGED reply, reply = "upstream" => UNCHANGED ended
  PROVE  StreamInv'
<1>1. StreamTypes /\ Answers
  BY DEF StreamInv
<1>2. provider'.result = "refused" /\ provider'.msg = provider.msg
        /\ provider'.chunks = provider.chunks
  BY <1>1 DEF StreamTypes, Typed, Shaped
<1>3. provider'.result # "none" /\ provider'.result # "ok" /\ provider'.result # "error"
  BY <1>2
<1>4. Stream!StopIsTrue'
  BY <1>3 DEF Stream!StopIsTrue
<1>5. Stream!RefusalsKept'
  BY <1>1, <1>2 DEF Answers, Stream!RefusalsKept, Stream!msg
<1> QED BY <1>1, <1>3, <1>4, <1>5 DEF StreamInv

\* The provider stays well formed when the request is refused.
LEMMA RefusedTyped ==
  ASSUME Typed(provider), NEW q, q = [provider EXCEPT !.result = "refused"]
  PROVE  Typed(q)
<1>1. q = [msg |-> provider.msg, textStarted |-> provider.textStarted,
           reasoningStarted |-> provider.reasoningStarted, pending |-> provider.pending,
           chunks |-> provider.chunks, result |-> "refused"]
  BY DEF Typed, Shaped
<1>2. Shaped(q) /\ q.msg = provider.msg /\ q.pending = provider.pending
        /\ q.chunks = provider.chunks
  BY <1>1 DEF Typed, Shaped
<1>3. q.textStarted = provider.textStarted /\ q.reasoningStarted = provider.reasoningStarted
  BY <1>1
<1> QED BY <1>2, <1>3 DEF Typed

\* A refused request has shown nothing and stored nothing.
LEMMA HandleRefusalHeld ==
  ASSUME StreamInv, Stream!HandleRefusal
  PROVE  StreamInv'
<1>1. /\ provider.result = "none" /\ reply \in {"upstream", "bad gateway"}
      /\ provider' = [provider EXCEPT !.result = "refused"]
      /\ UNCHANGED <<style, said, open, ended, wire, router, reply, pipe>>
  BY DEF Stream!HandleRefusal, Stream!Running
<1>2. StreamTypes => StreamTypes'
  BY <1>1, RefusedTyped DEF StreamTypes
<1> QED BY <1>1, <1>2, RefusedHeld

\* A cancelled request is refused before the answer and cancelled after it.
LEMMA CancelHeld ==
  ASSUME StreamInv, Stream!Cancel
  PROVE  StreamInv'
<1>1. StreamTypes /\ Answers /\ provider.result = "none" /\ reply \in {"none", "ok"}
  BY DEF StreamInv, Stream!Cancel, Stream!Running
<1>2. /\ ended' = (IF ended = "no" THEN "abandoned" ELSE ended)
      /\ wire' = <<>> /\ pipe' = <<>> /\ UNCHANGED <<style, said, open, reply>>
  BY DEF Stream!Cancel
<1>3. <<>> \in Seq(StreamEvent)
  OBVIOUS
<1>4. ASSUME Typed(provider') PROVE StreamTypes'
  BY <1>1, <1>2, <1>3, <1>4 DEF StreamTypes
<1>5. CASE reply = "ok"
  <2>1. provider' = Stream!OnEnd(provider, TRUE)
    BY <1>5 DEF Stream!Cancel
  <2>2. provider'.result = "error" /\ provider'.msg.finish = "cancelled"
    BY <1>1, <2>1, OnEndIs DEF StreamTypes, Typed, Has, EndReason
  <2>3. Typed(provider')
    BY <1>1, <2>1, OnEndTyped DEF StreamTypes
  <2> QED BY <1>2, <1>4, <1>5, <2>2, <2>3, ErrorHeld
<1>6. CASE reply = "none"
  <2>1. provider' = [provider EXCEPT !.result = "refused"]
    BY <1>6 DEF Stream!Cancel
  <2>2. StreamTypes'
    BY <1>1, <1>4, <2>1, RefusedTyped DEF StreamTypes
  <2> QED BY <1>1, <1>2, <1>6, <2>1, <2>2, RefusedHeld
<1> QED BY <1>1, <1>5, <1>6

\* Every step of endpoint, router and provider keeps the types, the refusals and what a
\* normal end means.
LEMMA StreamStep == StreamInv /\ [Stream!Next]_Stream!vars => StreamInv'
<1>1. ASSUME StreamInv, UNCHANGED Stream!vars PROVE StreamInv'
  <2>1. StreamTypes' /\ Stream!StopIsTrue' /\ Stream!RefusalsKept'
    BY <1>1 DEF Stream!vars, StreamInv, StreamTypes, Typed, Shaped, Stream!StopIsTrue,
                Stream!RefusalsKept, Stream!msg
  <2>2. EndTold /\ Answers => EndTold' /\ Answers'
    BY <1>1 DEF Stream!vars, EndTold, Announced, HasTold, Answers
  <2> QED BY <1>1, <2>1, <2>2 DEF StreamInv, Stream!vars
<1>2. ASSUME StreamInv, Stream!Next PROVE StreamInv'
  <2>1. CASE Stream!Running /\ (Stream!Endpoint \/ Stream!PrefetchFails \/ Stream!Forward
                                  \/ Stream!CloseStream)
    BY <1>2, <2>1, SaysHeld, ItemsHeld, FinishHeld, RefuseHeld, BreakHeld, PrefetchHeld,
       ForwardHeld, CloseHeld DEF Stream!Endpoint, Stream!Running
  <2>2. CASE Stream!HandleEvent \/ Stream!HandleRefusal \/ Stream!Cancel
    BY <1>2, <2>2, EventHeld, HandleRefusalHeld, CancelHeld
  <2>3. CASE Stream!Done
    BY <1>1, <1>2, <2>3 DEF Stream!Done
  <2> QED BY <1>2, <2>1, <2>2, <2>3 DEF Stream!Next
<1> QED BY <1>1, <1>2


-----------------------------------------------------------------------------
(* The numbers under way.                                                  *)

Thinking == {"reasoning.delta", "summary.delta"}
Numbered == {"text.delta", "item.call"} \cup Thinking

\* The event e after those of s, and before them.
Follows(t, s, e) == t = Append(s, e)
Leads(t, e, s)   == t = <<e>> \o s

Number(e) == IF e.type = "item.call" THEN e.call ELSE e.delta

\* The numbers of the events of some kinds.
Sent(s, kinds) == {Number(s[i]) : i \in {j \in DOMAIN s : s[j].type \in kinds}}

\* The numbers go up along the way, across all kinds.
InTurn(s) ==
  \A i, j \in DOMAIN s :
    i < j /\ s[i].type \in Numbered /\ s[j].type \in Numbered => Number(s[i]) < Number(s[j])

\* The events that carry a piece carry a number.
LEMMA NumbersAre ==
  ASSUME NEW e \in StreamEvent, e.type \in Numbered
  PROVE  Number(e) \in Nat
BY DEF StreamEvent, Numbered, Thinking, Number

\* What is under way of some kinds is a set of numbers.
LEMMA SentTyped ==
  ASSUME NEW s \in Seq(StreamEvent), NEW kinds \in SUBSET Numbered
  PROVE  Sent(s, kinds) \in SUBSET Nat
<1>1. ASSUME NEW i \in DOMAIN s, s[i].type \in kinds PROVE Number(s[i]) \in Nat
  <2>1. s[i] \in StreamEvent
    BY <1>1
  <2> QED BY <1>1, <2>1, NumbersAre
<1> QED BY <1>1 DEF Sent

\* An event is sent ...
LEMMA SentMore ==
  ASSUME NEW s \in Seq(StreamEvent), NEW e \in StreamEvent, NEW t, Follows(t, s, e), NEW kinds
  PROVE  /\ e.type \in kinds => Sent(t, kinds) = Sent(s, kinds) \cup {Number(e)}
         /\ e.type \notin kinds => Sent(t, kinds) = Sent(s, kinds)
<1>1. /\ DOMAIN t = 1 .. Len(s) + 1 /\ DOMAIN s = 1 .. Len(s) /\ Len(s) \in Nat
      /\ t[Len(s) + 1] = e /\ \A i \in 1 .. Len(s) : t[i] = s[i]
  BY DEF Follows
<1>2. \A x : x \in Sent(t, kinds) <=> \E i \in 1 .. Len(s) + 1 : t[i].type \in kinds /\ x = Number(t[i])
  BY <1>1 DEF Sent
<1>3. \A x : x \in Sent(s, kinds) <=> \E i \in 1 .. Len(s) : s[i].type \in kinds /\ x = Number(s[i])
  BY <1>1 DEF Sent
<1>4. \A x : x \in Sent(t, kinds) <=> x \in Sent(s, kinds) \/ (e.type \in kinds /\ x = Number(e))
  <2> TAKE x
  <2>1. ASSUME x \in Sent(t, kinds) PROVE x \in Sent(s, kinds) \/ (e.type \in kinds /\ x = Number(e))
    <3>1. PICK i \in 1 .. Len(s) + 1 : t[i].type \in kinds /\ x = Number(t[i])
      BY <1>2, <2>1
    <3>2. i = Len(s) + 1 \/ i \in 1 .. Len(s)
      BY <1>1
    <3> QED BY <1>1, <1>3, <3>1, <3>2
  <2>2. ASSUME x \in Sent(s, kinds) PROVE x \in Sent(t, kinds)
    <3>1. PICK i \in 1 .. Len(s) : s[i].type \in kinds /\ x = Number(s[i])
      BY <1>3, <2>2
    <3>2. i \in 1 .. Len(s) + 1 /\ t[i] = s[i]
      BY <1>1
    <3> QED BY <1>2, <3>1, <3>2
  <2>3. ASSUME e.type \in kinds, x = Number(e) PROVE x \in Sent(t, kinds)
    <3>1. Len(s) + 1 \in 1 .. Len(s) + 1
      BY <1>1
    <3> QED BY <1>1, <1>2, <2>3, <3>1
  <2> QED BY <2>1, <2>2, <2>3
<1> QED BY <1>4

\* Events with rising numbers stay so when one with a larger number, or none, follows.
LEMMA InTurnMore ==
  ASSUME NEW s \in Seq(StreamEvent), NEW e \in StreamEvent, NEW t, Follows(t, s, e), InTurn(s),
         e.type \in Numbered =>
           \A i \in DOMAIN s : s[i].type \in Numbered => Number(s[i]) < Number(e)
  PROVE  InTurn(t)
<1>1. /\ DOMAIN t = 1 .. Len(s) + 1 /\ DOMAIN s = 1 .. Len(s) /\ Len(s) \in Nat
      /\ t[Len(s) + 1] = e /\ \A i \in 1 .. Len(s) : t[i] = s[i]
  BY DEF Follows
<1>2. ASSUME NEW i \in DOMAIN t, NEW j \in DOMAIN t, i < j, t[i].type \in Numbered,
             t[j].type \in Numbered
      PROVE  Number(t[i]) < Number(t[j])
  <2>1. i \in DOMAIN s /\ t[i] = s[i]
    BY <1>1, <1>2
  <2>2. CASE j = Len(s) + 1
    BY <1>1, <1>2, <2>1, <2>2
  <2>3. CASE j # Len(s) + 1
    <3>1. j \in DOMAIN s /\ t[j] = s[j]
      BY <1>1, <2>3
    <3> QED BY <1>2, <2>1, <3>1 DEF InTurn
  <2> QED BY <2>2, <2>3
<1> QED BY <1>2 DEF InTurn

\* ... and the first one is read.
LEMMA PrependedIs ==
  ASSUME NEW s \in Seq(StreamEvent), NEW e \in StreamEvent, NEW t, Leads(t, e, s)
  PROVE  /\ t \in Seq(StreamEvent)
         /\ DOMAIN t = 1 .. Len(s) + 1 /\ DOMAIN s = 1 .. Len(s) /\ Len(s) \in Nat
         /\ Len(t) = Len(s) + 1
         /\ t[1] = e /\ \A i \in 1 .. Len(s) : t[i + 1] = s[i]
<1>1. <<e>> \in Seq(StreamEvent) /\ Len(<<e>>) = 1 /\ Len(s) \in Nat /\ t = <<e>> \o s
  BY DEF Leads
<1>2. t \in Seq(StreamEvent) /\ Len(t) = Len(s) + 1
  BY <1>1, ConcatProperties
<1>3. t[1] = e /\ \A i \in 1 .. Len(s) : t[i + 1] = s[i]
  BY <1>1
<1>4. DOMAIN t = 1 .. Len(s) + 1 /\ DOMAIN s = 1 .. Len(s)
  BY <1>1, <1>2
<1> QED BY <1>1, <1>2, <1>3, <1>4

\* Every other event of it is one place further back there.
LEMMA PrependedPlaces ==
  ASSUME NEW s \in Seq(StreamEvent), NEW e \in StreamEvent, NEW t, Leads(t, e, s)
  PROVE  \A i \in DOMAIN t : i = 1 \/ (i - 1 \in DOMAIN s /\ (i - 1) + 1 = i)
<1>1. DOMAIN t = 1 .. Len(s) + 1 /\ DOMAIN s = 1 .. Len(s) /\ Len(s) \in Nat
  BY PrependedIs
<1> QED BY <1>1

\* Reading the first event takes its number, the least one, from what is under way of its
\* kind and leaves the other kinds alone.
LEMMA SentLess ==
  ASSUME NEW s \in Seq(StreamEvent), NEW e \in StreamEvent, NEW t, Leads(t, e, s), InTurn(t),
         NEW kinds \in SUBSET Numbered
  PROVE  /\ e.type \in kinds => /\ Sent(t, kinds) = Sent(s, kinds) \cup {Number(e)}
                                /\ Number(e) \in Nat /\ Number(e) \notin Sent(s, kinds)
                                /\ \A x \in Sent(s, kinds) : Number(e) < x
         /\ e.type \notin kinds => Sent(t, kinds) = Sent(s, kinds)
         /\ InTurn(s)
<1>1. /\ DOMAIN t = 1 .. Len(s) + 1 /\ DOMAIN s = 1 .. Len(s) /\ Len(s) \in Nat
      /\ t[1] = e /\ \A i \in 1 .. Len(s) : t[i + 1] = s[i]
      /\ \A i \in DOMAIN t : i = 1 \/ (i - 1 \in 1 .. Len(s) /\ (i - 1) + 1 = i)
  <2>1. /\ DOMAIN t = 1 .. Len(s) + 1 /\ DOMAIN s = 1 .. Len(s) /\ Len(s) \in Nat
        /\ t[1] = e /\ \A i \in 1 .. Len(s) : t[i + 1] = s[i]
    BY PrependedIs
  <2>2. \A i \in DOMAIN t : i = 1 \/ (i - 1 \in DOMAIN s /\ (i - 1) + 1 = i)
    BY PrependedPlaces
  <2> QED BY <2>1, <2>2
<1>2. \A x : x \in Sent(t, kinds) <=> \E i \in 1 .. Len(s) + 1 : t[i].type \in kinds /\ x = Number(t[i])
  BY <1>1 DEF Sent
<1>3. \A x : x \in Sent(s, kinds) <=> \E i \in 1 .. Len(s) : s[i].type \in kinds /\ x = Number(s[i])
  BY <1>1 DEF Sent
<1>4. \A i \in 1 .. Len(s) : i + 1 \in 1 .. Len(s) + 1 /\ 1 < i + 1
  BY <1>1
<1>5. 1 \in 1 .. Len(s) + 1
  BY <1>1
<1>6. \A x : x \in Sent(t, kinds) <=> x \in Sent(s, kinds) \/ (e.type \in kinds /\ x = Number(e))
  <2> TAKE x
  <2>1. ASSUME x \in Sent(t, kinds) PROVE x \in Sent(s, kinds) \/ (e.type \in kinds /\ x = Number(e))
    <3>1. PICK i \in 1 .. Len(s) + 1 : t[i].type \in kinds /\ x = Number(t[i])
      BY <1>2, <2>1
    <3>2. i = 1 \/ (i - 1 \in 1 .. Len(s) /\ t[i] = s[i - 1])
      BY <1>1
    <3> QED BY <1>1, <1>3, <3>1, <3>2
  <2>2. ASSUME x \in Sent(s, kinds) PROVE x \in Sent(t, kinds)
    <3>1. PICK i \in 1 .. Len(s) : s[i].type \in kinds /\ x = Number(s[i])
      BY <1>3, <2>2
    <3> QED BY <1>1, <1>2, <1>4, <3>1
  <2>3. ASSUME e.type \in kinds, x = Number(e) PROVE x \in Sent(t, kinds)
    BY <1>1, <1>2, <1>5, <2>3
  <2> QED BY <2>1, <2>2, <2>3
<1>7. ASSUME e.type \in kinds
      PROVE  /\ Number(e) \in Nat /\ Number(e) \notin Sent(s, kinds)
             /\ \A x \in Sent(s, kinds) : Number(e) < x
  <2>1. Number(e) \in Nat
    BY <1>7, NumbersAre
  <2>2. ASSUME NEW x \in Sent(s, kinds) PROVE Number(e) < x
    <3>1. PICK i \in 1 .. Len(s) : s[i].type \in kinds /\ x = Number(s[i])
      BY <1>3, <2>2
    <3> QED BY <1>1, <1>4, <1>5, <1>7, <3>1 DEF InTurn
  <2> QED BY <2>1, <2>2
<1>8. InTurn(s)
  <2>1. ASSUME NEW i \in DOMAIN s, NEW j \in DOMAIN s, i < j, s[i].type \in Numbered,
               s[j].type \in Numbered
        PROVE  Number(s[i]) < Number(s[j])
    <3>1. i + 1 \in DOMAIN t /\ j + 1 \in DOMAIN t /\ i + 1 < j + 1
      BY <1>1, <1>4, <2>1
    <3> QED BY <1>1, <2>1, <3>1 DEF InTurn
  <2> QED BY <2>1 DEF InTurn
<1> QED BY <1>6, <1>7, <1>8

-----------------------------------------------------------------------------
(* An item of reasoning holds the pieces since the one before.             *)

IsItem(e) == e.type = "item.reasoning"

FirstItem(s, i) == \A m \in DOMAIN s : m < i => ~IsItem(s[m])

\* What is under way for it when it is the i-th event, ...
Between(s, i) ==
  {Number(s[k]) : k \in {l \in DOMAIN s : /\ l < i /\ s[l].type \in Thinking
                                          /\ \A m \in DOMAIN s : l < m /\ m < i => ~IsItem(s[m])}}

\* ... and what has arrived.
Base(s, i, pending) == IF FirstItem(s, i) THEN pending ELSE <<>>

Collects(s, i, pending, content) == Lane(Base(s, i, pending), content, Between(s, i), "item")

Items(s, pending) ==
  \A i \in DOMAIN s : IsItem(s[i]) /\ s[i].content # <<>> => Collects(s, i, pending, s[i].content)

\* The pieces under way for an item are those with no other item in between.
LEMMA BetweenIs ==
  ASSUME NEW s, NEW i, NEW x
  PROVE  x \in Between(s, i) <=>
           \E k \in DOMAIN s : /\ k < i /\ s[k].type \in Thinking /\ x = Number(s[k])
                               /\ \A m \in DOMAIN s : k < m /\ m < i => ~IsItem(s[m])
BY DEF Between

\* The pieces under way for an item are numbers.
LEMMA BetweenTyped ==
  ASSUME NEW s \in Seq(StreamEvent), NEW i PROVE Between(s, i) \in SUBSET Nat
<1>1. ASSUME NEW k \in DOMAIN s, s[k].type \in Thinking PROVE Number(s[k]) \in Nat
  <2>1. s[k] \in StreamEvent /\ s[k].type \in Numbered
    BY <1>1 DEF Numbered
  <2> QED BY <2>1, NumbersAre
<1> QED BY <1>1 DEF Between

\* An event that is sent changes nothing for the items sent before it.
LEMMA CollectMore ==
  ASSUME NEW s \in Seq(StreamEvent), NEW e \in StreamEvent, NEW t, Follows(t, s, e),
         NEW i \in 1 .. Len(s) + 1
  PROVE  Between(t, i) = Between(s, i) /\ (FirstItem(t, i) <=> FirstItem(s, i))
<1>1. /\ DOMAIN t = 1 .. Len(s) + 1 /\ DOMAIN s = 1 .. Len(s) /\ Len(s) \in Nat
      /\ t[Len(s) + 1] = e /\ \A k \in 1 .. Len(s) : t[k] = s[k]
  BY DEF Follows
<1>2. \A k \in DOMAIN t : k < i => k \in DOMAIN s /\ t[k] = s[k]
  BY <1>1
<1>3. \A k \in DOMAIN s : k \in DOMAIN t /\ t[k] = s[k]
  BY <1>1
<1>4. FirstItem(t, i) <=> FirstItem(s, i)
  BY <1>2, <1>3 DEF FirstItem
<1>5. ASSUME NEW x, x \in Between(t, i) PROVE x \in Between(s, i)
  <2>1. PICK k \in DOMAIN t : /\ k < i /\ t[k].type \in Thinking /\ x = Number(t[k])
                              /\ \A m \in DOMAIN t : k < m /\ m < i => ~IsItem(t[m])
    BY <1>5, BetweenIs
  <2>2. k \in DOMAIN s /\ t[k] = s[k]
    BY <1>2, <2>1
  <2>3. \A m \in DOMAIN s : k < m /\ m < i => ~IsItem(s[m])
    BY <1>3, <2>1
  <2> QED BY <2>1, <2>2, <2>3, BetweenIs
<1>6. ASSUME NEW x, x \in Between(s, i) PROVE x \in Between(t, i)
  <2>1. PICK k \in DOMAIN s : /\ k < i /\ s[k].type \in Thinking /\ x = Number(s[k])
                              /\ \A m \in DOMAIN s : k < m /\ m < i => ~IsItem(s[m])
    BY <1>6, BetweenIs
  <2>2. k \in DOMAIN t /\ t[k] = s[k]
    BY <1>3, <2>1
  <2>3. \A m \in DOMAIN t : k < m /\ m < i => ~IsItem(t[m])
    BY <1>2, <2>1
  <2> QED BY <2>1, <2>2, <2>3, BetweenIs
<1> QED BY <1>4, <1>5, <1>6

\* The next item after one more event.
LEMMA CollectLast ==
  ASSUME NEW s \in Seq(StreamEvent), NEW e \in StreamEvent, NEW t, Follows(t, s, e)
  PROVE  LET n == Len(s) + 1 IN
         /\ IsItem(e) => Between(t, n + 1) = {} /\ ~FirstItem(t, n + 1)
         /\ ~IsItem(e) => (FirstItem(t, n + 1) <=> FirstItem(s, n))
         /\ ~IsItem(e) /\ e.type \notin Thinking => Between(t, n + 1) = Between(s, n)
         /\ e.type \in Thinking => Between(t, n + 1) = Between(s, n) \cup {Number(e)}
<1>1. PICK n : n = Len(s) + 1
  OBVIOUS
<1>2. /\ DOMAIN t = 1 .. n /\ DOMAIN s = 1 .. Len(s) /\ Len(s) \in Nat /\ n \in DOMAIN t
      /\ t[n] = e /\ \A k \in DOMAIN s : t[k] = s[k] /\ k < n /\ k < n + 1 /\ k \in DOMAIN t
      /\ n < n + 1 /\ \A k \in DOMAIN t : k = n \/ k \in DOMAIN s
      /\ \A k \in DOMAIN s : ~(n < k)
  BY <1>1 DEF Follows
<1>3. IsItem(e) => Between(t, n + 1) = {} /\ ~FirstItem(t, n + 1)
  <2> HAVE IsItem(e)
  <2>1. ~FirstItem(t, n + 1)
    BY <1>2 DEF FirstItem
  <2>2. \A x : x \notin Between(t, n + 1)
    <3>1. e.type \notin Thinking
      BY DEF IsItem, Thinking
    <3>2. ASSUME NEW x, x \in Between(t, n + 1) PROVE FALSE
      <4>1. PICK k \in DOMAIN t : /\ k < n + 1 /\ t[k].type \in Thinking
                                  /\ \A m \in DOMAIN t : k < m /\ m < n + 1 => ~IsItem(t[m])
        BY <3>2, BetweenIs
      <4>2. k # n
        BY <1>2, <3>1, <4>1
      <4>3. k < n /\ n < n + 1 /\ n \in DOMAIN t
        BY <1>2, <4>2
      <4> QED BY <1>2, <4>1, <4>3
    <3> QED BY <3>2
  <2> QED BY <2>1, <2>2
<1>4. ~IsItem(e) => (FirstItem(t, n + 1) <=> FirstItem(s, n))
  BY <1>2 DEF FirstItem
<1>5. ASSUME ~IsItem(e), NEW x
      PROVE  x \in Between(t, n + 1) <=>
               x \in Between(s, n) \/ (e.type \in Thinking /\ x = Number(e))
  <2>1. ASSUME x \in Between(t, n + 1)
        PROVE  x \in Between(s, n) \/ (e.type \in Thinking /\ x = Number(e))
    <3>1. PICK k \in DOMAIN t : /\ k < n + 1 /\ t[k].type \in Thinking /\ x = Number(t[k])
                                /\ \A m \in DOMAIN t : k < m /\ m < n + 1 => ~IsItem(t[m])
      BY <2>1, BetweenIs
    <3>2. CASE k = n
      BY <1>2, <3>1, <3>2
    <3>3. CASE k \in DOMAIN s
      BY <1>2, <3>1, <3>3, BetweenIs
    <3> QED BY <1>2, <3>2, <3>3
  <2>2. ASSUME x \in Between(s, n) PROVE x \in Between(t, n + 1)
    <3>1. PICK k \in DOMAIN s : /\ k < n /\ s[k].type \in Thinking /\ x = Number(s[k])
                                /\ \A m \in DOMAIN s : k < m /\ m < n => ~IsItem(s[m])
      BY <2>2, BetweenIs
    <3>2. \A m \in DOMAIN t : k < m /\ m < n + 1 => ~IsItem(t[m])
      BY <1>2, <1>5, <3>1
    <3> QED BY <1>2, <3>1, <3>2, BetweenIs
  <2>3. ASSUME e.type \in Thinking, x = Number(e) PROVE x \in Between(t, n + 1)
    <3>1. \A m \in DOMAIN t : ~(n < m /\ m < n + 1)
      BY <1>2
    <3> QED BY <1>2, <2>3, <3>1, BetweenIs
  <2> QED BY <2>1, <2>2, <2>3
<1>6. e.type \in Thinking => ~IsItem(e)
  BY DEF IsItem, Thinking
<1> QED BY <1>1, <1>3, <1>4, <1>5, <1>6

\* Once the first event is read.
LEMMA CollectRest ==
  ASSUME NEW s \in Seq(StreamEvent), NEW e \in StreamEvent, NEW t, Leads(t, e, s),
         NEW i \in 1 .. Len(s) + 1
  PROVE  /\ IsItem(e) => ~FirstItem(t, i + 1) /\ Between(t, i + 1) = Between(s, i)
         /\ ~IsItem(e) => (FirstItem(t, i + 1) <=> FirstItem(s, i))
         /\ e.type \notin Thinking \/ ~FirstItem(s, i) => Between(t, i + 1) = Between(s, i)
         /\ e.type \in Thinking /\ FirstItem(s, i) =>
              Between(t, i + 1) = Between(s, i) \cup {Number(e)}
<1>1. /\ DOMAIN t = 1 .. Len(s) + 1 /\ DOMAIN s = 1 .. Len(s) /\ Len(s) \in Nat
      /\ t[1] = e /\ \A k \in DOMAIN s : t[k + 1] = s[k]
      /\ \A k \in DOMAIN t : k = 1 \/ (k - 1 \in DOMAIN s /\ (k - 1) + 1 = k)
  <2>1. /\ DOMAIN t = 1 .. Len(s) + 1 /\ DOMAIN s = 1 .. Len(s) /\ Len(s) \in Nat
        /\ t[1] = e /\ \A k \in 1 .. Len(s) : t[k + 1] = s[k]
    BY PrependedIs
  <2>2. \A k \in DOMAIN t : k = 1 \/ (k - 1 \in DOMAIN s /\ (k - 1) + 1 = k)
    BY PrependedPlaces
  <2> QED BY <2>1, <2>2
<1>2. /\ 1 \in DOMAIN t /\ 1 < i + 1
      /\ \A k \in DOMAIN s : k + 1 \in DOMAIN t /\ 1 < k + 1 /\ (k + 1 < i + 1 <=> k < i)
      /\ \A k, m \in DOMAIN s : k + 1 < m + 1 <=> k < m
  BY <1>1
<1>3. \A k \in DOMAIN t : k = 1 \/ \E l \in DOMAIN s : k = l + 1 /\ t[k] = s[l]
  BY <1>1
<1>4. IsItem(e) => ~FirstItem(t, i + 1)
  BY <1>1, <1>2 DEF FirstItem
<1>5. ~IsItem(e) => (FirstItem(t, i + 1) <=> FirstItem(s, i))
  BY <1>1, <1>2, <1>3 DEF FirstItem
<1>6. ASSUME NEW x
      PROVE  x \in Between(t, i + 1) <=>
               x \in Between(s, i) \/ (e.type \in Thinking /\ FirstItem(s, i) /\ x = Number(e))
  <2>1. ASSUME x \in Between(t, i + 1)
        PROVE  x \in Between(s, i) \/ (e.type \in Thinking /\ FirstItem(s, i) /\ x = Number(e))
    <3>1. PICK k \in DOMAIN t : /\ k < i + 1 /\ t[k].type \in Thinking /\ x = Number(t[k])
                                /\ \A m \in DOMAIN t : k < m /\ m < i + 1 => ~IsItem(t[m])
      BY <2>1, BetweenIs
    <3>2. CASE k = 1
      <4>1. FirstItem(s, i)
        BY <1>1, <1>2, <3>1, <3>2 DEF FirstItem
      <4> QED BY <1>1, <3>1, <3>2, <4>1
    <3>3. ASSUME NEW l \in DOMAIN s, k = l + 1, t[k] = s[l] PROVE x \in Between(s, i)
      <4>1. \A m \in DOMAIN s : l < m /\ m < i => ~IsItem(s[m])
        BY <1>1, <1>2, <3>1, <3>3
      <4> QED BY <1>2, <3>1, <3>3, <4>1, BetweenIs
    <3> QED BY <1>3, <3>2, <3>3
  <2>2. ASSUME x \in Between(s, i) PROVE x \in Between(t, i + 1)
    <3>1. PICK l \in DOMAIN s : /\ l < i /\ s[l].type \in Thinking /\ x = Number(s[l])
                                /\ \A m \in DOMAIN s : l < m /\ m < i => ~IsItem(s[m])
      BY <2>2, BetweenIs
    <3>2. ASSUME NEW m \in DOMAIN t, l + 1 < m, m < i + 1 PROVE ~IsItem(t[m])
      <4>1. m # 1
        BY <1>1, <3>2
      <4>2. PICK k \in DOMAIN s : m = k + 1 /\ t[m] = s[k]
        BY <1>3, <4>1
      <4> QED BY <1>2, <3>1, <3>2, <4>2
    <3> QED BY <1>1, <1>2, <3>1, <3>2, BetweenIs
  <2>3. ASSUME e.type \in Thinking, FirstItem(s, i), x = Number(e) PROVE x \in Between(t, i + 1)
    <3>1. ASSUME NEW m \in DOMAIN t, 1 < m, m < i + 1 PROVE ~IsItem(t[m])
      <4>1. PICK k \in DOMAIN s : m = k + 1 /\ t[m] = s[k]
        BY <1>3, <3>1
      <4> QED BY <1>2, <2>3, <3>1, <4>1 DEF FirstItem
    <3> QED BY <1>1, <1>2, <2>3, <3>1, BetweenIs
  <2> QED BY <2>1, <2>2, <2>3
<1>7. IsItem(e) => e.type \notin Thinking
  BY DEF IsItem, Thinking
<1> QED BY <1>4, <1>5, <1>6, <1>7

-----------------------------------------------------------------------------
(* What has been shown is in the message.                                  *)

TextBracket == [start |-> "text_start", delta |-> "text_delta", end |-> "text_end"]

ThoughtBracket ==
  [start |-> "reasoning_start", delta |-> "reasoning_delta", end |-> "reasoning_end"]

\* The chunks show this text, these calls and this reasoning, and these two are open.
Displays(chunks, content, calls, thought, inText, inThought) ==
  /\ Framed(content, chunks, "text_delta")
  /\ Framed(calls, chunks, "tool_call")
  /\ Framed(thought, chunks, "reasoning_delta")
  /\ BracketOk(chunks, TextBracket, inText)
  /\ BracketOk(chunks, ThoughtBracket, inThought)

\* A chunk shows this piece of reasoning.
Displayed(chunks, piece) ==
  \E i \in Stream!Frames(chunks, "reasoning_delta") : chunks[i].what = piece

\* While the generation runs, what is collected for the open item is shown as well.
Shown(p) ==
  /\ \E thought \in Seq(Nat) :
       /\ Displays(p.chunks, p.msg.content, p.msg.calls, thought, p.textStarted,
                   p.reasoningStarted)
       /\ p.result = "none" => thought = p.msg.reasoning \o p.pending
       /\ p.result = "ok" => thought = p.msg.reasoning
  /\ \A piece \in Elements(p.msg.reasoning) \cup Elements(p.pending) : Displayed(p.chunks, piece)

\* At the start nothing is shown, nothing is held and nothing is open.
LEMMA DisplaysNothing == Displays(<<>>, <<>>, <<>>, <<>>, FALSE, FALSE)
BY FramesStart, BracketStarts DEF Displays

\* What was shown stays shown.
LEMMA DisplayedStays ==
  ASSUME NEW chunks \in Seq(Frame), NEW c \in Frame, NEW more, more = Append(chunks, c), NEW piece
  PROVE  /\ Displayed(chunks, piece) => Displayed(more, piece)
         /\ c.kind = "reasoning_delta" /\ c.what = piece => Displayed(more, piece)
<1>1. ASSUME Displayed(chunks, piece) PROVE Displayed(more, piece)
  <2>1. PICK i \in Stream!Frames(chunks, "reasoning_delta") : chunks[i].what = piece
    BY <1>1 DEF Displayed
  <2>2. i \in DOMAIN more /\ more[i] = chunks[i] /\ chunks[i].kind = "reasoning_delta"
    BY <2>1, ShownIs DEF Stream!Frames
  <2> QED BY <2>1, <2>2 DEF Displayed, Stream!Frames
<1>2. ASSUME c.kind = "reasoning_delta", c.what = piece PROVE Displayed(more, piece)
  <2>1. Len(chunks) + 1 \in DOMAIN more /\ more[Len(chunks) + 1] = c
    BY ShownIs
  <2> QED BY <1>2, <2>1 DEF Displayed, Stream!Frames
<1> QED BY <1>1, <1>2

\* The bracket, after one more chunk.
LEMMA BracketNext ==
  ASSUME NEW chunks \in Seq(Frame), NEW c \in Frame, NEW b, b.start # b.end,
         NEW isOpen \in BOOLEAN, NEW now \in BOOLEAN, BracketOk(chunks, b, isOpen),
         c.kind \in {b.start, b.delta, b.end} =>
           (c.kind = b.start <=> ~isOpen) /\ (now <=> c.kind # b.end),
         c.kind \notin {b.start, b.delta, b.end} => (now <=> isOpen)
  PROVE  BracketOk(Append(chunks, c), b, now)
<1>1. CASE c.kind \in {b.start, b.delta, b.end}
  BY <1>1, BracketMoves
<1>2. CASE c.kind \notin {b.start, b.delta, b.end}
  <2>1. BracketOk(Append(chunks, c), b, isOpen)
    BY <1>2, BracketSame
  <2>2. now = isOpen
    BY <1>2
  <2> QED BY <2>1, <2>2
<1> QED BY <1>1, <1>2

\* A chunk keeps the text in order if it opens exactly a text that is closed.
LEMMA TextSide ==
  ASSUME NEW chunks \in Seq(Frame), NEW kind \in Shapes, NEW what \in Nat,
         NEW inText \in BOOLEAN, BracketOk(chunks, TextBracket, inText), NEW now \in BOOLEAN,
         kind \in {"text_start", "text_delta", "text_end"} =>
           (kind = "text_start" <=> ~inText) /\ (now <=> kind # "text_end"),
         kind \notin {"text_start", "text_delta", "text_end"} => (now <=> inText)
  PROVE  BracketOk(With(chunks, kind, what), TextBracket, now)
<1>1. PICK c \in Frame : c = [kind |-> kind, what |-> what]
  BY DEF Frame
<1>2. With(chunks, kind, what) = Append(chunks, c) /\ c.kind = kind
  BY <1>1 DEF With
<1>3. /\ TextBracket.start = "text_start" /\ TextBracket.delta = "text_delta"
      /\ TextBracket.end = "text_end"
  BY DEF TextBracket
<1> QED BY <1>1, <1>2, <1>3, BracketNext

\* A chunk keeps the reasoning in order if it opens exactly one that is closed.
LEMMA ThoughtSide ==
  ASSUME NEW chunks \in Seq(Frame), NEW kind \in Shapes, NEW what \in Nat,
         NEW inThought \in BOOLEAN, BracketOk(chunks, ThoughtBracket, inThought), NEW now \in BOOLEAN,
         kind \in {"reasoning_start", "reasoning_delta", "reasoning_end"} =>
           (kind = "reasoning_start" <=> ~inThought) /\ (now <=> kind # "reasoning_end"),
         kind \notin {"reasoning_start", "reasoning_delta", "reasoning_end"} =>
           (now <=> inThought)
  PROVE  BracketOk(With(chunks, kind, what), ThoughtBracket, now)
<1>1. PICK c \in Frame : c = [kind |-> kind, what |-> what]
  BY DEF Frame
<1>2. With(chunks, kind, what) = Append(chunks, c) /\ c.kind = kind
  BY <1>1 DEF With
<1>3. /\ ThoughtBracket.start = "reasoning_start" /\ ThoughtBracket.delta = "reasoning_delta"
      /\ ThoughtBracket.end = "reasoning_end"
  BY DEF ThoughtBracket
<1> QED BY <1>1, <1>2, <1>3, BracketNext

\* A chunk adds a piece to its own kind and leaves the other kinds as they are.
LEMMA FramedSide ==
  ASSUME NEW chunks \in Seq(Frame), NEW kind \in Shapes, NEW what \in Nat,
         NEW pieces \in Seq(Nat), NEW own
  PROVE  /\ Framed(pieces, chunks, own) /\ kind # own =>
              Framed(pieces, With(chunks, kind, what), own)
         /\ Framed(pieces, chunks, own) /\ kind = own =>
              Framed(Append(pieces, what), With(chunks, kind, what), own)
<1>1. PICK c \in Frame : c = [kind |-> kind, what |-> what]
  BY DEF Frame
<1>2. With(chunks, kind, what) = Append(chunks, c) /\ c.kind = kind /\ c.what = what
  BY <1>1 DEF With
<1> QED BY <1>1, <1>2, FramesSame, FramesMore

\* A boundary is shown where one is needed.
LEMMA TextOpens ==
  ASSUME NEW chunks \in Seq(Frame), NEW content \in Seq(Nat), NEW calls \in Seq(Nat),
         NEW thought \in Seq(Nat), NEW inText \in BOOLEAN, NEW inThought \in BOOLEAN,
         Displays(chunks, content, calls, thought, inText, inThought), NEW yes \in BOOLEAN, yes
  PROVE  Displays(Opening(chunks, inText, "text_start"), content, calls, thought, yes, inThought)
<1>1. CASE inText
  <2>1. inText = yes /\ Opening(chunks, inText, "text_start") = chunks
    BY <1>1, Zenon DEF Opening
  <2> QED BY <2>1, Zenon
<1>2. CASE ~inText
  <2>1. PICK kind \in Shapes : kind = "text_start"
    BY DEF Shapes
  <2>2. PICK what \in Nat : what = 0
    OBVIOUS
  <2>3. Opening(chunks, inText, "text_start") = With(chunks, kind, what)
    BY <1>2, <2>1, <2>2 DEF Opening
  <2>4. /\ Framed(content, With(chunks, kind, what), "text_delta")
        /\ Framed(calls, With(chunks, kind, what), "tool_call")
        /\ Framed(thought, With(chunks, kind, what), "reasoning_delta")
    BY <2>1, <2>2, FramedSide DEF Displays
  <2>5. BracketOk(With(chunks, kind, what), TextBracket, yes)
    BY <1>2, <2>1, <2>2, TextSide DEF Displays
  <2>6. BracketOk(With(chunks, kind, what), ThoughtBracket, inThought)
    BY <2>1, <2>2, ThoughtSide DEF Displays
  <2> QED BY <2>3, <2>4, <2>5, <2>6 DEF Displays
<1> QED BY <1>1, <1>2

\* Opening the reasoning shows no piece; afterwards it is open.
LEMMA ThoughtOpens ==
  ASSUME NEW chunks \in Seq(Frame), NEW content \in Seq(Nat), NEW calls \in Seq(Nat),
         NEW thought \in Seq(Nat), NEW inText \in BOOLEAN, NEW inThought \in BOOLEAN,
         Displays(chunks, content, calls, thought, inText, inThought), NEW yes \in BOOLEAN, yes
  PROVE  Displays(Opening(chunks, inThought, "reasoning_start"), content, calls, thought, inText, yes)
<1>1. CASE inThought
  <2>1. inThought = yes /\ Opening(chunks, inThought, "reasoning_start") = chunks
    BY <1>1, Zenon DEF Opening
  <2> QED BY <2>1, Zenon
<1>2. CASE ~inThought
  <2>1. PICK kind \in Shapes : kind = "reasoning_start"
    BY DEF Shapes
  <2>2. PICK what \in Nat : what = 0
    OBVIOUS
  <2>3. Opening(chunks, inThought, "reasoning_start") = With(chunks, kind, what)
    BY <1>2, <2>1, <2>2 DEF Opening
  <2>4. /\ Framed(content, With(chunks, kind, what), "text_delta")
        /\ Framed(calls, With(chunks, kind, what), "tool_call")
        /\ Framed(thought, With(chunks, kind, what), "reasoning_delta")
    BY <2>1, <2>2, FramedSide DEF Displays
  <2>5. BracketOk(With(chunks, kind, what), TextBracket, inText)
    BY <2>1, <2>2, TextSide DEF Displays
  <2>6. BracketOk(With(chunks, kind, what), ThoughtBracket, yes)
    BY <1>2, <2>1, <2>2, ThoughtSide DEF Displays
  <2> QED BY <2>3, <2>4, <2>5, <2>6 DEF Displays
<1> QED BY <1>1, <1>2

\* One more chunk hides nothing, and shows its own piece.
LEMMA DisplayedWith ==
  ASSUME NEW chunks \in Seq(Frame), NEW kind \in Shapes, NEW what \in Nat, NEW piece
  PROVE  /\ Displayed(chunks, piece) => Displayed(With(chunks, kind, what), piece)
         /\ kind = "reasoning_delta" => Displayed(With(chunks, kind, what), what)
<1>1. PICK c \in Frame : c = [kind |-> kind, what |-> what]
  BY DEF Frame
<1>2. With(chunks, kind, what) = Append(chunks, c) /\ c.kind = kind /\ c.what = what
  BY <1>1 DEF With
<1>3. PICK more : more = Append(chunks, c)
  OBVIOUS
<1> QED BY <1>2, <1>3, DisplayedStays

\* Opening a text or a reasoning keeps all that was shown.
LEMMA OpeningTyped ==
  ASSUME NEW chunks \in Seq(Frame), NEW kind \in Shapes, NEW isOpen \in BOOLEAN
  PROVE  /\ Opening(chunks, isOpen, kind) \in Seq(Frame)
         /\ \A piece : Displayed(chunks, piece) => Displayed(Opening(chunks, isOpen, kind), piece)
<1>1. 0 \in Nat
  OBVIOUS
<1>2. With(chunks, kind, 0) \in Seq(Frame)
  BY <1>1, FrameTyped
<1>3. \A piece : Displayed(chunks, piece) => Displayed(With(chunks, kind, 0), piece)
  BY <1>1, DisplayedWith
<1>4. CASE isOpen
  BY <1>4 DEF Opening
<1>5. CASE ~isOpen
  BY <1>2, <1>3, <1>5 DEF Opening
<1> QED BY <1>4, <1>5

\* A piece of a longer text is one of the text or the last.
LEMMA ElementsMore ==
  ASSUME NEW s \in Seq(Nat), NEW n \in Nat, NEW x
  PROVE  x \in Elements(Append(s, n)) <=> x \in Elements(s) \/ x = n
<1>1. PICK t : t = Append(s, n)
  OBVIOUS
<1>2. /\ DOMAIN t = 1 .. Len(s) + 1 /\ DOMAIN s = 1 .. Len(s) /\ Len(s) \in Nat
      /\ t[Len(s) + 1] = n /\ \A i \in 1 .. Len(s) : t[i] = s[i]
  BY <1>1
<1>3. ASSUME x \in Elements(t) PROVE x \in Elements(s) \/ x = n
  <2>1. PICK i \in DOMAIN t : x = t[i]
    BY <1>3 DEF Elements
  <2>2. i = Len(s) + 1 \/ i \in 1 .. Len(s)
    BY <1>2
  <2> QED BY <1>2, <2>1, <2>2 DEF Elements
<1>4. ASSUME x \in Elements(s) PROVE x \in Elements(t)
  <2>1. PICK i \in DOMAIN s : x = s[i]
    BY <1>4 DEF Elements
  <2>2. i \in DOMAIN t /\ t[i] = s[i]
    BY <1>2
  <2> QED BY <2>1, <2>2 DEF Elements
<1>5. ASSUME x = n PROVE x \in Elements(t)
  <2>1. Len(s) + 1 \in DOMAIN t
    BY <1>2
  <2> QED BY <1>2, <1>5, <2>1 DEF Elements
<1> QED BY <1>1, <1>3, <1>4, <1>5

\* A piece of two joined texts is a piece of one of them.
LEMMA ElementsJoin ==
  ASSUME NEW s \in Seq(Nat), NEW t \in Seq(Nat), NEW x \in Elements(s \o t)
  PROVE  x \in Elements(s) \/ x \in Elements(t)
<1>1. PICK u : u = s \o t
  OBVIOUS
<1>2. /\ DOMAIN u = 1 .. Len(s) + Len(t) /\ Len(s) \in Nat /\ Len(t) \in Nat
      /\ DOMAIN s = 1 .. Len(s) /\ DOMAIN t = 1 .. Len(t)
      /\ \A i \in 1 .. Len(s) + Len(t) : u[i] = IF i <= Len(s) THEN s[i] ELSE t[i - Len(s)]
  BY <1>1
<1>3. PICK i \in DOMAIN u : x = u[i]
  BY <1>1 DEF Elements
<1>4. CASE i <= Len(s)
  <2>1. i \in DOMAIN s /\ x = s[i]
    BY <1>2, <1>3, <1>4
  <2> QED BY <2>1 DEF Elements
<1>5. CASE ~(i <= Len(s))
  <2>1. i - Len(s) \in DOMAIN t /\ x = t[i - Len(s)]
    BY <1>2, <1>3, <1>5
  <2> QED BY <2>1 DEF Elements
<1> QED BY <1>4, <1>5

\* Appending to two joined texts appends to the second.
LEMMA AppendedAfter ==
  ASSUME NEW s \in Seq(Nat), NEW t \in Seq(Nat), NEW n \in Nat
  PROVE  Append(s \o t, n) = s \o Append(t, n)
<1>1. <<n>> \in Seq(Nat) /\ s \o t \in Seq(Nat)
  BY ConcatProperties
<1>2. Append(s \o t, n) = (s \o t) \o <<n>> /\ Append(t, n) = t \o <<n>>
  BY <1>1
<1> QED BY <1>1, <1>2, Reassociated

-----------------------------------------------------------------------------
\* What Shown says while the generation runs.
LEMMA ShownNow ==
  ASSUME NEW p, Typed(p), Shown(p), p.result = "none"
  PROVE  /\ Displays(p.chunks, p.msg.content, p.msg.calls, p.msg.reasoning \o p.pending,
                     p.textStarted, p.reasoningStarted)
         /\ p.msg.reasoning \o p.pending \in Seq(Nat)
         /\ \A piece \in Elements(p.msg.reasoning) : Displayed(p.chunks, piece)
         /\ \A piece \in Elements(p.pending) : Displayed(p.chunks, piece)
<1>1. p.msg.reasoning \o p.pending \in Seq(Nat)
  <2>1. \A a, b \in Seq(Nat) : a \o b \in Seq(Nat)
    BY ConcatProperties
  <2> QED BY <2>1 DEF Typed
<1>2. PICK thought \in Seq(Nat) :
        /\ Displays(p.chunks, p.msg.content, p.msg.calls, thought, p.textStarted,
                    p.reasoningStarted)
        /\ p.result = "none" => thought = p.msg.reasoning \o p.pending
  BY DEF Shown
<1>3. thought = p.msg.reasoning \o p.pending
  BY <1>2
<1>4. Displays(p.chunks, p.msg.content, p.msg.calls, p.msg.reasoning \o p.pending,
               p.textStarted, p.reasoningStarted)
  BY <1>2, <1>3, Zenon
<1>5. \A piece \in Elements(p.msg.reasoning) \cup Elements(p.pending) : Displayed(p.chunks, piece)
  BY DEF Shown
<1> QED BY <1>1, <1>4, <1>5

\* The parts of Shown, put together.
LEMMA ShownBy ==
  ASSUME NEW q, Typed(q), NEW thought \in Seq(Nat),
         Displays(q.chunks, q.msg.content, q.msg.calls, thought, q.textStarted,
                  q.reasoningStarted),
         q.result = "none" => thought = q.msg.reasoning \o q.pending,
         q.result = "ok" => thought = q.msg.reasoning,
         \A piece \in Elements(q.msg.reasoning) : Displayed(q.chunks, piece),
         \A piece \in Elements(q.pending) : Displayed(q.chunks, piece)
  PROVE  Shown(q)
BY DEF Shown

\* A piece of text that is handled is shown as it is kept.
LEMMA TextDeltaShown ==
  ASSUME NEW p, Typed(p), Shown(p), p.result = "none", NEW piece \in Nat,
         NEW q, q = Stream!OnTextDelta(p, piece), Typed(q)
  PROVE  Shown(q)
<1>1. PICK inText \in BOOLEAN, inThought \in BOOLEAN, yes \in BOOLEAN :
        inText = p.textStarted /\ inThought = p.reasoningStarted /\ yes = TRUE
  BY DEF Typed
<1>2. PICK content \in Seq(Nat), calls \in Seq(Nat), chunks \in Seq(Frame), thought \in Seq(Nat) :
        /\ content = p.msg.content /\ calls = p.msg.calls /\ chunks = p.chunks
        /\ thought = p.msg.reasoning \o p.pending
  BY ShownNow DEF Typed
<1>3. Displays(chunks, content, calls, thought, inText, inThought)
  BY <1>1, <1>2, ShownNow, Zenon
<1>4. PICK base : base = Opening(chunks, inText, "text_start")
  OBVIOUS
<1>5. "text_start" \in Shapes /\ "text_delta" \in Shapes
  BY DEF Shapes
<1>6. base \in Seq(Frame) /\ \A x : Displayed(chunks, x) => Displayed(base, x)
  BY <1>1, <1>2, <1>4, <1>5, OpeningTyped
<1>7. Displays(base, content, calls, thought, yes, inThought)
  <2>1. /\ chunks \in Seq(Frame) /\ content \in Seq(Nat) /\ calls \in Seq(Nat)
        /\ thought \in Seq(Nat) /\ inText \in BOOLEAN /\ inThought \in BOOLEAN
        /\ yes \in BOOLEAN /\ yes
    BY <1>1, <1>2
  <2>2. Displays(Opening(chunks, inText, "text_start"), content, calls, thought, yes, inThought)
    BY <1>3, <2>1, TextOpens, Zenon
  <2> QED BY <1>4, <2>2, Zenon
<1>8. PICK more : more = With(base, "text_delta", piece)
  OBVIOUS
<1>9. PICK kind \in Shapes : kind = "text_delta"
  BY <1>5
<1>10. Displays(more, Append(content, piece), calls, thought, yes, inThought)
  <2>1. /\ Framed(Append(content, piece), With(base, kind, piece), "text_delta")
        /\ Framed(calls, With(base, kind, piece), "tool_call")
        /\ Framed(thought, With(base, kind, piece), "reasoning_delta")
    BY <1>2, <1>6, <1>7, <1>9, FramedSide DEF Displays
  <2>2. BracketOk(With(base, kind, piece), TextBracket, yes)
    BY <1>1, <1>6, <1>7, <1>9, TextSide DEF Displays
  <2>3. BracketOk(With(base, kind, piece), ThoughtBracket, inThought)
    BY <1>1, <1>6, <1>7, <1>9, ThoughtSide DEF Displays
  <2> QED BY <1>8, <1>9, <2>1, <2>2, <2>3 DEF Displays
<1>11. \A x : Displayed(base, x) => Displayed(more, x)
  BY <1>6, <1>8, <1>5, DisplayedWith
<1>12. /\ Has(q, Append(content, piece), p.msg.reasoning, calls, p.msg.finish, p.pending, p.result)
       /\ Showing(q, TRUE, p.reasoningStarted, With(Opening(chunks, p.textStarted, "text_start"),
                                                    "text_delta", piece))
  BY <1>2, OnTextDeltaIs DEF Typed
<1>13. q.textStarted = yes /\ q.reasoningStarted = inThought /\ q.chunks = more
  BY <1>1, <1>4, <1>8, <1>12, Zenon DEF Showing
<1>14. /\ q.msg.content = Append(content, piece) /\ q.msg.reasoning = p.msg.reasoning
       /\ q.msg.calls = calls /\ q.pending = p.pending /\ q.result = "none"
  BY <1>12 DEF Has
<1>15. Displays(q.chunks, q.msg.content, q.msg.calls, thought, q.textStarted, q.reasoningStarted)
  BY <1>10, <1>13, <1>14, Zenon
<1>16. /\ \A x \in Elements(q.msg.reasoning) : Displayed(q.chunks, x)
       /\ \A x \in Elements(q.pending) : Displayed(q.chunks, x)
  BY <1>2, <1>6, <1>11, <1>13, <1>14, ShownNow
<1>17. thought = q.msg.reasoning \o q.pending
  BY <1>2, <1>14
<1> QED BY <1>2, <1>14, <1>15, <1>16, <1>17, ShownBy

\* The end of a text closes what was shown of it.
LEMMA TextDoneShown ==
  ASSUME NEW p, Typed(p), Shown(p), p.result = "none",
         NEW q, q = Stream!OnTextDone(p), Typed(q)
  PROVE  Shown(q)
<1>1. PICK inText \in BOOLEAN, inThought \in BOOLEAN, no \in BOOLEAN :
        inText = p.textStarted /\ inThought = p.reasoningStarted /\ no = FALSE
  BY DEF Typed
<1>2. PICK content \in Seq(Nat), calls \in Seq(Nat), chunks \in Seq(Frame), thought \in Seq(Nat) :
        /\ content = p.msg.content /\ calls = p.msg.calls /\ chunks = p.chunks
        /\ thought = p.msg.reasoning \o p.pending
  BY ShownNow DEF Typed
<1>3. Displays(chunks, content, calls, thought, inText, inThought)
  BY <1>1, <1>2, ShownNow, Zenon
<1>4. PICK more : more = IF inText THEN With(chunks, "text_end", 0) ELSE chunks
  OBVIOUS
<1>5. Unmoved(p, q) /\ Showing(q, no, inThought, more)
  BY <1>1, <1>2, <1>4, OnTextDoneIs, Zenon DEF Typed
<1>6. q.textStarted = no /\ q.reasoningStarted = inThought /\ q.chunks = more
  BY <1>5, Zenon DEF Showing
<1>7. /\ q.msg.content = content /\ q.msg.reasoning = p.msg.reasoning
      /\ q.msg.calls = calls /\ q.pending = p.pending /\ q.result = "none"
  BY <1>2, <1>5 DEF Unmoved, Has
<1>8. Displays(more, content, calls, thought, no, inThought)
        /\ \A x : Displayed(chunks, x) => Displayed(more, x)
  <2>1. CASE ~inText
    <3>1. no = inText /\ more = chunks
      BY <1>1, <1>4, <2>1
    <3> QED BY <1>3, <3>1, Zenon
  <2>2. CASE inText
    <3>1. PICK kind \in Shapes : kind = "text_end"
      BY DEF Shapes
    <3>2. PICK what \in Nat : what = 0
      OBVIOUS
    <3>3. more = With(chunks, kind, what)
      BY <1>4, <2>2, <3>1, <3>2
    <3>4. /\ Framed(content, With(chunks, kind, what), "text_delta")
          /\ Framed(calls, With(chunks, kind, what), "tool_call")
          /\ Framed(thought, With(chunks, kind, what), "reasoning_delta")
      BY <1>2, <1>3, <3>1, <3>2, FramedSide DEF Displays
    <3>5. BracketOk(With(chunks, kind, what), TextBracket, no)
      BY <1>1, <1>2, <1>3, <2>2, <3>1, <3>2, TextSide DEF Displays
    <3>6. BracketOk(With(chunks, kind, what), ThoughtBracket, inThought)
      BY <1>1, <1>2, <1>3, <3>1, <3>2, ThoughtSide DEF Displays
    <3>7. \A x : Displayed(chunks, x) => Displayed(With(chunks, kind, what), x)
      BY <1>2, <3>1, <3>2, DisplayedWith
    <3> QED BY <3>3, <3>4, <3>5, <3>6, <3>7 DEF Displays
  <2> QED BY <2>1, <2>2
<1>9. Displays(q.chunks, q.msg.content, q.msg.calls, thought, q.textStarted, q.reasoningStarted)
  BY <1>6, <1>7, <1>8, Zenon
<1>10. /\ \A x \in Elements(q.msg.reasoning) : Displayed(q.chunks, x)
       /\ \A x \in Elements(q.pending) : Displayed(q.chunks, x)
  BY <1>2, <1>6, <1>7, <1>8, ShownNow
<1>11. thought = q.msg.reasoning \o q.pending
  BY <1>2, <1>7
<1> QED BY <1>2, <1>7, <1>9, <1>10, <1>11, ShownBy

\* A piece of reasoning that is handled is shown as it is collected.
LEMMA ReasoningDeltaShown ==
  ASSUME NEW p, Typed(p), Shown(p), p.result = "none", NEW piece \in Nat,
         NEW q, q = Stream!OnReasoningDelta(p, piece), Typed(q)
  PROVE  Shown(q)
<1>1. PICK inText \in BOOLEAN, inThought \in BOOLEAN, yes \in BOOLEAN :
        inText = p.textStarted /\ inThought = p.reasoningStarted /\ yes = TRUE
  BY DEF Typed
<1>2. PICK content \in Seq(Nat), calls \in Seq(Nat), chunks \in Seq(Frame), thought \in Seq(Nat) :
        /\ content = p.msg.content /\ calls = p.msg.calls /\ chunks = p.chunks
        /\ thought = p.msg.reasoning \o p.pending
  BY ShownNow DEF Typed
<1>3. Displays(chunks, content, calls, thought, inText, inThought)
  BY <1>1, <1>2, ShownNow, Zenon
<1>4. PICK base : base = Opening(chunks, inThought, "reasoning_start")
  OBVIOUS
<1>5. "reasoning_start" \in Shapes /\ "reasoning_delta" \in Shapes
  BY DEF Shapes
<1>6. base \in Seq(Frame) /\ \A x : Displayed(chunks, x) => Displayed(base, x)
  BY <1>1, <1>2, <1>4, <1>5, OpeningTyped
<1>7. Displays(base, content, calls, thought, inText, yes)
  <2>1. /\ chunks \in Seq(Frame) /\ content \in Seq(Nat) /\ calls \in Seq(Nat)
        /\ thought \in Seq(Nat) /\ inText \in BOOLEAN /\ inThought \in BOOLEAN
        /\ yes \in BOOLEAN /\ yes
    BY <1>1, <1>2
  <2>2. Displays(Opening(chunks, inThought, "reasoning_start"), content, calls, thought, inText, yes)
    BY <1>3, <2>1, ThoughtOpens, Zenon
  <2> QED BY <1>4, <2>2, Zenon
<1>8. PICK more : more = With(base, "reasoning_delta", piece)
  OBVIOUS
<1>9. PICK kind \in Shapes : kind = "reasoning_delta"
  BY <1>5
<1>10. Displays(more, content, calls, Append(thought, piece), inText, yes)
  <2>1. /\ Framed(content, With(base, kind, piece), "text_delta")
        /\ Framed(calls, With(base, kind, piece), "tool_call")
        /\ Framed(Append(thought, piece), With(base, kind, piece), "reasoning_delta")
    BY <1>2, <1>6, <1>7, <1>9, FramedSide DEF Displays
  <2>2. BracketOk(With(base, kind, piece), TextBracket, inText)
    BY <1>1, <1>6, <1>7, <1>9, TextSide DEF Displays
  <2>3. BracketOk(With(base, kind, piece), ThoughtBracket, yes)
    BY <1>1, <1>6, <1>7, <1>9, ThoughtSide DEF Displays
  <2> QED BY <1>8, <1>9, <2>1, <2>2, <2>3 DEF Displays
<1>11. (\A x : Displayed(base, x) => Displayed(more, x)) /\ Displayed(more, piece)
  BY <1>6, <1>8, <1>5, DisplayedWith
<1>12. /\ Has(q, content, p.msg.reasoning, calls, p.msg.finish, Append(p.pending, piece), p.result)
       /\ Showing(q, inText, TRUE, With(base, "reasoning_delta", piece))
  BY <1>1, <1>2, <1>4, OnReasoningDeltaIs, Zenon DEF Typed
<1>13. q.textStarted = inText /\ q.reasoningStarted = yes /\ q.chunks = more
  BY <1>1, <1>8, <1>12, Zenon DEF Showing
<1>14. /\ q.msg.content = content /\ q.msg.reasoning = p.msg.reasoning
       /\ q.msg.calls = calls /\ q.pending = Append(p.pending, piece) /\ q.result = "none"
  BY <1>12 DEF Has
<1>15. Displays(q.chunks, q.msg.content, q.msg.calls, Append(thought, piece), q.textStarted,
                q.reasoningStarted)
  BY <1>10, <1>13, <1>14, Zenon
<1>16. p.msg.reasoning \in Seq(Nat) /\ p.pending \in Seq(Nat)
  BY DEF Typed
<1>17. /\ \A x \in Elements(q.msg.reasoning) : Displayed(q.chunks, x)
       /\ \A x \in Elements(q.pending) : Displayed(q.chunks, x)
  BY <1>2, <1>6, <1>11, <1>13, <1>14, <1>16, ShownNow, ElementsMore
<1>18. Append(thought, piece) = q.msg.reasoning \o q.pending /\ Append(thought, piece) \in Seq(Nat)
  <2>1. Append(thought, piece) = p.msg.reasoning \o Append(p.pending, piece)
    BY <1>2, <1>16, AppendedAfter
  <2>2. Append(thought, piece) \in Seq(Nat)
    BY <1>2
  <2> QED BY <1>14, <2>1, <2>2
<1> QED BY <1>14, <1>15, <1>17, <1>18, ShownBy

\* The item holds what was collected for it, or nothing.
LEMMA ReasoningItemShown ==
  ASSUME NEW p, Typed(p), Shown(p), p.result = "none", NEW held, held = <<>> \/ held = p.pending,
         NEW q, q = Stream!OnReasoningItem(p, held), Typed(q)
  PROVE  Shown(q)
<1>1. PICK inText \in BOOLEAN, inThought \in BOOLEAN, no \in BOOLEAN :
        inText = p.textStarted /\ inThought = p.reasoningStarted /\ no = FALSE
  BY DEF Typed
<1>2. PICK content \in Seq(Nat), calls \in Seq(Nat), chunks \in Seq(Frame), thought \in Seq(Nat) :
        /\ content = p.msg.content /\ calls = p.msg.calls /\ chunks = p.chunks
        /\ thought = p.msg.reasoning \o p.pending
  BY ShownNow DEF Typed
<1>3. Displays(chunks, content, calls, thought, inText, inThought)
  BY <1>1, <1>2, ShownNow, Zenon
<1>4. PICK more : more = IF inThought THEN With(chunks, "reasoning_end", 0) ELSE chunks
  OBVIOUS
<1>5. (IF held # <<>> THEN held ELSE p.pending) = p.pending
  OBVIOUS
<1>6. Has(q, content, thought, calls, p.msg.finish, <<>>, p.result) /\ Showing(q, inText, no, more)
  <2>1. /\ Has(q, p.msg.content, p.msg.reasoning \o (IF held # <<>> THEN held ELSE p.pending),
                  p.msg.calls, p.msg.finish, <<>>, p.result)
        /\ Showing(q, p.textStarted, FALSE,
                   IF p.reasoningStarted THEN With(p.chunks, "reasoning_end", 0) ELSE p.chunks)
    BY OnReasoningItemIs, Zenon DEF Typed
  <2> QED BY <1>1, <1>2, <1>4, <1>5, <2>1, Zenon
<1>7. q.textStarted = inText /\ q.reasoningStarted = no /\ q.chunks = more
  BY <1>6, Zenon DEF Showing
<1>8. /\ q.msg.content = content /\ q.msg.reasoning = thought
      /\ q.msg.calls = calls /\ q.pending = <<>> /\ q.result = "none"
  BY <1>6 DEF Has
<1>9. Displays(more, content, calls, thought, inText, no)
        /\ \A x : Displayed(chunks, x) => Displayed(more, x)
  <2>1. CASE ~inThought
    <3>1. no = inThought /\ more = chunks
      BY <1>1, <1>4, <2>1
    <3> QED BY <1>3, <3>1, Zenon
  <2>2. CASE inThought
    <3>1. PICK kind \in Shapes : kind = "reasoning_end"
      BY DEF Shapes
    <3>2. PICK what \in Nat : what = 0
      OBVIOUS
    <3>3. more = With(chunks, kind, what)
      BY <1>4, <2>2, <3>1, <3>2
    <3>4. /\ Framed(content, With(chunks, kind, what), "text_delta")
          /\ Framed(calls, With(chunks, kind, what), "tool_call")
          /\ Framed(thought, With(chunks, kind, what), "reasoning_delta")
      BY <1>2, <1>3, <3>1, <3>2, FramedSide DEF Displays
    <3>5. BracketOk(With(chunks, kind, what), TextBracket, inText)
      BY <1>1, <1>2, <1>3, <3>1, <3>2, TextSide DEF Displays
    <3>6. BracketOk(With(chunks, kind, what), ThoughtBracket, no)
      BY <1>1, <1>2, <1>3, <2>2, <3>1, <3>2, ThoughtSide DEF Displays
    <3>7. \A x : Displayed(chunks, x) => Displayed(With(chunks, kind, what), x)
      BY <1>2, <3>1, <3>2, DisplayedWith
    <3> QED BY <3>3, <3>4, <3>5, <3>6, <3>7 DEF Displays
  <2> QED BY <2>1, <2>2
<1>10. Displays(q.chunks, q.msg.content, q.msg.calls, thought, q.textStarted, q.reasoningStarted)
  BY <1>7, <1>8, <1>9, Zenon
<1>11. p.msg.reasoning \in Seq(Nat) /\ p.pending \in Seq(Nat)
  BY DEF Typed
<1>12. \A x \in Elements(q.msg.reasoning) : Displayed(q.chunks, x)
  BY <1>2, <1>7, <1>8, <1>9, <1>11, ShownNow, ElementsJoin
<1>13. \A x \in Elements(q.pending) : Displayed(q.chunks, x)
  BY <1>8 DEF Elements
<1>14. thought = q.msg.reasoning \o q.pending
  BY <1>2, <1>8, ConcatEmptySeq
<1> QED BY <1>2, <1>8, <1>10, <1>12, <1>13, <1>14, ShownBy

\* A call that is handled is shown as it is kept.
LEMMA CallShown ==
  ASSUME NEW p, Typed(p), Shown(p), p.result = "none", NEW number \in Nat,
         NEW q, q = Stream!OnCall(p, number), Typed(q)
  PROVE  Shown(q)
<1>1. PICK inText \in BOOLEAN, inThought \in BOOLEAN :
        inText = p.textStarted /\ inThought = p.reasoningStarted
  BY DEF Typed
<1>2. PICK content \in Seq(Nat), calls \in Seq(Nat), chunks \in Seq(Frame), thought \in Seq(Nat) :
        /\ content = p.msg.content /\ calls = p.msg.calls /\ chunks = p.chunks
        /\ thought = p.msg.reasoning \o p.pending
  BY ShownNow DEF Typed
<1>3. Displays(chunks, content, calls, thought, inText, inThought)
  BY <1>1, <1>2, ShownNow, Zenon
<1>4. PICK kind \in Shapes : kind = "tool_call"
  BY DEF Shapes
<1>5. PICK more : more = With(chunks, kind, number)
  OBVIOUS
<1>6. /\ Has(q, content, p.msg.reasoning, Append(calls, number), p.msg.finish, p.pending, p.result)
      /\ Showing(q, inText, inThought, more)
  BY <1>1, <1>2, <1>4, <1>5, OnCallIs, Zenon DEF Typed
<1>7. q.textStarted = inText /\ q.reasoningStarted = inThought /\ q.chunks = more
  BY <1>6, Zenon DEF Showing
<1>8. /\ q.msg.content = content /\ q.msg.reasoning = p.msg.reasoning
      /\ q.msg.calls = Append(calls, number) /\ q.pending = p.pending /\ q.result = "none"
  BY <1>6 DEF Has
<1>9. Displays(more, content, Append(calls, number), thought, inText, inThought)
  <2>1. /\ Framed(content, With(chunks, kind, number), "text_delta")
        /\ Framed(Append(calls, number), With(chunks, kind, number), "tool_call")
        /\ Framed(thought, With(chunks, kind, number), "reasoning_delta")
    BY <1>2, <1>3, <1>4, FramedSide DEF Displays
  <2>2. BracketOk(With(chunks, kind, number), TextBracket, inText)
    BY <1>1, <1>2, <1>3, <1>4, TextSide DEF Displays
  <2>3. BracketOk(With(chunks, kind, number), ThoughtBracket, inThought)
    BY <1>1, <1>2, <1>3, <1>4, ThoughtSide DEF Displays
  <2> QED BY <1>5, <2>1, <2>2, <2>3 DEF Displays
<1>10. \A x : Displayed(chunks, x) => Displayed(more, x)
  BY <1>2, <1>4, <1>5, DisplayedWith
<1>11. Displays(q.chunks, q.msg.content, q.msg.calls, thought, q.textStarted, q.reasoningStarted)
  BY <1>7, <1>8, <1>9, Zenon
<1>12. /\ \A x \in Elements(q.msg.reasoning) : Displayed(q.chunks, x)
       /\ \A x \in Elements(q.pending) : Displayed(q.chunks, x)
  BY <1>2, <1>7, <1>8, <1>10, ShownNow
<1>13. thought = q.msg.reasoning \o q.pending
  BY <1>2, <1>8
<1> QED BY <1>2, <1>8, <1>11, <1>12, <1>13, ShownBy

\* A terminal event shows nothing.
LEMMA TerminalShown ==
  ASSUME NEW p, Typed(p), Shown(p), p.result = "none", NEW how,
         NEW q, q = Stream!OnTerminal(p, how), Typed(q)
  PROVE  Shown(q)
<1>1. /\ Has(q, p.msg.content, p.msg.reasoning, p.msg.calls, Stream!FinishReason(how, style.usage),
                p.pending, IF how = "failed" THEN "error" ELSE p.result)
      /\ Showing(q, p.textStarted, p.reasoningStarted, p.chunks)
  BY OnTerminalIs DEF Typed
<1>2. PICK thought \in Seq(Nat) : thought = p.msg.reasoning \o p.pending
  BY ShownNow
<1>3. q.textStarted = p.textStarted /\ q.reasoningStarted = p.reasoningStarted
        /\ q.chunks = p.chunks
  BY <1>1, Zenon DEF Showing
<1>4. /\ q.msg.content = p.msg.content /\ q.msg.reasoning = p.msg.reasoning
      /\ q.msg.calls = p.msg.calls /\ q.pending = p.pending /\ q.result # "ok"
  BY <1>1 DEF Has
<1>5. Displays(q.chunks, q.msg.content, q.msg.calls, thought, q.textStarted, q.reasoningStarted)
  BY <1>2, <1>3, <1>4, ShownNow, Zenon
<1> QED BY <1>2, <1>3, <1>4, <1>5, ShownNow, ShownBy

\* The end of the stream shows nothing, and moves what was collected to the message.
LEMMA EndShown ==
  ASSUME NEW p, Typed(p), Shown(p), p.result = "none", NEW failed \in BOOLEAN,
         NEW q, q = Stream!OnEnd(p, failed), Typed(q)
  PROVE  Shown(q)
<1>1. /\ Has(q, p.msg.content, p.msg.reasoning \o p.pending, p.msg.calls,
                EndReason(p.msg.finish, failed), p.pending, IF failed THEN "error" ELSE "ok")
      /\ Showing(q, p.textStarted, p.reasoningStarted, p.chunks)
  BY OnEndIs DEF Typed
<1>2. PICK thought \in Seq(Nat) : thought = p.msg.reasoning \o p.pending
  BY ShownNow
<1>3. q.textStarted = p.textStarted /\ q.reasoningStarted = p.reasoningStarted
        /\ q.chunks = p.chunks
  BY <1>1, Zenon DEF Showing
<1>4. /\ q.msg.content = p.msg.content /\ q.msg.reasoning = thought
      /\ q.msg.calls = p.msg.calls /\ q.pending = p.pending /\ q.result # "none"
  BY <1>1, <1>2 DEF Has
<1>5. Displays(q.chunks, q.msg.content, q.msg.calls, thought, q.textStarted, q.reasoningStarted)
  BY <1>2, <1>3, <1>4, ShownNow, Zenon
<1>6. p.msg.reasoning \in Seq(Nat) /\ p.pending \in Seq(Nat)
  BY DEF Typed
<1>7. /\ \A x \in Elements(q.msg.reasoning) : Displayed(q.chunks, x)
      /\ \A x \in Elements(q.pending) : Displayed(q.chunks, x)
  BY <1>2, <1>3, <1>4, <1>6, ShownNow, ElementsJoin
<1> QED BY <1>2, <1>4, <1>5, <1>7, ShownBy

\* Whatever is read, what is shown stays what the message holds.
LEMMA HandledShown ==
  ASSUME NEW p, Typed(p), Shown(p), p.result = "none", NEW e \in StreamEvent,
         IsItem(e) => e.content = <<>> \/ e.content = p.pending,
         NEW q, q = Stream!Handled(p, e)
  PROVE  Shown(q)
<1>1. Typed(q)
  BY HandledTyped
<1>2. CASE e.type = "text.delta"
  <2>1. PICK piece \in Nat : piece = e.delta /\ q = Stream!OnTextDelta(p, piece)
    BY <1>2 DEF StreamEvent, Stream!Handled
  <2> QED BY <1>1, <2>1, TextDeltaShown
<1>3. CASE e.type = "text.done"
  <2>1. q = Stream!OnTextDone(p)
    BY <1>3 DEF Stream!Handled
  <2> QED BY <1>1, <2>1, TextDoneShown
<1>4. CASE e.type \in {"reasoning.delta", "summary.delta"}
  <2>1. PICK piece \in Nat : piece = e.delta /\ q = Stream!OnReasoningDelta(p, piece)
    BY <1>4 DEF StreamEvent, Stream!Handled
  <2> QED BY <1>1, <2>1, ReasoningDeltaShown
<1>5. CASE e.type = "item.reasoning"
  <2>1. PICK held : held = e.content /\ q = Stream!OnReasoningItem(p, held)
    BY <1>5 DEF Stream!Handled
  <2>2. held = <<>> \/ held = p.pending
    BY <1>5, <2>1 DEF IsItem
  <2> QED BY <1>1, <2>1, <2>2, ReasoningItemShown
<1>6. CASE e.type = "item.call"
  <2>1. PICK number \in Nat : number = e.call /\ q = Stream!OnCall(p, number)
    BY <1>6 DEF StreamEvent, Stream!Handled
  <2> QED BY <1>1, <2>1, CallShown
<1>7. CASE e.type = "terminal"
  <2>1. PICK how : how = e.how /\ q = Stream!OnTerminal(p, how)
    BY <1>7 DEF Stream!Handled
  <2> QED BY <1>1, <2>1, TerminalShown
<1>8. CASE e.type \in {"end", "error"}
  <2>1. q = Stream!OnEnd(p, FALSE) \/ q = Stream!OnEnd(p, TRUE)
    BY <1>8 DEF Stream!Handled
  <2> QED BY <1>1, <2>1, EndShown
<1> QED BY <1>2, <1>3, <1>4, <1>5, <1>6, <1>7, <1>8 DEF StreamEvent

-----------------------------------------------------------------------------
(* The way from the endpoint to the message.                               *)

\* Texts, calls and reasoning are the kinds of events that carry a piece.
LEMMA Kinds == {"text.delta"} \in SUBSET Numbered /\ {"item.call"} \in SUBSET Numbered
                 /\ Thinking \in SUBSET Numbered
BY DEF Numbered, Thinking

\* An event is sent ...
LEMMA LaneSame ==
  ASSUME NEW s \in Seq(StreamEvent), NEW e \in StreamEvent, NEW t, Follows(t, s, e),
         NEW kinds \in SUBSET Numbered, NEW got, NEW whole, NEW way,
         Lane(got, whole, Sent(s, kinds), way), e.type \notin kinds
  PROVE  Lane(got, whole, Sent(t, kinds), way)
<1>1. Sent(t, kinds) = Sent(s, kinds)
  BY SentMore
<1> QED BY <1>1

\* A piece that is sent is the last of its kind, and under way.
LEMMA LaneNext ==
  ASSUME NEW s \in Seq(StreamEvent), NEW e \in StreamEvent, NEW t, Follows(t, s, e),
         NEW kinds \in SUBSET Numbered, NEW got \in Seq(Nat), NEW whole \in Seq(Nat), NEW way,
         Lane(got, whole, Sent(s, kinds), way), way # "broken", e.type \in kinds,
         \A x \in Elements(whole) : x < Number(e)
  PROVE  Lane(got, Append(whole, Number(e)), Sent(t, kinds), way)
<1>1. Sent(t, kinds) = Sent(s, kinds) \cup {Number(e)}
  BY SentMore
<1>2. PICK n \in Nat : n = Number(e)
  BY NumbersAre
<1>3. \A i \in DOMAIN whole : whole[i] < n
  BY <1>2 DEF Elements
<1>4. Lane(got, Append(whole, n), Sent(s, kinds) \cup {n}, way)
  BY <1>2, <1>3, LaneSends
<1> QED BY <1>1, <1>2, <1>4

\* ... and the first one is read.
LEMMA LaneLeft ==
  ASSUME NEW s \in Seq(StreamEvent), NEW e \in StreamEvent, NEW t, Leads(t, e, s), InTurn(t),
         NEW kinds \in SUBSET Numbered, NEW got, NEW whole, NEW way,
         Lane(got, whole, Sent(t, kinds), way), e.type \notin kinds
  PROVE  Lane(got, whole, Sent(s, kinds), way)
<1>1. Sent(t, kinds) = Sent(s, kinds)
  BY SentLess
<1> QED BY <1>1

\* The piece that is read is the next of its kind, and arrives.
LEMMA LaneRead ==
  ASSUME NEW s \in Seq(StreamEvent), NEW e \in StreamEvent, NEW t, Leads(t, e, s), InTurn(t),
         NEW kinds \in SUBSET Numbered, NEW got \in Seq(Nat), NEW whole \in Seq(Nat), NEW way,
         Lane(got, whole, Sent(t, kinds), way), e.type \in kinds
  PROVE  Lane(Append(got, Number(e)), whole, Sent(s, kinds), way)
<1>1. PICK n \in Nat : n = Number(e)
  BY NumbersAre
<1>2. PICK T : T = Sent(s, kinds)
  OBVIOUS
<1>3. Sent(t, kinds) = T \cup {n} /\ n \notin T /\ \A x \in T : n < x
  BY <1>1, <1>2, SentLess
<1>4. T \in SUBSET Nat
  BY <1>2, SentTyped
<1>5. Lane(got, whole, T \cup {n}, way)
  BY <1>3
<1>6. Lane(Append(got, n), whole, T, way)
  BY <1>1, <1>3, <1>4, <1>5, LaneTakes
<1> QED BY <1>1, <1>2, <1>6

\* The same for what the next item of reasoning has to hold.
LEMMA CollectsNext ==
  ASSUME NEW s \in Seq(StreamEvent), NEW e \in StreamEvent, NEW t, Follows(t, s, e),
         NEW pending \in Seq(Nat), NEW content \in Seq(Nat)
  PROVE  /\ \A i \in 1 .. Len(s) + 1 :
              Collects(s, i, pending, content) => Collects(t, i, pending, content)
         /\ IsItem(e) => Collects(t, Len(t) + 1, pending, <<>>)
         /\ ~IsItem(e) /\ e.type \notin Thinking /\ Collects(s, Len(s) + 1, pending, content) =>
              Collects(t, Len(t) + 1, pending, content)
         /\ e.type \in Thinking /\ Collects(s, Len(s) + 1, pending, content)
              /\ (\A x \in Elements(content) : x < Number(e)) =>
              Collects(t, Len(t) + 1, pending, Append(content, Number(e)))
<1>1. PICK n : n = Len(s) + 1 /\ n = Len(t)
  BY DEF Follows
<1>2. ASSUME NEW i \in 1 .. Len(s) + 1, Collects(s, i, pending, content)
      PROVE  Collects(t, i, pending, content)
  <2>1. Between(t, i) = Between(s, i) /\ (FirstItem(t, i) <=> FirstItem(s, i))
    BY <1>2, CollectMore
  <2>2. Base(t, i, pending) = Base(s, i, pending)
    BY <2>1 DEF Base
  <2> QED BY <1>2, <2>1, <2>2 DEF Collects
<1>3. ASSUME IsItem(e) PROVE Collects(t, n + 1, pending, <<>>)
  <2>1. Between(t, n + 1) = {} /\ ~FirstItem(t, n + 1)
    BY <1>1, <1>3, CollectLast
  <2> QED BY <2>1, LaneStarts DEF Collects, Base
<1>4. ASSUME ~IsItem(e), e.type \notin Thinking, Collects(s, n, pending, content)
      PROVE  Collects(t, n + 1, pending, content)
  <2>1. Between(t, n + 1) = Between(s, n) /\ (FirstItem(t, n + 1) <=> FirstItem(s, n))
    BY <1>1, <1>4, CollectLast
  <2>2. Base(t, n + 1, pending) = Base(s, n, pending)
    BY <2>1 DEF Base
  <2> QED BY <1>4, <2>1, <2>2 DEF Collects
<1>5. ASSUME e.type \in Thinking, Collects(s, n, pending, content),
             \A x \in Elements(content) : x < Number(e)
      PROVE  Collects(t, n + 1, pending, Append(content, Number(e)))
  <2>1. ~IsItem(e) /\ e.type \in Numbered
    BY <1>5 DEF IsItem, Thinking, Numbered
  <2>2. /\ Between(t, n + 1) = Between(s, n) \cup {Number(e)}
        /\ (FirstItem(t, n + 1) <=> FirstItem(s, n))
    BY <1>1, <1>5, <2>1, CollectLast
  <2>3. PICK base \in Seq(Nat) : base = Base(t, n + 1, pending) /\ base = Base(s, n, pending)
    BY <2>2, EmptySeq DEF Base
  <2>4. PICK k \in Nat : k = Number(e)
    BY <2>1, NumbersAre
  <2>5. \A i \in DOMAIN content : content[i] < k
    BY <1>5, <2>4 DEF Elements
  <2>6. PICK T, way : T = Between(s, n) /\ way = "item"
    OBVIOUS
  <2>7. Lane(base, content, T, way) /\ way # "broken"
    BY <1>5, <2>3, <2>6 DEF Collects
  <2>8. Lane(base, Append(content, k), T \cup {k}, way)
    BY <2>3, <2>4, <2>5, <2>7, LaneSends
  <2> QED BY <2>2, <2>3, <2>4, <2>6, <2>8 DEF Collects
<1> QED BY <1>1, <1>2, <1>3, <1>4, <1>5

\* While events are read, every item on the way keeps what belongs to it: a piece moves
\* from what is under way for it to what has arrived.
LEMMA CollectsRead ==
  ASSUME NEW s \in Seq(StreamEvent), NEW e \in StreamEvent, NEW t, Leads(t, e, s), InTurn(t),
         NEW pending \in Seq(Nat), NEW later,
         later = IF IsItem(e) THEN <<>>
                 ELSE IF e.type \in Thinking THEN Append(pending, Number(e)) ELSE pending,
         NEW i \in 1 .. Len(s) + 1, NEW content \in Seq(Nat), Collects(t, i + 1, pending, content)
  PROVE  Collects(s, i, later, content)
<1>1. CASE IsItem(e)
  <2>1. ~FirstItem(t, i + 1) /\ Between(t, i + 1) = Between(s, i)
    BY <1>1, CollectRest
  <2>2. Base(t, i + 1, pending) = <<>> /\ Base(s, i, later) = <<>>
    BY <1>1, <2>1 DEF Base
  <2> QED BY <2>1, <2>2 DEF Collects
<1>2. CASE ~IsItem(e) /\ (e.type \notin Thinking \/ ~FirstItem(s, i))
  <2>1. (FirstItem(t, i + 1) <=> FirstItem(s, i)) /\ Between(t, i + 1) = Between(s, i)
    BY <1>2, CollectRest
  <2>2. Base(t, i + 1, pending) = Base(s, i, later)
    BY <1>2, <2>1 DEF Base
  <2> QED BY <2>1, <2>2 DEF Collects
<1>3. CASE ~IsItem(e) /\ e.type \in Thinking /\ FirstItem(s, i)
  <2>1. FirstItem(t, i + 1) /\ Between(t, i + 1) = Between(s, i) \cup {Number(e)}
    BY <1>3, CollectRest
  <2>2. PICK n \in Nat : n = Number(e)
    BY <1>3, NumbersAre DEF Numbered
  <2>3. Base(t, i + 1, pending) = pending /\ Base(s, i, later) = Append(pending, n)
    BY <1>3, <2>1, <2>2 DEF Base
  <2>4. PICK T \in SUBSET Nat : T = Between(s, i)
    BY BetweenTyped
  <2>5. Between(s, i) \subseteq Sent(s, Thinking)
    BY DEF Between, Sent
  <2>6. n \notin T /\ \A x \in T : n < x
    BY <1>3, <2>2, <2>4, <2>5, Kinds, SentLess
  <2>7. PICK way : way = "item" /\ Lane(pending, content, T \cup {n}, way)
    BY <2>1, <2>2, <2>3, <2>4 DEF Collects
  <2>8. Lane(Append(pending, n), content, T, way)
    BY <2>2, <2>4, <2>6, <2>7, LaneTakes
  <2> QED BY <2>3, <2>4, <2>7, <2>8 DEF Collects
<1> QED BY <1>1, <1>2, <1>3

-----------------------------------------------------------------------------
(* Everything that is under way, and where it ends.                        *)

\* Thoughts and summary in one sequence; where there is no summary, the thoughts.
Woven(whole, say) ==
  /\ Elements(whole) = Elements(say.thoughts) \cup Elements(say.notes)
  /\ say.notes = <<>> => whole = say.thoughts

\* The text, the calls and the reasoning, of whole items.
Under(flow, p, say, way) ==
  /\ InTurn(flow)
  /\ Lane(p.msg.content, say.text, Sent(flow, {"text.delta"}), way)
  /\ Lane(p.msg.calls, say.calls, Sent(flow, {"item.call"}), way)
  /\ \E whole \in Seq(Nat) :
       Woven(whole, say) /\ Lane(p.msg.reasoning \o p.pending, whole, Sent(flow, Thinking), way)
  /\ Items(flow, p.pending)

\* Nothing is numbered above top.
Below(flow, say, thoughts, top) ==
  /\ \A i \in DOMAIN flow : flow[i].type \in Numbered => Number(flow[i]) <= top
  /\ \A x \in Elements(say.text) \cup Elements(say.thoughts) \cup Elements(say.notes)
                \cup Elements(say.calls) \cup Elements(thoughts) : x <= top

Spoken(say) ==
  /\ say.text \in Seq(Nat) /\ say.thoughts \in Seq(Nat)
  /\ say.notes \in Seq(Nat) /\ say.calls \in Seq(Nat)

\* What the model says is sent.
Says(say, e, more) ==
  /\ more.text = IF e.type = "text.delta" THEN Append(say.text, Number(e)) ELSE say.text
  /\ more.thoughts = IF e.type = "reasoning.delta" THEN Append(say.thoughts, Number(e))
                     ELSE say.thoughts
  /\ more.notes = IF e.type = "summary.delta" THEN Append(say.notes, Number(e)) ELSE say.notes
  /\ more.calls = IF e.type = "item.call" THEN Append(say.calls, Number(e)) ELSE say.calls

\* A thought or a note that is said is the last of the whole reasoning.
LEMMA WovenMore ==
  ASSUME NEW say, Spoken(say), NEW e \in StreamEvent, NEW more, Says(say, e, more),
         NEW whole \in Seq(Nat), Woven(whole, say)
  PROVE  Woven(IF e.type \in Thinking THEN Append(whole, Number(e)) ELSE whole, more)
<1>1. CASE e.type \notin Thinking
  BY <1>1 DEF Woven, Says, Thinking
<1>2. CASE e.type \in Thinking
  <2>1. PICK n \in Nat : n = Number(e)
    BY <1>2, NumbersAre DEF Numbered
  <2>2. PICK w : w = Append(whole, n)
    OBVIOUS
  <2>3. \A x : x \in Elements(w) <=> x \in Elements(whole) \/ x = n
    BY <2>2, ElementsMore
  <2>4. CASE e.type = "reasoning.delta"
    <3>1. more.thoughts = Append(say.thoughts, n) /\ more.notes = say.notes
      BY <2>1, <2>4 DEF Says
    <3>2. \A x : x \in Elements(more.thoughts) <=> x \in Elements(say.thoughts) \/ x = n
      BY <3>1, ElementsMore DEF Spoken
    <3>3. Elements(w) = Elements(more.thoughts) \cup Elements(more.notes)
      BY <2>3, <3>1, <3>2 DEF Woven
    <3>4. more.notes = <<>> => w = more.thoughts
      BY <2>2, <3>1 DEF Woven
    <3> QED BY <1>2, <2>1, <2>2, <3>3, <3>4 DEF Woven
  <2>5. CASE e.type = "summary.delta"
    <3>1. more.notes = Append(say.notes, n) /\ more.thoughts = say.thoughts
      BY <2>1, <2>5 DEF Says
    <3>2. \A x : x \in Elements(more.notes) <=> x \in Elements(say.notes) \/ x = n
      BY <3>1, ElementsMore DEF Spoken
    <3>3. Elements(w) = Elements(more.thoughts) \cup Elements(more.notes)
      BY <2>3, <3>1, <3>2 DEF Woven
    <3>4. more.notes # <<>>
      <4>1. PICK r \in Seq(Nat) : r = say.notes
        BY DEF Spoken
      <4>2. Append(r, n) \in Seq(Nat) /\ Len(Append(r, n)) = Len(r) + 1 /\ Len(r) \in Nat
        BY <2>1, <4>1
      <4>3. Len(more.notes) # 0
        BY <3>1, <4>1, <4>2
      <4> QED BY <4>3
    <3> QED BY <1>2, <2>1, <2>2, <3>3, <3>4 DEF Woven
  <2> QED BY <1>2, <2>4, <2>5 DEF Thinking
<1> QED BY <1>1, <1>2

\* The endpoint sends an event.
LEMMA UnderNext ==
  ASSUME NEW s \in Seq(StreamEvent), NEW e \in StreamEvent, NEW t, Follows(t, s, e),
         NEW p, Typed(p), NEW say, Spoken(say), NEW way, Under(s, p, say, way),
         NEW more, Says(say, e, more),
         NEW thoughts, NEW top \in Nat, Below(s, say, thoughts, top),
         e.type \in Numbered => Number(e) = top + 1 /\ way # "broken",
         IsItem(e) => e.content \in Seq(Nat)
                        /\ (e.content # <<>> => Collects(s, Len(s) + 1, p.pending, e.content))
  PROVE  Under(t, p, more, way)
<1>1. /\ p.msg.content \in Seq(Nat) /\ p.msg.reasoning \in Seq(Nat) /\ p.msg.calls \in Seq(Nat)
      /\ p.pending \in Seq(Nat) /\ p.msg.reasoning \o p.pending \in Seq(Nat)
  <2>1. \A a, b \in Seq(Nat) : a \o b \in Seq(Nat)
    BY ConcatProperties
  <2> QED BY <2>1 DEF Typed
<1>2. /\ DOMAIN t = 1 .. Len(s) + 1 /\ DOMAIN s = 1 .. Len(s) /\ Len(s) \in Nat
      /\ t[Len(s) + 1] = e /\ \A k \in 1 .. Len(s) : t[k] = s[k]
  BY DEF Follows
<1>3. InTurn(t)
  <2>1. e.type \in Numbered =>
          \A i \in DOMAIN s : s[i].type \in Numbered => Number(s[i]) < Number(e)
    <3> HAVE e.type \in Numbered
    <3> TAKE i \in DOMAIN s
    <3> HAVE s[i].type \in Numbered
    <3>1. s[i] \in StreamEvent
      OBVIOUS
    <3>2. Number(s[i]) \in Nat /\ Number(s[i]) <= top
      BY <3>1, NumbersAre DEF Below
    <3> QED BY <3>2
  <2> QED BY <2>1, InTurnMore DEF Under
<1>4. ASSUME e.type \in Numbered, NEW x \in Nat, x <= top PROVE x < Number(e)
  BY <1>4
<1>5. Lane(p.msg.content, more.text, Sent(t, {"text.delta"}), way)
  <2>1. Lane(p.msg.content, say.text, Sent(s, {"text.delta"}), way)
    BY DEF Under
  <2>2. CASE e.type # "text.delta"
    <3>1. more.text = say.text
      BY <2>2 DEF Says
    <3>2. PICK K \in SUBSET Numbered : K = {"text.delta"} /\ e.type \notin K
      BY <2>2, Kinds
    <3>3. Lane(p.msg.content, say.text, Sent(t, K), way)
      BY <1>1, <2>1, <3>1, <3>2, LaneSame DEF Spoken
    <3> QED BY <3>1, <3>2, <3>3
  <2>3. CASE e.type = "text.delta"
    <3>1. more.text = Append(say.text, Number(e)) /\ e.type \in {"text.delta"}
            /\ e.type \in Numbered
      BY <2>3 DEF Says, Numbered
    <3>2. \A x \in Elements(say.text) : x \in Nat /\ x <= top
      BY DEF Below, Elements, Spoken
    <3>3. \A x \in Elements(say.text) : x < Number(e)
      BY <1>4, <3>1, <3>2
    <3>4. PICK K \in SUBSET Numbered : K = {"text.delta"}
      BY Kinds
    <3>5. Lane(p.msg.content, Append(say.text, Number(e)), Sent(t, K), way)
      BY <1>1, <2>1, <3>1, <3>3, <3>4, LaneNext DEF Spoken
    <3> QED BY <3>1, <3>4, <3>5
  <2> QED BY <2>2, <2>3
<1>6. Lane(p.msg.calls, more.calls, Sent(t, {"item.call"}), way)
  <2>1. Lane(p.msg.calls, say.calls, Sent(s, {"item.call"}), way)
    BY DEF Under
  <2>2. CASE e.type # "item.call"
    <3>1. more.calls = say.calls
      BY <2>2 DEF Says
    <3>2. PICK K \in SUBSET Numbered : K = {"item.call"} /\ e.type \notin K
      BY <2>2, Kinds
    <3>3. Lane(p.msg.calls, say.calls, Sent(t, K), way)
      BY <1>1, <2>1, <3>1, <3>2, LaneSame DEF Spoken
    <3> QED BY <3>1, <3>2, <3>3
  <2>3. CASE e.type = "item.call"
    <3>1. more.calls = Append(say.calls, Number(e)) /\ e.type \in {"item.call"}
            /\ e.type \in Numbered
      BY <2>3 DEF Says, Numbered
    <3>2. \A x \in Elements(say.calls) : x \in Nat /\ x <= top
      BY DEF Below, Elements, Spoken
    <3>3. \A x \in Elements(say.calls) : x < Number(e)
      BY <1>4, <3>1, <3>2
    <3>4. PICK K \in SUBSET Numbered : K = {"item.call"}
      BY Kinds
    <3>5. Lane(p.msg.calls, Append(say.calls, Number(e)), Sent(t, K), way)
      BY <1>1, <2>1, <3>1, <3>3, <3>4, LaneNext DEF Spoken
    <3> QED BY <3>1, <3>4, <3>5
  <2> QED BY <2>2, <2>3
<1>7. \E whole \in Seq(Nat) :
        Woven(whole, more) /\ Lane(p.msg.reasoning \o p.pending, whole, Sent(t, Thinking), way)
  <2>1. PICK whole \in Seq(Nat) :
          Woven(whole, say) /\ Lane(p.msg.reasoning \o p.pending, whole, Sent(s, Thinking), way)
    BY DEF Under
  <2>2. PICK w : w = IF e.type \in Thinking THEN Append(whole, Number(e)) ELSE whole
    OBVIOUS
  <2>3. Woven(w, more)
    BY <2>1, <2>2, WovenMore
  <2>4. CASE e.type \notin Thinking
    <3>1. PICK got \in Seq(Nat), K \in SUBSET Numbered :
            got = p.msg.reasoning \o p.pending /\ K = Thinking /\ e.type \notin K
      BY <1>1, <2>4, Kinds
    <3>2. Lane(got, whole, Sent(t, K), way)
      BY <2>1, <2>4, <3>1, LaneSame
    <3> QED BY <2>1, <2>2, <2>3, <2>4, <3>1, <3>2
  <2>5. CASE e.type \in Thinking
    <3>1. e.type \in Numbered /\ Number(e) \in Nat
      BY <2>5, NumbersAre DEF Numbered
    <3>2. \A x \in Elements(whole) : x \in Nat /\ x <= top
      <4>1. \A x \in Elements(whole) : x \in Nat
        BY <2>1 DEF Elements
      <4>2. \A x \in Elements(whole) : x <= top
        BY <2>1 DEF Woven, Below
      <4> QED BY <4>1, <4>2
    <3>3. \A x \in Elements(whole) : x < Number(e)
      BY <1>4, <3>1, <3>2
    <3>4. Lane(p.msg.reasoning \o p.pending, Append(whole, Number(e)), Sent(t, Thinking), way)
      BY <1>1, <2>1, <2>5, <3>1, <3>3, Kinds, LaneNext
    <3>5. w = Append(whole, Number(e)) /\ w \in Seq(Nat)
      BY <2>1, <2>2, <2>5, <3>1
    <3> QED BY <2>3, <3>4, <3>5
  <2> QED BY <2>4, <2>5
<1>8. Items(t, p.pending)
  <2> SUFFICES ASSUME NEW i \in DOMAIN t, IsItem(t[i]), t[i].content # <<>>
               PROVE  Collects(t, i, p.pending, t[i].content)
    BY DEF Items
  <2>1. (t[i] = e /\ i = Len(s) + 1) \/ (i \in DOMAIN s /\ t[i] = s[i])
    BY <1>2
  <2>2. t[i].content \in Seq(Nat) /\ Collects(s, i, p.pending, t[i].content)
    <3>1. CASE t[i] = e /\ i = Len(s) + 1
      BY <3>1
    <3>2. CASE i \in DOMAIN s /\ t[i] = s[i]
      <4>1. s[i] \in StreamEvent
        BY <3>2
      <4>2. s[i].content \in Seq(Nat)
        BY <3>2, <4>1 DEF StreamEvent, IsItem
      <4> QED BY <3>2, <4>2 DEF Under, Items
    <3> QED BY <2>1, <3>1, <3>2
  <2>3. i \in 1 .. Len(s) + 1
    BY <1>2
  <2> QED BY <1>1, <2>2, <2>3, CollectsNext
<1> QED BY <1>3, <1>5, <1>6, <1>7, <1>8 DEF Under

-----------------------------------------------------------------------------
\* What an event adds to the message.
LEMMA HandledMoves ==
  ASSUME NEW p, Typed(p), NEW e \in StreamEvent, e.type \notin {"end", "error"},
         IsItem(e) => e.content = <<>> \/ e.content = p.pending,
         NEW q, q = Stream!Handled(p, e)
  PROVE  /\ q.msg.content = IF e.type \in {"text.delta"} THEN Append(p.msg.content, Number(e))
                            ELSE p.msg.content
         /\ q.msg.calls = IF e.type \in {"item.call"} THEN Append(p.msg.calls, Number(e))
                          ELSE p.msg.calls
         /\ q.msg.reasoning \o q.pending =
              IF e.type \in Thinking THEN Append(p.msg.reasoning \o p.pending, Number(e))
              ELSE p.msg.reasoning \o p.pending
         /\ q.pending = IF IsItem(e) THEN <<>>
                        ELSE IF e.type \in Thinking THEN Append(p.pending, Number(e))
                             ELSE p.pending
<1>1. /\ Shaped(p) /\ p.textStarted \in BOOLEAN /\ p.reasoningStarted \in BOOLEAN
      /\ p.msg.reasoning \in Seq(Nat) /\ p.pending \in Seq(Nat)
  BY DEF Typed
<1>2. CASE e.type = "text.delta"
  <2>1. PICK piece : piece = e.delta /\ piece = Number(e) /\ q = Stream!OnTextDelta(p, piece)
    BY <1>2 DEF Number, Stream!Handled
  <2>2. Has(q, Append(p.msg.content, piece), p.msg.reasoning, p.msg.calls, p.msg.finish,
            p.pending, p.result)
    BY <1>1, <2>1, OnTextDeltaIs
  <2> QED BY <1>2, <2>1, <2>2 DEF Has, Thinking, IsItem
<1>3. CASE e.type = "text.done"
  <2>1. q = Stream!OnTextDone(p)
    BY <1>3 DEF Stream!Handled
  <2>2. Unmoved(p, q)
    BY <1>1, <2>1, OnTextDoneIs
  <2> QED BY <1>3, <2>2 DEF Unmoved, Has, Thinking, IsItem
<1>4. CASE e.type \in {"reasoning.delta", "summary.delta"}
  <2>1. PICK piece \in Nat :
          piece = e.delta /\ piece = Number(e) /\ q = Stream!OnReasoningDelta(p, piece)
    BY <1>4 DEF StreamEvent, Number, Stream!Handled
  <2>2. Has(q, p.msg.content, p.msg.reasoning, p.msg.calls, p.msg.finish,
            Append(p.pending, piece), p.result)
    BY <1>1, <2>1, OnReasoningDeltaIs
  <2>3. Append(p.msg.reasoning \o p.pending, piece) = p.msg.reasoning \o Append(p.pending, piece)
    BY <1>1, <2>1, AppendedAfter
  <2>4. /\ q.msg.content = p.msg.content /\ q.msg.calls = p.msg.calls
        /\ q.msg.reasoning = p.msg.reasoning /\ q.pending = Append(p.pending, piece)
    BY <2>2 DEF Has
  <2>5. e.type \in Thinking /\ e.type \notin {"text.delta"} /\ e.type \notin {"item.call"}
          /\ ~IsItem(e)
    BY <1>4 DEF Thinking, IsItem
  <2> QED BY <2>1, <2>3, <2>4, <2>5
<1>5. CASE e.type = "item.reasoning"
  <2>1. PICK held : held = e.content /\ q = Stream!OnReasoningItem(p, held)
    BY <1>5 DEF Stream!Handled
  <2>2. (IF held # <<>> THEN held ELSE p.pending) = p.pending
    BY <1>5, <2>1 DEF IsItem
  <2>3. PICK r : r = p.msg.reasoning \o p.pending /\ r \in Seq(Nat)
    BY <1>1, ConcatProperties
  <2>4. Has(q, p.msg.content, r, p.msg.calls, p.msg.finish, <<>>, p.result)
    BY <1>1, <2>1, <2>2, <2>3, OnReasoningItemIs
  <2>5. /\ q.msg.content = p.msg.content /\ q.msg.calls = p.msg.calls
        /\ q.msg.reasoning = r /\ q.pending = <<>>
    BY <2>4 DEF Has
  <2>6. r \o <<>> = r
    BY <2>3, ConcatEmptySeq
  <2>7. e.type \notin Thinking /\ e.type \notin {"text.delta"} /\ e.type \notin {"item.call"}
          /\ IsItem(e)
    BY <1>5 DEF Thinking, IsItem
  <2> QED BY <2>3, <2>5, <2>6, <2>7
<1>6. CASE e.type = "item.call"
  <2>1. PICK number : number = e.call /\ number = Number(e) /\ q = Stream!OnCall(p, number)
    BY <1>6 DEF Number, Stream!Handled
  <2>2. Has(q, p.msg.content, p.msg.reasoning, Append(p.msg.calls, number), p.msg.finish,
            p.pending, p.result)
    BY <1>1, <2>1, OnCallIs
  <2> QED BY <1>6, <2>1, <2>2 DEF Has, Thinking, IsItem
<1>7. CASE e.type = "terminal"
  <2>1. PICK how : how = e.how /\ q = Stream!OnTerminal(p, how)
    BY <1>7 DEF Stream!Handled
  <2>2. Has(q, p.msg.content, p.msg.reasoning, p.msg.calls, Stream!FinishReason(how, style.usage),
            p.pending, IF how = "failed" THEN "error" ELSE p.result)
    BY <1>1, <2>1, OnTerminalIs
  <2> QED BY <1>7, <2>2 DEF Has, Thinking, IsItem
<1> QED BY <1>2, <1>3, <1>4, <1>5, <1>6, <1>7 DEF StreamEvent

\* The item that is read holds what was collected for it, if anything.
LEMMA ItemHeld ==
  ASSUME NEW s \in Seq(StreamEvent), NEW e \in StreamEvent, NEW t, Leads(t, e, s),
         NEW pending \in Seq(Nat), Items(t, pending), IsItem(e)
  PROVE  e.content = <<>> \/ e.content = pending
<1>1. t[1] = e /\ 1 \in DOMAIN t /\ DOMAIN t = 1 .. Len(s) + 1 /\ Len(s) \in Nat
  BY PrependedIs
<1>2. CASE e.content # <<>>
  <2>1. Collects(t, 1, pending, e.content)
    BY <1>1, <1>2 DEF Items
  <2>2. \A k \in DOMAIN t : ~(k < 1)
    BY <1>1
  <2>3. FirstItem(t, 1)
    BY <2>2 DEF FirstItem
  <2>4. \A x : x \notin Between(t, 1)
    BY <2>2, BetweenIs
  <2>5. Between(t, 1) = {}
    BY <2>4
  <2>6. PICK held \in Seq(Nat) : held = e.content
    BY DEF StreamEvent, IsItem
  <2>7. Lane(pending, held, {}, "item")
    BY <2>1, <2>3, <2>5, <2>6 DEF Collects, Base
  <2>8. pending = held
    <3>1. PICK rest \in Seq(Nat) : held = pending \o rest /\ Elements(rest) \subseteq {}
      BY <2>7 DEF Lane
    <3>2. rest # <<>> => rest[1] \in Elements(rest)
      BY DEF Elements
    <3>3. rest = <<>>
      BY <3>1, <3>2
    <3> QED BY <3>1, <3>3, ConcatEmptySeq
  <2> QED BY <2>6, <2>8
<1> QED BY <1>2

\* An event that is read leaves everything else under way in order; an item that arrives
\* holds what was collected for it, or nothing.
LEMMA UnderRead ==
  ASSUME NEW s \in Seq(StreamEvent), NEW e \in StreamEvent, NEW t, Leads(t, e, s),
         NEW p, Typed(p), NEW say, Spoken(say), NEW way, Under(t, p, say, way),
         e.type \notin {"end", "error"}, NEW q, q = Stream!Handled(p, e)
  PROVE  /\ Under(s, q, say, way)
         /\ IsItem(e) => e.content = <<>> \/ e.content = p.pending
         /\ \A thoughts \in Seq(Nat) :
              Collects(t, Len(t) + 1, p.pending, thoughts) =>
                Collects(s, Len(s) + 1, q.pending, thoughts)
<1>1. /\ p.msg.content \in Seq(Nat) /\ p.msg.reasoning \in Seq(Nat) /\ p.msg.calls \in Seq(Nat)
      /\ p.pending \in Seq(Nat) /\ p.msg.reasoning \o p.pending \in Seq(Nat)
  <2>1. \A a, b \in Seq(Nat) : a \o b \in Seq(Nat)
    BY ConcatProperties
  <2> QED BY <2>1 DEF Typed
<1>2. /\ DOMAIN t = 1 .. Len(s) + 1 /\ DOMAIN s = 1 .. Len(s) /\ Len(s) \in Nat
      /\ Len(t) = Len(s) + 1
      /\ t[1] = e /\ \A i \in 1 .. Len(s) : t[i + 1] = s[i]
  BY PrependedIs
<1>3. InTurn(t) /\ Items(t, p.pending)
  BY DEF Under
<1>4. IsItem(e) => e.content = <<>> \/ e.content = p.pending
  BY <1>1, <1>3, ItemHeld
<1>5. /\ q.msg.content = IF e.type \in {"text.delta"} THEN Append(p.msg.content, Number(e))
                         ELSE p.msg.content
      /\ q.msg.calls = IF e.type \in {"item.call"} THEN Append(p.msg.calls, Number(e))
                       ELSE p.msg.calls
      /\ q.msg.reasoning \o q.pending =
           IF e.type \in Thinking THEN Append(p.msg.reasoning \o p.pending, Number(e))
           ELSE p.msg.reasoning \o p.pending
      /\ q.pending = IF IsItem(e) THEN <<>>
                     ELSE IF e.type \in Thinking THEN Append(p.pending, Number(e))
                          ELSE p.pending
  BY <1>4, HandledMoves
<1>6. InTurn(s)
  BY <1>3, Kinds, SentLess
<1>7. Lane(q.msg.content, say.text, Sent(s, {"text.delta"}), way)
  <2>1. PICK got \in Seq(Nat), whole \in Seq(Nat), K \in SUBSET Numbered :
          got = p.msg.content /\ whole = say.text /\ K = {"text.delta"}
    BY <1>1, Kinds DEF Spoken
  <2>2. Lane(got, whole, Sent(t, K), way)
    BY <2>1 DEF Under
  <2>3. CASE e.type \notin K
    <3>1. Lane(got, whole, Sent(s, K), way)
      BY <1>3, <2>1, <2>2, <2>3, LaneLeft
    <3> QED BY <1>5, <2>1, <2>3, <3>1
  <2>4. CASE e.type \in K
    <3>1. Lane(Append(got, Number(e)), whole, Sent(s, K), way)
      BY <1>3, <2>1, <2>2, <2>4, LaneRead
    <3> QED BY <1>5, <2>1, <2>4, <3>1
  <2> QED BY <2>3, <2>4
<1>8. Lane(q.msg.calls, say.calls, Sent(s, {"item.call"}), way)
  <2>1. PICK got \in Seq(Nat), whole \in Seq(Nat), K \in SUBSET Numbered :
          got = p.msg.calls /\ whole = say.calls /\ K = {"item.call"}
    BY <1>1, Kinds DEF Spoken
  <2>2. Lane(got, whole, Sent(t, K), way)
    BY <2>1 DEF Under
  <2>3. CASE e.type \notin K
    <3>1. Lane(got, whole, Sent(s, K), way)
      BY <1>3, <2>1, <2>2, <2>3, LaneLeft
    <3> QED BY <1>5, <2>1, <2>3, <3>1
  <2>4. CASE e.type \in K
    <3>1. Lane(Append(got, Number(e)), whole, Sent(s, K), way)
      BY <1>3, <2>1, <2>2, <2>4, LaneRead
    <3> QED BY <1>5, <2>1, <2>4, <3>1
  <2> QED BY <2>3, <2>4
<1>9. PICK whole \in Seq(Nat) :
        Woven(whole, say) /\ Lane(p.msg.reasoning \o p.pending, whole, Sent(t, Thinking), way)
  BY DEF Under
<1>10. Lane(q.msg.reasoning \o q.pending, whole, Sent(s, Thinking), way)
  <2>1. PICK got \in Seq(Nat), K \in SUBSET Numbered :
          got = p.msg.reasoning \o p.pending /\ K = Thinking
    BY <1>1, Kinds
  <2>2. Lane(got, whole, Sent(t, K), way)
    BY <1>9, <2>1
  <2>3. CASE e.type \notin K
    <3>1. Lane(got, whole, Sent(s, K), way)
      BY <1>3, <1>9, <2>1, <2>2, <2>3, LaneLeft
    <3> QED BY <1>5, <2>1, <2>3, <3>1
  <2>4. CASE e.type \in K
    <3>1. Lane(Append(got, Number(e)), whole, Sent(s, K), way)
      BY <1>3, <1>9, <2>1, <2>2, <2>4, LaneRead
    <3> QED BY <1>5, <2>1, <2>4, <3>1
  <2> QED BY <2>3, <2>4
<1>11. ASSUME NEW i \in 1 .. Len(s) + 1, NEW content \in Seq(Nat),
              Collects(t, i + 1, p.pending, content)
       PROVE  Collects(s, i, q.pending, content)
  BY <1>1, <1>3, <1>5, <1>11, CollectsRead
<1>12. Items(s, q.pending)
  <2> SUFFICES ASSUME NEW i \in DOMAIN s, IsItem(s[i]), s[i].content # <<>>
               PROVE  Collects(s, i, q.pending, s[i].content)
    BY DEF Items
  <2>1. i \in 1 .. Len(s) + 1 /\ i + 1 \in DOMAIN t /\ t[i + 1] = s[i]
    BY <1>2
  <2>2. s[i] \in StreamEvent
    OBVIOUS
  <2>3. s[i].content \in Seq(Nat)
    BY <2>2 DEF StreamEvent, IsItem
  <2>4. Collects(t, i + 1, p.pending, s[i].content)
    BY <1>3, <2>1 DEF Items
  <2> QED BY <1>11, <2>1, <2>3, <2>4
<1>13. Under(s, q, say, way)
  BY <1>6, <1>7, <1>8, <1>9, <1>10, <1>12 DEF Under
<1>14. Len(s) + 1 \in 1 .. Len(s) + 1 /\ Len(t) + 1 = (Len(s) + 1) + 1
  BY <1>2
<1> QED BY <1>4, <1>11, <1>13, <1>14

-----------------------------------------------------------------------------
(* The way goes on, or breaks, and nothing is numbered above the last piece. *)

\* What is under way stays so while the connection lives, and when it breaks.
LEMMA UnderGoesOn ==
  ASSUME NEW flow, NEW p, NEW say, NEW way, NEW next, Under(flow, p, say, way),
         way # "broken" \/ next = "broken"
  PROVE  Under(flow, p, say, next)
<1>1. /\ Lane(p.msg.content, say.text, Sent(flow, {"text.delta"}), next)
      /\ Lane(p.msg.calls, say.calls, Sent(flow, {"item.call"}), next)
  BY LaneGoesOn DEF Under
<1>2. PICK whole \in Seq(Nat) :
        Woven(whole, say) /\ Lane(p.msg.reasoning \o p.pending, whole, Sent(flow, Thinking), way)
  BY DEF Under
<1>3. Lane(p.msg.reasoning \o p.pending, whole, Sent(flow, Thinking), next)
  BY <1>2, LaneGoesOn
<1> QED BY <1>1, <1>2, <1>3 DEF Under

\* The rest of what is under way is lost.
LEMMA LaneBreaks ==
  ASSUME NEW s \in Seq(StreamEvent), NEW t \in Seq(StreamEvent), NEW u \in Seq(StreamEvent),
         s = t \o u, InTurn(s), NEW kinds \in SUBSET Numbered, NEW got, NEW whole, NEW way,
         Lane(got, whole, Sent(s, kinds), way)
  PROVE  Lane(got, whole, Sent(t, kinds), "broken")
<1>1. /\ \A k \in DOMAIN t : k \in DOMAIN s /\ s[k] = t[k]
      /\ \A i \in DOMAIN t, k \in DOMAIN s : k \in DOMAIN t \/ i < k
  OBVIOUS
<1>2. Sent(t, kinds) \in SUBSET Sent(s, kinds)
  BY <1>1 DEF Sent
<1>3. ASSUME NEW x \in Sent(s, kinds), NEW d \in Sent(t, kinds), x < d PROVE x \in Sent(t, kinds)
  <2>1. PICK i \in DOMAIN s : s[i].type \in kinds /\ x = Number(s[i])
    BY DEF Sent
  <2>2. PICK j \in DOMAIN t : t[j].type \in kinds /\ d = Number(t[j])
    BY DEF Sent
  <2>3. CASE i \in DOMAIN t
    BY <1>1, <2>1, <2>3 DEF Sent
  <2>4. CASE i \notin DOMAIN t
    <3>1. j < i /\ j \in DOMAIN s /\ s[j] = t[j]
      BY <1>1, <2>1, <2>2, <2>4
    <3>2. d < x
      BY <2>1, <2>2, <3>1 DEF InTurn
    <3>3. x \in Nat /\ d \in Nat
      BY SentTyped
    <3> QED BY <1>3, <3>2, <3>3
  <2> QED BY <2>3, <2>4
<1> QED BY <1>2, <1>3, LaneCut

\* When the last events on the way are lost, the first ones are still in order.
LEMMA UnderBreaks ==
  ASSUME NEW s \in Seq(StreamEvent), NEW t \in Seq(StreamEvent), NEW u \in Seq(StreamEvent),
         s = t \o u, NEW p, NEW say, NEW way, Under(s, p, say, way)
  PROVE  Under(t, p, say, "broken")
<1>1. /\ \A k \in DOMAIN t : k \in DOMAIN s /\ s[k] = t[k]
      /\ \A i \in DOMAIN t, k \in DOMAIN s : k < i => k \in DOMAIN t
  OBVIOUS
<1>2. InTurn(s) /\ Items(s, p.pending)
  BY DEF Under
<1>3. InTurn(t)
  BY <1>1, <1>2 DEF InTurn
<1>4. Lane(p.msg.content, say.text, Sent(t, {"text.delta"}), "broken")
  <2>1. PICK K \in SUBSET Numbered : K = {"text.delta"}
    BY Kinds
  <2>2. Lane(p.msg.content, say.text, Sent(s, K), way)
    BY <2>1 DEF Under
  <2> QED BY <1>2, <2>1, <2>2, LaneBreaks
<1>5. Lane(p.msg.calls, say.calls, Sent(t, {"item.call"}), "broken")
  <2>1. PICK K \in SUBSET Numbered : K = {"item.call"}
    BY Kinds
  <2>2. Lane(p.msg.calls, say.calls, Sent(s, K), way)
    BY <2>1 DEF Under
  <2> QED BY <1>2, <2>1, <2>2, LaneBreaks
<1>6. PICK whole \in Seq(Nat) :
        Woven(whole, say) /\ Lane(p.msg.reasoning \o p.pending, whole, Sent(s, Thinking), way)
  BY DEF Under
<1>7. Lane(p.msg.reasoning \o p.pending, whole, Sent(t, Thinking), "broken")
  <2>1. PICK K \in SUBSET Numbered : K = Thinking
    BY Kinds
  <2>2. Lane(p.msg.reasoning \o p.pending, whole, Sent(s, K), way)
    BY <1>6, <2>1
  <2> QED BY <1>2, <2>1, <2>2, LaneBreaks
<1>8. ASSUME NEW i \in DOMAIN t, NEW pending
      PROVE  Between(t, i) = Between(s, i) /\ Base(t, i, pending) = Base(s, i, pending)
  <2>1. ASSUME NEW x, x \in Between(t, i) PROVE x \in Between(s, i)
    <3>1. PICK k \in DOMAIN t : /\ k < i /\ t[k].type \in Thinking /\ x = Number(t[k])
                                /\ \A m \in DOMAIN t : k < m /\ m < i => ~IsItem(t[m])
      BY <2>1, BetweenIs
    <3>2. \A m \in DOMAIN s : k < m /\ m < i => ~IsItem(s[m])
      BY <1>1, <3>1
    <3> QED BY <1>1, <3>1, <3>2, BetweenIs
  <2>2. ASSUME NEW x, x \in Between(s, i) PROVE x \in Between(t, i)
    <3>1. PICK k \in DOMAIN s : /\ k < i /\ s[k].type \in Thinking /\ x = Number(s[k])
                                /\ \A m \in DOMAIN s : k < m /\ m < i => ~IsItem(s[m])
      BY <2>2, BetweenIs
    <3>2. k \in DOMAIN t /\ t[k] = s[k]
      BY <1>1, <3>1
    <3>3. \A m \in DOMAIN t : k < m /\ m < i => ~IsItem(t[m])
      BY <1>1, <3>1
    <3> QED BY <3>1, <3>2, <3>3, BetweenIs
  <2>3. FirstItem(t, i) <=> FirstItem(s, i)
    BY <1>1 DEF FirstItem
  <2>4. Base(t, i, pending) = Base(s, i, pending)
    BY <2>3 DEF Base
  <2> QED BY <2>1, <2>2, <2>4
<1>9. Items(t, p.pending)
  <2> SUFFICES ASSUME NEW i \in DOMAIN t, IsItem(t[i]), t[i].content # <<>>
               PROVE  Collects(t, i, p.pending, t[i].content)
    BY DEF Items
  <2>1. Collects(s, i, p.pending, t[i].content)
    BY <1>1, <1>2 DEF Items
  <2>2. Between(t, i) = Between(s, i) /\ Base(t, i, p.pending) = Base(s, i, p.pending)
    BY <1>8
  <2> QED BY <2>1, <2>2 DEF Collects
<1> QED BY <1>3, <1>4, <1>5, <1>6, <1>7, <1>9 DEF Under

\* A piece that is sent has the largest number.
LEMMA BelowNext ==
  ASSUME NEW s \in Seq(StreamEvent), NEW e \in StreamEvent, NEW t, Follows(t, s, e),
         NEW say, Spoken(say), NEW more, Says(say, e, more),
         NEW thoughts \in Seq(Nat), NEW top \in Nat, Below(s, say, thoughts, top),
         NEW next \in Nat, top <= next, e.type \in Numbered => Number(e) <= next,
         NEW kept, \A x \in Elements(kept) : x \in Elements(thoughts) \/ x <= next
  PROVE  Below(t, more, kept, next)
<1>1. /\ DOMAIN t = 1 .. Len(s) + 1 /\ DOMAIN s = 1 .. Len(s) /\ Len(s) \in Nat
      /\ t[Len(s) + 1] = e /\ \A k \in 1 .. Len(s) : t[k] = s[k]
  BY DEF Follows
<1>2. \A x \in Nat : x <= top => x <= next
  OBVIOUS
<1>3. ASSUME NEW i \in DOMAIN t, t[i].type \in Numbered PROVE Number(t[i]) <= next
  <2>1. CASE i = Len(s) + 1
    BY <1>1, <1>3, <2>1
  <2>2. CASE i \in DOMAIN s
    <3>1. t[i] = s[i] /\ s[i] \in StreamEvent
      BY <1>1, <2>2
    <3>2. Number(s[i]) \in Nat /\ Number(s[i]) <= top
      BY <1>3, <2>2, <3>1, NumbersAre DEF Below
    <3> QED BY <1>2, <3>1, <3>2
  <2> QED BY <1>1, <2>1, <2>2
<1>4. \A a \in Seq(Nat) : \A x \in Elements(a) : x \in Nat
  BY DEF Elements
<1>5. \A x : /\ x \in Elements(say.text) => x <= next
             /\ x \in Elements(say.thoughts) => x <= next
             /\ x \in Elements(say.notes) => x <= next
             /\ x \in Elements(say.calls) => x <= next
             /\ x \in Elements(thoughts) => x <= next
  BY <1>2, <1>4 DEF Spoken, Below
<1>6. ASSUME NEW a \in Seq(Nat), \A x \in Elements(a) : x <= next, e.type \in Numbered,
             NEW x \in Elements(Append(a, Number(e)))
      PROVE  x <= next
  <2>1. PICK n \in Nat : n = Number(e)
    BY <1>6, NumbersAre
  <2>2. x \in Elements(a) \/ x = n
    BY <2>1, ElementsMore
  <2> QED BY <1>6, <2>1, <2>2
<1>7. \A x \in Elements(more.text) : x <= next
  <2>1. more.text = say.text \/ (more.text = Append(say.text, Number(e)) /\ e.type \in Numbered)
    BY DEF Says, Numbered
  <2> QED BY <1>5, <1>6, <2>1 DEF Spoken
<1>8. \A x \in Elements(more.thoughts) : x <= next
  <2>1. \/ more.thoughts = say.thoughts
        \/ (more.thoughts = Append(say.thoughts, Number(e)) /\ e.type \in Numbered)
    BY DEF Says, Numbered, Thinking
  <2> QED BY <1>5, <1>6, <2>1 DEF Spoken
<1>9. \A x \in Elements(more.notes) : x <= next
  <2>1. \/ more.notes = say.notes
        \/ (more.notes = Append(say.notes, Number(e)) /\ e.type \in Numbered)
    BY DEF Says, Numbered, Thinking
  <2> QED BY <1>5, <1>6, <2>1 DEF Spoken
<1>10. \A x \in Elements(more.calls) : x <= next
  <2>1. more.calls = say.calls \/ (more.calls = Append(say.calls, Number(e)) /\ e.type \in Numbered)
    BY DEF Says, Numbered
  <2> QED BY <1>5, <1>6, <2>1 DEF Spoken
<1>11. \A x \in Elements(kept) : x <= next
  BY <1>5
<1> QED BY <1>3, <1>7, <1>8, <1>9, <1>10, <1>11 DEF Below

-----------------------------------------------------------------------------
(* The invariant: what is under way, and what has become of the message.    *)

\* The events under way, the next to be read first.
Flow == pipe \o wire

\* The next item is what was sent of it, or is still to be sent.
OpenItem ==
  /\ open.kind # "reasoning" => open.thoughts = <<>>
  /\ ended = "no" /\ style.done /\ open.kind # "note" =>
       Collects(Flow, Len(Flow) + 1, provider.pending, open.thoughts)

\* Everything under way, where it belongs, while the generation runs.
Flowing ==
  /\ Under(Flow, provider, said, ended)
  /\ Below(Flow, said, open.thoughts, Stream!Produced)
  /\ OpenItem

\* What remains to be said when there is a result, and both queues are empty.
Outcome ==
  /\ Stream!IsPrefix(provider.msg.content, said.text)
  /\ Stream!IsPrefix(provider.msg.calls, said.calls)
  /\ provider.result = "ok" =>
       /\ provider.msg.content = said.text /\ provider.msg.calls = said.calls
       /\ Woven(provider.msg.reasoning, said)
       /\ ended \in Ways => provider.msg.finish = Stream!FinishReason(ended, style.usage)

\* The invariant.
Faithful ==
  /\ StreamInv
  /\ Shown(provider)
  /\ provider.result = "none" => Flowing
  /\ provider.result # "none" => Outcome

\* How much was said is a number.
LEMMA SpokenCounts ==
  ASSUME NEW say, Spoken(say)
  PROVE  Len(say.text) + Len(say.thoughts) + Len(say.notes) + Len(say.calls) \in Nat
<1>1. /\ Len(say.text) \in Nat /\ Len(say.thoughts) \in Nat
      /\ Len(say.notes) \in Nat /\ Len(say.calls) \in Nat
  BY DEF Spoken
<1>2. \A a, b, c, d \in Nat : a + b + c + d \in Nat
  OBVIOUS
<1> QED BY <1>1, <1>2

\* The types of what is under way, said and held.
LEMMA FlowTyped ==
  ASSUME StreamTypes
  PROVE  /\ pipe \in Seq(StreamEvent) /\ wire \in Seq(StreamEvent) /\ Flow \in Seq(StreamEvent)
         /\ Spoken(said) /\ Stream!Produced \in Nat /\ open.thoughts \in Seq(Nat)
         /\ Typed(provider) /\ provider.pending \in Seq(Nat)
<1>1. pipe \in Seq(StreamEvent) /\ wire \in Seq(StreamEvent)
  <2>1. pipe = <<>> \/ \E e \in StreamEvent : pipe = <<e>>
    BY DEF StreamTypes
  <2>2. \A e \in StreamEvent : <<e>> \in Seq(StreamEvent)
    OBVIOUS
  <2>3. <<>> \in Seq(StreamEvent)
    OBVIOUS
  <2> QED BY <2>1, <2>2, <2>3 DEF StreamTypes
<1>2. Flow \in Seq(StreamEvent)
  BY <1>1 DEF Flow
<1>3. Spoken(said) /\ open.thoughts \in Seq(Nat)
  BY DEF StreamTypes, Spoken
<1>4. Stream!Produced \in Nat
  BY <1>3, SpokenCounts DEF Stream!Produced
<1>5. Typed(provider) /\ provider.pending \in Seq(Nat)
  BY DEF StreamTypes, Typed
<1> QED BY <1>1, <1>2, <1>3, <1>4, <1>5

\* A request starts with everything in its place.
LEMMA FaithfulInit == Stream!Init => Faithful
<1> SUFFICES ASSUME Stream!Init PROVE Faithful
  OBVIOUS
<1>1. StreamInv
  BY StreamInit
<1>2. /\ said.text = <<>> /\ said.thoughts = <<>> /\ said.notes = <<>> /\ said.calls = <<>>
      /\ open.thoughts = <<>> /\ pipe = <<>> /\ wire = <<>> /\ ended = "no"
      /\ provider.msg.content = <<>> /\ provider.msg.reasoning = <<>> /\ provider.msg.calls = <<>>
      /\ provider.pending = <<>> /\ provider.chunks = <<>> /\ provider.result = "none"
  BY DEF Stream!Init, Stream!NoItem, Stream!NoMessage
<1>3. provider.textStarted = FALSE /\ provider.reasoningStarted = FALSE
  BY Zenon DEF Stream!Init
<1>4. Flow = <<>> /\ Len(Flow) = 0 /\ DOMAIN Flow = {} /\ <<>> \o <<>> = <<>>
      /\ DOMAIN <<>> = {} /\ <<>> \in Seq(Nat) /\ Elements(<<>>) = {}
  BY <1>2 DEF Flow, Elements
<1>5. \A kinds : Sent(Flow, kinds) = {}
  BY <1>4 DEF Sent
<1>6. Shown(provider)
  <2>1. Displays(provider.chunks, provider.msg.content, provider.msg.calls, <<>>,
                 provider.textStarted, provider.reasoningStarted)
    BY <1>2, <1>3, DisplaysNothing, Zenon
  <2> QED BY <1>2, <1>4, <2>1 DEF Shown
<1>7. Under(Flow, provider, said, ended)
  <2>1. InTurn(Flow) /\ Items(Flow, provider.pending)
    BY <1>4 DEF InTurn, Items
  <2>2. Woven(<<>>, said)
    BY <1>2, <1>4 DEF Woven
  <2> QED BY <1>2, <1>4, <1>5, <2>1, <2>2, LaneStarts DEF Under
<1>8. Below(Flow, said, open.thoughts, Stream!Produced)
  BY <1>2, <1>4 DEF Below
<1>9. OpenItem
  <2>1. Base(Flow, 1, <<>>) = <<>>
    BY DEF Base
  <2>2. Between(Flow, 1) = {}
    BY <1>4 DEF Between
  <2>3. Collects(Flow, Len(Flow) + 1, provider.pending, open.thoughts)
    <3>1. Len(Flow) + 1 = 1
      BY <1>4
    <3>2. Lane(<<>>, <<>>, {}, "item")
      BY LaneStarts
    <3> QED BY <1>2, <2>1, <2>2, <3>1, <3>2 DEF Collects
  <2> QED BY <1>2, <2>3 DEF OpenItem
<1> QED BY <1>1, <1>2, <1>6, <1>7, <1>8, <1>9 DEF Faithful, Flowing

\* The endpoint or the router sends an event.
LEMMA SendFaithful ==
  ASSUME StreamTypes, StreamTypes', Flowing, UNCHANGED <<style, provider>>,
         NEW e \in StreamEvent, Follows(Flow', Flow, e), Says(said, e, said'),
         \A x \in Elements(open'.thoughts) :
           x \in Elements(open.thoughts) \/ x <= Stream!Produced',
         Stream!Produced <= Stream!Produced',
         e.type \in Numbered =>
           Number(e) = Stream!Produced + 1 /\ Number(e) = Stream!Produced' /\ ended # "broken",
         ended # "broken" \/ ended' = "broken",
         IsItem(e) /\ e.content # <<>> =>
           Collects(Flow, Len(Flow) + 1, provider.pending, e.content),
         OpenItem'
  PROVE  Flowing'
<1>1. /\ Flow \in Seq(StreamEvent) /\ Spoken(said) /\ Stream!Produced \in Nat
      /\ open.thoughts \in Seq(Nat) /\ Typed(provider)
  BY FlowTyped
<1>2. Stream!Produced' \in Nat
  <2>1. Spoken(said')
    BY DEF StreamTypes, Spoken
  <2> QED BY <2>1, SpokenCounts DEF Stream!Produced
<1>3. PICK t, more : t = Flow' /\ more = said'
  OBVIOUS
<1>4. Under(Flow, provider, said, ended) /\ Below(Flow, said, open.thoughts, Stream!Produced)
  BY DEF Flowing
<1>5. Follows(t, Flow, e) /\ Says(said, e, more)
  BY <1>3
<1>6. IsItem(e) => /\ e.content \in Seq(Nat)
                   /\ e.content # <<>> =>
                        Collects(Flow, Len(Flow) + 1, provider.pending, e.content)
  BY DEF StreamEvent, IsItem
<1>7. Under(t, provider, more, ended)
  BY <1>1, <1>4, <1>5, <1>6, UnderNext
<1>8. Under(t, provider, more, ended')
  BY <1>7, UnderGoesOn
<1>9. PICK next \in Nat : next = Stream!Produced'
  BY <1>2
<1>12. PICK kept : kept = open'.thoughts
  OBVIOUS
<1>10. Below(t, more, kept, next)
  <2>1. /\ Stream!Produced <= next /\ (e.type \in Numbered => Number(e) <= next)
        /\ \A x \in Elements(kept) : x \in Elements(open.thoughts) \/ x <= next
    BY <1>9, <1>12
  <2> QED BY <1>1, <1>4, <1>5, <1>9, <2>1, BelowNext
<1>11. provider' = provider
  OBVIOUS
<1> QED BY <1>3, <1>8, <1>9, <1>10, <1>11, <1>12 DEF Flowing

\* What the endpoint sends comes last of all that is under way.
LEMMA FlowSends ==
  ASSUME StreamTypes, NEW e \in StreamEvent, pipe' = pipe, wire' = Append(wire, e)
  PROVE  Follows(Flow', Flow, e)
<1>1. pipe \in Seq(StreamEvent) /\ wire \in Seq(StreamEvent)
  BY FlowTyped
<1>2. pipe \o Append(wire, e) = Append(pipe \o wire, e)
  BY <1>1
<1> QED BY <1>2 DEF Follows, Flow

-----------------------------------------------------------------------------
(* What the model says.                                                    *)

\* Nothing is collected for the next item.
LEMMA OpenKept ==
  ASSUME StreamTypes, OpenItem, UNCHANGED <<style, ended, provider>>,
         NEW e \in StreamEvent, Follows(Flow', Flow, e), ~IsItem(e), e.type \notin Thinking,
         open.kind \in {"none", "text"} \/ ~style.done, open'.thoughts = <<>>
  PROVE  OpenItem'
<1>1. Flow \in Seq(StreamEvent) /\ provider.pending \in Seq(Nat) /\ <<>> \in Seq(Nat)
  BY FlowTyped
<1>2. ASSUME ended' = "no", style'.done
      PROVE  Collects(Flow', Len(Flow') + 1, provider'.pending, open'.thoughts)
  <2>1. open.thoughts = <<>> /\ Collects(Flow, Len(Flow) + 1, provider.pending, <<>>)
    BY <1>2 DEF OpenItem
  <2>2. PICK t : t = Flow'
    OBVIOUS
  <2>3. Collects(t, Len(t) + 1, provider.pending, <<>>)
    BY <1>1, <2>1, <2>2, CollectsNext
  <2> QED BY <2>2, <2>3
<1> QED BY <1>2 DEF OpenItem

\* One more piece is produced.
LEMMA Counts ==
  ASSUME StreamTypes
  PROVE  /\ Stream!Produced \in Nat /\ Stream!Produced + 1 \in Nat
         /\ Stream!Produced <= Stream!Produced + 1
         /\ said' = [said EXCEPT !.text = Append(@, Stream!Produced + 1)]
              => Stream!Produced' = Stream!Produced + 1
         /\ said' = [said EXCEPT !.thoughts = Append(@, Stream!Produced + 1)]
              => Stream!Produced' = Stream!Produced + 1
         /\ said' = [said EXCEPT !.notes = Append(@, Stream!Produced + 1)]
              => Stream!Produced' = Stream!Produced + 1
         /\ said' = [said EXCEPT !.calls = Append(@, Stream!Produced + 1)]
              => Stream!Produced' = Stream!Produced + 1
         /\ said' = said => Stream!Produced' = Stream!Produced
<1>1. Spoken(said) /\ Stream!Produced \in Nat
  BY FlowTyped
<1>2. PICK n \in Nat : n = Stream!Produced + 1
  BY <1>1
<1>3. \A s \in Seq(Nat) : Len(Append(s, n)) = Len(s) + 1 /\ Len(s) \in Nat
  OBVIOUS
<1>4. \A a, b, c, d \in Nat : /\ (a + 1) + b + c + d = (a + b + c + d) + 1
                              /\ a + (b + 1) + c + d = (a + b + c + d) + 1
                              /\ a + b + (c + 1) + d = (a + b + c + d) + 1
                              /\ a + b + c + (d + 1) = (a + b + c + d) + 1
  OBVIOUS
<1>5. said = [text |-> said.text, thoughts |-> said.thoughts, notes |-> said.notes,
              calls |-> said.calls]
  BY DEF StreamTypes
<1>6. PICK a \in Nat, b \in Nat, c \in Nat, d \in Nat :
        a = Len(said.text) /\ b = Len(said.thoughts) /\ c = Len(said.notes) /\ d = Len(said.calls)
  BY <1>1, <1>3 DEF Spoken
<1>7. Stream!Produced = a + b + c + d
  BY <1>6 DEF Stream!Produced
<1>8. ASSUME said' = [said EXCEPT !.text = Append(@, n)] PROVE Stream!Produced' = Stream!Produced + 1
  <2>1. /\ Len(said'.text) = a + 1 /\ Len(said'.thoughts) = b /\ Len(said'.notes) = c
        /\ Len(said'.calls) = d
    BY <1>1, <1>3, <1>5, <1>6, <1>8 DEF Spoken
  <2>2. Stream!Produced' = (a + 1) + b + c + d
    BY <2>1 DEF Stream!Produced
  <2> QED BY <1>4, <1>7, <2>2
<1>9. ASSUME said' = [said EXCEPT !.thoughts = Append(@, n)]
      PROVE  Stream!Produced' = Stream!Produced + 1
  <2>1. /\ Len(said'.text) = a /\ Len(said'.thoughts) = b + 1 /\ Len(said'.notes) = c
        /\ Len(said'.calls) = d
    BY <1>1, <1>3, <1>5, <1>6, <1>9 DEF Spoken
  <2>2. Stream!Produced' = a + (b + 1) + c + d
    BY <2>1 DEF Stream!Produced
  <2> QED BY <1>4, <1>7, <2>2
<1>10. ASSUME said' = [said EXCEPT !.notes = Append(@, n)]
       PROVE  Stream!Produced' = Stream!Produced + 1
  <2>1. /\ Len(said'.text) = a /\ Len(said'.thoughts) = b /\ Len(said'.notes) = c + 1
        /\ Len(said'.calls) = d
    BY <1>1, <1>3, <1>5, <1>6, <1>10 DEF Spoken
  <2>2. Stream!Produced' = a + b + (c + 1) + d
    BY <2>1 DEF Stream!Produced
  <2> QED BY <1>4, <1>7, <2>2
<1>11. ASSUME said' = [said EXCEPT !.calls = Append(@, n)]
       PROVE  Stream!Produced' = Stream!Produced + 1
  <2>1. /\ Len(said'.text) = a /\ Len(said'.thoughts) = b /\ Len(said'.notes) = c
        /\ Len(said'.calls) = d + 1
    BY <1>1, <1>3, <1>5, <1>6, <1>11 DEF Spoken
  <2>2. Stream!Produced' = a + b + c + (d + 1)
    BY <2>1 DEF Stream!Produced
  <2> QED BY <1>4, <1>7, <2>2
<1>12. said' = said => Stream!Produced' = Stream!Produced
  BY DEF Stream!Produced
<1>13. Stream!Produced <= Stream!Produced + 1
  BY <1>1
<1> QED BY <1>1, <1>2, <1>8, <1>9, <1>10, <1>11, <1>12, <1>13

\* A piece of text is said: it comes last on its way.
LEMMA SayTextFaithful ==
  ASSUME StreamTypes, StreamTypes', Flowing, Stream!SayText
  PROVE  Flowing'
<1>1. PICK n \in Nat : n = Stream!Produced + 1
  BY Counts
<1>2. PICK e \in StreamEvent : e = [type |-> "text.delta", delta |-> n]
  BY DEF StreamEvent
<1>3. /\ ended = "no"
      /\ open.kind \in {"none", "text"} \/ ~style.done
      /\ open'.thoughts = <<>> /\ wire' = Append(wire, e)
      /\ said' = [said EXCEPT !.text = Append(@, n)]
      /\ UNCHANGED <<style, ended, pipe, provider>>
  BY <1>1, <1>2 DEF Stream!SayText, Stream!Producing, Stream!Sends
<1>4. e.type = "text.delta" /\ Number(e) = n /\ ~IsItem(e) /\ e.type \notin Thinking
  BY <1>2 DEF Number, IsItem, Thinking
<1>5. Follows(Flow', Flow, e)
  BY <1>3, FlowSends
<1>6. OpenItem'
  BY <1>3, <1>4, <1>5, OpenKept DEF Flowing
<1>7. Says(said, e, said')
  <2>1. said = [text |-> said.text, thoughts |-> said.thoughts, notes |-> said.notes,
                calls |-> said.calls]
    BY DEF StreamTypes
  <2> QED BY <1>3, <1>4, <2>1 DEF Says
<1>8. /\ Stream!Produced' = n /\ Stream!Produced <= Stream!Produced'
      /\ \A x \in Elements(open'.thoughts) :
           x \in Elements(open.thoughts) \/ x <= Stream!Produced'
  BY <1>1, <1>3, Counts DEF Elements
<1>9. /\ UNCHANGED <<style, provider>> /\ ended # "broken" /\ ~IsItem(e)
      /\ Number(e) = Stream!Produced + 1 /\ Number(e) = Stream!Produced'
  BY <1>1, <1>3, <1>4, <1>8
<1> QED BY <1>5, <1>6, <1>7, <1>8, <1>9, SendFaithful

\* A call is said: it comes last on its way.
LEMMA SayCallFaithful ==
  ASSUME StreamTypes, StreamTypes', Flowing, Stream!SayCall
  PROVE  Flowing'
<1>1. PICK n \in Nat : n = Stream!Produced + 1
  BY Counts
<1>2. PICK e \in StreamEvent : e = [type |-> "item.call", call |-> n]
  BY DEF StreamEvent
<1>3. /\ ended = "no" /\ open.kind = "none"
      /\ open'.thoughts = <<>> /\ wire' = Append(wire, e)
      /\ said' = [said EXCEPT !.calls = Append(@, n)]
      /\ UNCHANGED <<style, ended, pipe, provider>>
  BY <1>1, <1>2 DEF Stream!SayCall, Stream!Producing, Stream!Sends, Stream!NoItem
<1>4. e.type = "item.call" /\ Number(e) = n /\ ~IsItem(e) /\ e.type \notin Thinking
  BY <1>2 DEF Number, IsItem, Thinking
<1>5. Follows(Flow', Flow, e)
  BY <1>3, FlowSends
<1>6. OpenItem'
  BY <1>3, <1>4, <1>5, OpenKept DEF Flowing
<1>7. Says(said, e, said')
  <2>1. said = [text |-> said.text, thoughts |-> said.thoughts, notes |-> said.notes,
                calls |-> said.calls]
    BY DEF StreamTypes
  <2> QED BY <1>3, <1>4, <2>1 DEF Says
<1>8. /\ Stream!Produced' = n /\ Stream!Produced <= Stream!Produced'
      /\ \A x \in Elements(open'.thoughts) :
           x \in Elements(open.thoughts) \/ x <= Stream!Produced'
  BY <1>1, <1>3, Counts DEF Elements
<1>9. /\ UNCHANGED <<style, provider>> /\ ended # "broken" /\ ~IsItem(e)
      /\ Number(e) = Stream!Produced + 1 /\ Number(e) = Stream!Produced'
  BY <1>1, <1>3, <1>4, <1>8
<1> QED BY <1>5, <1>6, <1>7, <1>8, <1>9, SendFaithful

\* A thought is said: it comes last on its way, and belongs to the open item.
LEMMA SayThoughtFaithful ==
  ASSUME StreamTypes, StreamTypes', Flowing, Stream!SayThought
  PROVE  Flowing'
<1>1. PICK n \in Nat : n = Stream!Produced + 1
  BY Counts
<1>2. PICK e \in StreamEvent : e = [type |-> "reasoning.delta", delta |-> n]
  BY DEF StreamEvent
<1>3. /\ ended = "no"
      /\ open.kind \in {"none", "reasoning"} \/ ~style.done
      /\ open'.kind = "reasoning"
      /\ open'.thoughts = (IF open.kind = "reasoning" THEN Append(open.thoughts, n) ELSE <<n>>)
      /\ wire' = Append(wire, e)
      /\ said' = [said EXCEPT !.thoughts = Append(@, n)]
      /\ UNCHANGED <<style, ended, pipe, provider>>
  BY <1>1, <1>2 DEF Stream!SayThought, Stream!Producing, Stream!Sends
<1>4. e.type = "reasoning.delta" /\ Number(e) = n /\ ~IsItem(e) /\ e.type \in Thinking
  BY <1>2 DEF Number, IsItem, Thinking
<1>5. Follows(Flow', Flow, e)
  BY <1>3, FlowSends
<1>6. /\ Flow \in Seq(StreamEvent) /\ provider.pending \in Seq(Nat)
      /\ open.thoughts \in Seq(Nat) /\ Stream!Produced \in Nat
  BY FlowTyped
<1>7. open'.thoughts = Append(open.thoughts, n)
  <2>1. open.kind # "reasoning" => open.thoughts = <<>>
    BY DEF Flowing, OpenItem
  <2>2. Append(<<>>, n) = <<n>>
    OBVIOUS
  <2> QED BY <1>3, <2>1, <2>2
<1>8. \A x \in Elements(open.thoughts) : x <= Stream!Produced /\ x < n
  <2>1. \A x \in Elements(open.thoughts) : x \in Nat /\ x <= Stream!Produced
    BY <1>6 DEF Flowing, Below, Elements
  <2> QED BY <1>1, <1>6, <2>1
<1>9. OpenItem'
  <2>1. ASSUME style.done PROVE Collects(Flow', Len(Flow') + 1, provider'.pending, open'.thoughts)
    <3>1. Collects(Flow, Len(Flow) + 1, provider.pending, open.thoughts)
      BY <1>3, <2>1 DEF Flowing, OpenItem
    <3>2. PICK t : t = Flow'
      OBVIOUS
    <3>3. Collects(t, Len(t) + 1, provider.pending, Append(open.thoughts, Number(e)))
      BY <1>4, <1>5, <1>6, <1>8, <3>1, <3>2, CollectsNext
    <3> QED BY <1>3, <1>4, <1>7, <3>2, <3>3
  <2> QED BY <1>3, <2>1 DEF OpenItem
<1>10. Says(said, e, said')
  <2>1. said = [text |-> said.text, thoughts |-> said.thoughts, notes |-> said.notes,
                calls |-> said.calls]
    BY DEF StreamTypes
  <2> QED BY <1>3, <1>4, <2>1 DEF Says
<1>11. Stream!Produced' = n /\ Stream!Produced <= Stream!Produced'
  BY <1>1, <1>3, Counts
<1>12. \A x \in Elements(open'.thoughts) :
         x \in Elements(open.thoughts) \/ x <= Stream!Produced'
  BY <1>1, <1>6, <1>7, <1>11, ElementsMore
<1>13. /\ UNCHANGED <<style, provider>> /\ ended # "broken" /\ ~IsItem(e)
       /\ Number(e) = Stream!Produced + 1 /\ Number(e) = Stream!Produced'
  BY <1>1, <1>3, <1>4, <1>11
<1> QED BY <1>5, <1>9, <1>10, <1>11, <1>12, <1>13, SendFaithful

\* A piece of a summary is said: it comes last on its way, and the item does not hold it.
LEMMA SayNoteFaithful ==
  ASSUME StreamTypes, StreamTypes', Flowing, Stream!SayNote
  PROVE  Flowing'
<1>1. PICK n \in Nat : n = Stream!Produced + 1
  BY Counts
<1>2. PICK e \in StreamEvent : e = [type |-> "summary.delta", delta |-> n]
  BY DEF StreamEvent
<1>3. /\ ended = "no" /\ open'.kind = "note" /\ open'.thoughts = <<>>
      /\ wire' = Append(wire, e)
      /\ said' = [said EXCEPT !.notes = Append(@, n)]
      /\ UNCHANGED <<style, ended, pipe, provider>>
  BY <1>1, <1>2 DEF Stream!SayNote, Stream!Producing, Stream!Sends
<1>4. e.type = "summary.delta" /\ Number(e) = n /\ ~IsItem(e)
  BY <1>2 DEF Number, IsItem
<1>5. Follows(Flow', Flow, e)
  BY <1>3, FlowSends
<1>6. OpenItem'
  BY <1>3 DEF OpenItem
<1>7. Says(said, e, said')
  <2>1. said = [text |-> said.text, thoughts |-> said.thoughts, notes |-> said.notes,
                calls |-> said.calls]
    BY DEF StreamTypes
  <2> QED BY <1>3, <1>4, <2>1 DEF Says
<1>8. /\ Stream!Produced' = n /\ Stream!Produced <= Stream!Produced'
      /\ \A x \in Elements(open'.thoughts) :
           x \in Elements(open.thoughts) \/ x <= Stream!Produced'
  BY <1>1, <1>3, Counts DEF Elements
<1>9. /\ UNCHANGED <<style, provider>> /\ ended # "broken" /\ ~IsItem(e)
      /\ Number(e) = Stream!Produced + 1 /\ Number(e) = Stream!Produced'
  BY <1>1, <1>3, <1>4, <1>8
<1> QED BY <1>5, <1>6, <1>7, <1>8, <1>9, SendFaithful

-----------------------------------------------------------------------------
(* What says nothing.                                                      *)

\* An event without a piece changes nothing that is under way, if it is an item that holds
\* what was collected for it, or no item.
LEMMA EventFaithful ==
  ASSUME StreamTypes, StreamTypes', Flowing, UNCHANGED <<style, said, provider>>,
         open'.thoughts = open.thoughts \/ open'.thoughts = <<>>,
         NEW e \in StreamEvent, Follows(Flow', Flow, e), e.type \notin Numbered,
         ended # "broken" \/ ended' = "broken",
         IsItem(e) /\ e.content # <<>> =>
           Collects(Flow, Len(Flow) + 1, provider.pending, e.content),
         OpenItem'
  PROVE  Flowing'
<1>1. Says(said, e, said')
  BY DEF Says, Numbered, Thinking
<1>2. Stream!Produced' = Stream!Produced /\ Stream!Produced <= Stream!Produced'
  BY Counts
<1>3. \A x \in Elements(open'.thoughts) :
        x \in Elements(open.thoughts) \/ x <= Stream!Produced'
  BY DEF Elements
<1>4. UNCHANGED <<style, provider>>
  OBVIOUS
<1> QED BY <1>1, <1>2, <1>3, <1>4, SendFaithful

\* The end of a text carries no piece.
LEMMA EndTextFaithful ==
  ASSUME StreamTypes, StreamTypes', Flowing, Stream!EndText
  PROVE  Flowing'
<1>1. PICK e \in StreamEvent : e = [type |-> "text.done"]
  BY DEF StreamEvent
<1>2. /\ ended = "no" /\ open.kind = "text" /\ open'.thoughts = <<>> /\ wire' = Append(wire, e)
      /\ UNCHANGED <<style, said, ended, pipe, provider>>
  BY <1>1 DEF Stream!EndText, Stream!Sends, Stream!NoItem
<1>3. ~IsItem(e) /\ e.type \notin Thinking /\ e.type \notin Numbered
  BY <1>1 DEF IsItem, Thinking, Numbered
<1>4. Follows(Flow', Flow, e)
  BY <1>2, FlowSends
<1>5. OpenItem'
  BY <1>2, <1>3, <1>4, OpenKept DEF Flowing
<1> QED BY <1>2, <1>3, <1>4, <1>5, EventFaithful

\* The item that ends holds what was collected for it, or nothing.
LEMMA EndReasoningFaithful ==
  ASSUME StreamTypes, StreamTypes', Flowing, Stream!EndReasoning
  PROVE  Flowing'
<1>1. PICK content \in Seq(Nat) : content = IF style.content THEN open.thoughts ELSE <<>>
  <2>1. open.thoughts \in Seq(Nat) /\ <<>> \in Seq(Nat)
    BY FlowTyped
  <2> QED BY <2>1
<1>2. PICK e \in StreamEvent : e = [type |-> "item.reasoning", content |-> content]
  BY DEF StreamEvent
<1>3. /\ ended = "no" /\ style.done /\ open.kind \in {"reasoning", "note"}
      /\ open'.thoughts = <<>> /\ wire' = Append(wire, e)
      /\ UNCHANGED <<style, said, ended, pipe, provider>>
  BY <1>1, <1>2 DEF Stream!EndReasoning, Stream!Sends, Stream!NoItem
<1>4. IsItem(e) /\ e.type \notin Numbered /\ e.content = content
  BY <1>2 DEF IsItem, Thinking, Numbered
<1>5. Follows(Flow', Flow, e)
  BY <1>3, FlowSends
<1>6. Flow \in Seq(StreamEvent) /\ provider.pending \in Seq(Nat) /\ <<>> \in Seq(Nat)
  BY FlowTyped
<1>7. OpenItem'
  <2>1. PICK t : t = Flow'
    OBVIOUS
  <2>2. Collects(t, Len(t) + 1, provider.pending, <<>>)
    BY <1>4, <1>5, <1>6, <2>1, CollectsNext
  <2> QED BY <1>3, <2>1, <2>2 DEF OpenItem
<1>8. content # <<>> => Collects(Flow, Len(Flow) + 1, provider.pending, content)
  BY <1>1, <1>3 DEF Flowing, OpenItem
<1> QED BY <1>3, <1>4, <1>5, <1>7, <1>8, EventFaithful

\* Nothing is sent or taken.
LEMMA QuietFaithful ==
  ASSUME StreamTypes, Flowing, UNCHANGED <<style, said, open, provider>>, Flow' = Flow,
         ended # "broken" \/ ended' = "broken", ended' = ended \/ ended' # "no"
  PROVE  Flowing'
<1>1. Under(Flow, provider, said, ended')
  BY UnderGoesOn DEF Flowing
<1>2. Under(Flow', provider', said', ended')
  BY <1>1
<1>3. Stream!Produced' = Stream!Produced
  BY Counts
<1>4. Below(Flow', said', open'.thoughts, Stream!Produced')
  BY <1>3 DEF Flowing
<1>5. OpenItem'
  BY DEF Flowing, OpenItem
<1> QED BY <1>2, <1>4, <1>5 DEF Flowing

\* The end of a response carries no piece.
LEMMA FinishFaithful ==
  ASSUME StreamTypes, StreamTypes', Flowing, Stream!Finish
  PROVE  Flowing'
<1>1. ended = "no" /\ ended' # "no" /\ UNCHANGED <<style, said, open, pipe, provider>>
  BY DEF Stream!Finish
<1>2. OpenItem'
  BY <1>1 DEF Flowing, OpenItem
<1>3. CASE style.terminal
  <2>1. PICK how \in Ways : wire' = Append(wire, [type |-> "terminal", how |-> how])
    BY <1>3 DEF Stream!Finish, Stream!Sends, Ways
  <2>2. PICK e \in StreamEvent : e = [type |-> "terminal", how |-> how]
    BY DEF StreamEvent
  <2>3. Follows(Flow', Flow, e)
    BY <1>1, <2>1, <2>2, FlowSends
  <2>4. ~IsItem(e) /\ e.type \notin Numbered
    BY <2>2 DEF IsItem, Thinking, Numbered
  <2> QED BY <1>1, <1>2, <2>3, <2>4, EventFaithful
<1>4. CASE ~style.terminal
  <2>1. Flow' = Flow
    BY <1>1, <1>4 DEF Stream!Finish, Flow
  <2> QED BY <1>1, <2>1, QuietFaithful
<1> QED BY <1>3, <1>4

\* A refusal sends no event.
LEMMA RefuseFaithful ==
  ASSUME StreamTypes, Flowing, Stream!Refuse
  PROVE  Flowing'
<1>1. ended = "no" /\ ended' # "no" /\ UNCHANGED <<style, said, open, wire, pipe, provider>>
  BY DEF Stream!Refuse
<1>2. Flow' = Flow
  BY <1>1 DEF Flow
<1> QED BY <1>1, <1>2, QuietFaithful

\* A stream that fails before its first event has nothing under way.
LEMMA PrefetchFaithful ==
  ASSUME StreamTypes, Flowing, Stream!PrefetchFails
  PROVE  Flowing'
<1>1. UNCHANGED <<style, said, open, ended, wire, pipe, provider>>
  BY DEF Stream!PrefetchFails
<1>2. Flow' = Flow
  BY <1>1 DEF Flow
<1> QED BY <1>1, <1>2, QuietFaithful

\* The router passes events on in their order.
LEMMA ForwardFaithful ==
  ASSUME StreamTypes, Flowing, Stream!Forward
  PROVE  Flowing'
<1>1. /\ wire # <<>> /\ pipe = <<>> /\ pipe' = <<Head(wire)>> /\ wire' = Tail(wire)
      /\ UNCHANGED <<style, said, open, ended, provider>>
  BY DEF Stream!Forward
<1>2. wire \in Seq(StreamEvent)
  BY FlowTyped
<1>3. <<Head(wire)>> \o Tail(wire) = <<>> \o wire
  BY <1>1, <1>2
<1>4. Flow' = Flow
  BY <1>1, <1>3 DEF Flow
<1> QED BY <1>1, <1>4, QuietFaithful

\* The closing event comes behind everything else.
LEMMA CloseFaithful ==
  ASSUME StreamTypes, StreamTypes', Flowing, Stream!CloseStream
  PROVE  Flowing'
<1>1. PICK kind \in {"end", "error"} : kind = Stream!ClosingEvent
  BY DEF Stream!ClosingEvent
<1>2. PICK e \in StreamEvent : e = [type |-> kind]
  BY DEF StreamEvent
<1>3. /\ wire = <<>> /\ pipe = <<>> /\ pipe' = <<e>> /\ ended # "no"
      /\ UNCHANGED <<style, said, open, ended, wire, provider>>
  BY <1>1, <1>2 DEF Stream!CloseStream
<1>4. ~IsItem(e) /\ e.type \notin Numbered
  BY <1>2 DEF IsItem, Thinking, Numbered
<1>5. Follows(Flow', Flow, e)
  <2>1. <<e>> \o <<>> = Append(<<>> \o <<>>, e)
    OBVIOUS
  <2> QED BY <1>3, <2>1 DEF Follows, Flow
<1>6. OpenItem'
  BY <1>3 DEF Flowing, OpenItem
<1> QED BY <1>3, <1>4, <1>5, <1>6, EventFaithful

\* A connection that breaks loses the last events on the way, and no others.
LEMMA BreakFaithful ==
  ASSUME StreamTypes, Flowing, Stream!Break
  PROVE  Flowing'
<1>1. ended' = "broken" /\ wire' = <<>> /\ UNCHANGED <<style, said, open, pipe, provider>>
  BY DEF Stream!Break
<1>2. pipe \in Seq(StreamEvent) /\ wire \in Seq(StreamEvent) /\ Flow \in Seq(StreamEvent)
  BY FlowTyped
<1>3. Flow = pipe \o wire
  BY DEF Flow
<1>4. Flow' = pipe
  BY <1>1, <1>2 DEF Flow
<1>5. Under(pipe, provider, said, "broken")
  BY <1>2, <1>3, UnderBreaks DEF Flowing
<1>6. Stream!Produced' = Stream!Produced
  BY <1>1, Counts
<1>7. Below(pipe, said, open.thoughts, Stream!Produced)
  <2>1. \A i \in DOMAIN pipe : i \in DOMAIN Flow /\ Flow[i] = pipe[i]
    BY <1>2, <1>3
  <2> QED BY <2>1 DEF Flowing, Below
<1>8. OpenItem'
  BY <1>1 DEF Flowing, OpenItem
<1> QED BY <1>1, <1>4, <1>5, <1>6, <1>7, <1>8 DEF Flowing

-----------------------------------------------------------------------------
(* The provider handles what it reads.                                     *)

\* Whatever is under way, what has arrived are the first pieces of what was said.
LEMMA ArrivedFirst ==
  ASSUME NEW flow, NEW p, Typed(p), NEW say, Spoken(say), NEW way, Under(flow, p, say, way)
  PROVE  /\ Stream!IsPrefix(p.msg.content, say.text)
         /\ Stream!IsPrefix(p.msg.calls, say.calls)
<1>1. /\ p.msg.content \in Seq(Nat) /\ p.msg.calls \in Seq(Nat)
      /\ say.text \in Seq(Nat) /\ say.calls \in Seq(Nat)
  BY DEF Typed, Spoken
<1>2. /\ Lane(p.msg.content, say.text, Sent(flow, {"text.delta"}), way)
      /\ Lane(p.msg.calls, say.calls, Sent(flow, {"item.call"}), way)
  BY DEF Under
<1> QED BY <1>1, <1>2, LaneArrived DEF Stream!IsPrefix

\* An event is read that is neither the end nor an error.
LEMMA ReadFaithful ==
  ASSUME StreamTypes, StreamTypes', Flowing, Shown(provider), provider.result = "none",
         NEW e \in StreamEvent, Leads(Flow, e, wire), e.type \notin {"end", "error"},
         provider' = Stream!Handled(provider, e), Flow' = wire,
         UNCHANGED <<style, said, open, ended>>
  PROVE  /\ Shown(provider') /\ provider'.result # "ok" /\ Flowing'
         /\ Stream!IsPrefix(provider'.msg.content, said'.text)
         /\ Stream!IsPrefix(provider'.msg.calls, said'.calls)
<1>1. /\ Flow \in Seq(StreamEvent) /\ wire \in Seq(StreamEvent) /\ Spoken(said)
      /\ open.thoughts \in Seq(Nat) /\ Typed(provider)
  BY FlowTyped
<1>2. Under(Flow, provider, said, ended) /\ Below(Flow, said, open.thoughts, Stream!Produced)
  BY DEF Flowing
<1>3. PICK q : q = provider'
  OBVIOUS
<1>4. q = Stream!Handled(provider, e) /\ Typed(q)
  BY <1>1, <1>3, HandledTyped
<1>5. PICK f : f = Flow
  OBVIOUS
<1>6. Under(f, provider, said, ended) /\ Leads(f, e, wire)
  BY <1>2, <1>5
<1>7. /\ Under(wire, q, said, ended)
      /\ IsItem(e) => e.content = <<>> \/ e.content = provider.pending
      /\ \A thoughts \in Seq(Nat) :
           Collects(f, Len(f) + 1, provider.pending, thoughts) =>
             Collects(wire, Len(wire) + 1, q.pending, thoughts)
  BY <1>1, <1>4, <1>6, UnderRead
<1>8. Shown(q)
  BY <1>1, <1>4, <1>7, HandledShown
<1>9. q.result # "ok"
  <2>1. CASE e.type = "terminal"
    <3>1. q = Stream!OnTerminal(provider, e.how)
      BY <1>4, <2>1 DEF Stream!Handled
    <3>2. q.result = IF e.how = "failed" THEN "error" ELSE provider.result
      BY <1>1, <3>1, OnTerminalIs DEF Typed, Has
    <3> QED BY <3>2
  <2>2. CASE e.type # "terminal"
    <3>1. e.type \in {"text.delta", "text.done", "reasoning.delta", "summary.delta",
                      "item.reasoning", "item.call"}
      BY <2>2 DEF StreamEvent
    <3> QED BY <1>1, <1>4, <3>1, HandledQuietly
  <2> QED BY <2>1, <2>2
<1>10. Below(wire, said, open.thoughts, Stream!Produced)
  <2>1. \A i \in DOMAIN wire : i + 1 \in DOMAIN f /\ f[i + 1] = wire[i]
    <3>1. /\ DOMAIN f = 1 .. Len(wire) + 1 /\ DOMAIN wire = 1 .. Len(wire) /\ Len(wire) \in Nat
          /\ \A i \in 1 .. Len(wire) : f[i + 1] = wire[i]
      BY <1>1, <1>6, PrependedIs
    <3> QED BY <3>1
  <2> QED BY <1>2, <1>5, <2>1 DEF Below
<1>11. Stream!Produced' = Stream!Produced
  BY Counts
<1>12. OpenItem'
  <2>1. open.kind # "reasoning" => open.thoughts = <<>>
    BY DEF Flowing, OpenItem
  <2>2. ASSUME ended = "no", style.done, open.kind # "note"
        PROVE  Collects(wire, Len(wire) + 1, q.pending, open.thoughts)
    <3>1. Collects(Flow, Len(Flow) + 1, provider.pending, open.thoughts)
      BY <2>2 DEF Flowing, OpenItem
    <3> QED BY <1>1, <1>5, <1>7, <3>1
  <2> QED BY <1>3, <2>1, <2>2 DEF OpenItem
<1>13. Flowing'
  BY <1>3, <1>7, <1>10, <1>11, <1>12 DEF Flowing
<1>14. Stream!IsPrefix(q.msg.content, said.text) /\ Stream!IsPrefix(q.msg.calls, said.calls)
  BY <1>1, <1>4, <1>7, ArrivedFirst
<1> QED BY <1>3, <1>8, <1>9, <1>13, <1>14

\* The stream is over, or the caller has cancelled it.
LEMMA EndKeeps ==
  ASSUME StreamTypes, Flowing, Shown(provider), provider.result = "none",
         NEW failed \in BOOLEAN, NEW q, q = Stream!OnEnd(provider, failed)
  PROVE  /\ Shown(q) /\ q.result = IF failed THEN "error" ELSE "ok"
         /\ q.msg.content = provider.msg.content /\ q.msg.calls = provider.msg.calls
         /\ q.msg.reasoning = provider.msg.reasoning \o provider.pending
         /\ q.msg.finish = EndReason(provider.msg.finish, failed)
         /\ Stream!IsPrefix(q.msg.content, said.text)
         /\ Stream!IsPrefix(q.msg.calls, said.calls)
<1>1. Typed(provider) /\ Spoken(said)
  BY FlowTyped
<1>2. Typed(q)
  BY <1>1, OnEndTyped
<1>3. Shown(q)
  BY <1>1, <1>2, EndShown
<1>4. Has(q, provider.msg.content, provider.msg.reasoning \o provider.pending,
             provider.msg.calls, EndReason(provider.msg.finish, failed), provider.pending,
             IF failed THEN "error" ELSE "ok")
  BY <1>1, OnEndIs DEF Typed
<1>5. /\ Stream!IsPrefix(provider.msg.content, said.text)
      /\ Stream!IsPrefix(provider.msg.calls, said.calls)
  BY <1>1, ArrivedFirst DEF Flowing
<1> QED BY <1>3, <1>4, <1>5 DEF Has

\* A stream that ends without an error has lost nothing: when the closing event is read,
\* nothing else is under way.
LEMMA EndFaithful ==
  ASSUME StreamTypes, EndTold, Flowing, Shown(provider), provider.result = "none",
         NEW e \in StreamEvent, pipe = <<e>>, e.type = "end",
         provider' = Stream!OnEnd(provider, FALSE), UNCHANGED <<style, said, ended>>
  PROVE  Shown(provider') /\ provider'.result = "ok" /\ Outcome'
<1>1. /\ Flow \in Seq(StreamEvent) /\ wire \in Seq(StreamEvent) /\ Spoken(said)
      /\ Typed(provider)
  BY FlowTyped
<1>2. wire = <<>> /\ ended \notin {"no", "broken"} /\ pipe # <<>> /\ pipe[1] = e
  BY DEF EndTold
<1>3. PICK q : q = provider'
  OBVIOUS
<1>4. PICK no \in BOOLEAN : no = FALSE
  OBVIOUS
<1>5. q = Stream!OnEnd(provider, no)
  BY <1>3, <1>4, Zenon
<1>6. /\ Shown(q) /\ q.result = IF no THEN "error" ELSE "ok"
      /\ q.msg.content = provider.msg.content /\ q.msg.calls = provider.msg.calls
      /\ q.msg.reasoning = provider.msg.reasoning \o provider.pending
      /\ q.msg.finish = EndReason(provider.msg.finish, no)
      /\ Stream!IsPrefix(q.msg.content, said.text)
      /\ Stream!IsPrefix(q.msg.calls, said.calls)
  BY <1>5, EndKeeps
<1>7. Flow = <<e>> /\ DOMAIN Flow = {1} /\ Flow[1] = e
  <2>1. <<e>> \o <<>> = <<e>>
    OBVIOUS
  <2> QED BY <1>2, <2>1 DEF Flow
<1>8. Sent(Flow, {"text.delta"}) = {} /\ Sent(Flow, {"item.call"}) = {} /\ Sent(Flow, Thinking) = {}
  BY <1>7 DEF Sent, Thinking
<1>9. Under(Flow, provider, said, ended)
  BY DEF Flowing
<1>10. /\ provider.msg.content \in Seq(Nat) /\ provider.msg.calls \in Seq(Nat)
       /\ provider.msg.reasoning \o provider.pending \in Seq(Nat)
       /\ said.text \in Seq(Nat) /\ said.calls \in Seq(Nat)
  BY <1>1 DEF Typed, Spoken
<1>11. provider.msg.content = said.text /\ provider.msg.calls = said.calls
  <2>1. Lane(provider.msg.content, said.text, {}, ended) /\ Lane(provider.msg.calls, said.calls, {}, ended)
    BY <1>8, <1>9 DEF Under
  <2> QED BY <1>2, <1>10, <2>1, LaneArrived
<1>12. Woven(provider.msg.reasoning \o provider.pending, said)
  <2>1. PICK whole \in Seq(Nat) :
          Woven(whole, said) /\ Lane(provider.msg.reasoning \o provider.pending, whole, {}, ended)
    BY <1>8, <1>9 DEF Under
  <2>2. provider.msg.reasoning \o provider.pending = whole
    <3>1. PICK got \in Seq(Nat) : got = provider.msg.reasoning \o provider.pending
      BY <1>10
    <3>2. Lane(got, whole, {}, ended)
      BY <2>1, <3>1
    <3>3. got = whole
      BY <1>2, <3>2, LaneArrived
    <3> QED BY <3>1, <3>3
  <2> QED BY <2>1, <2>2
<1>13. ASSUME ended \in Ways PROVE q.msg.finish = Stream!FinishReason(ended, style.usage)
  <2>1. HasTold(ended)
    BY <1>2, <1>13 DEF EndTold, Announced, Ends
  <2>2. provider.msg.finish = Stream!FinishReason(ended, style.usage)
    BY <2>1 DEF HasTold
  <2>3. provider.msg.finish # ""
    BY <2>2 DEF Stream!FinishReason
  <2> QED BY <1>4, <1>6, <2>2, <2>3 DEF EndReason
<1>14. q.result = "ok"
  BY <1>4, <1>6
<1> QED BY <1>3, <1>6, <1>11, <1>12, <1>13, <1>14 DEF Outcome

\* A stream that fails or is cancelled keeps a part from the front of what was said.
LEMMA FailFaithful ==
  ASSUME StreamTypes, Flowing, Shown(provider), provider.result = "none",
         provider' = Stream!OnEnd(provider, TRUE), UNCHANGED said
  PROVE  Shown(provider') /\ provider'.result = "error" /\ Outcome'
<1>1. PICK q : q = provider'
  OBVIOUS
<1>2. PICK yes \in BOOLEAN : yes = TRUE
  OBVIOUS
<1>3. q = Stream!OnEnd(provider, yes)
  BY <1>1, <1>2, Zenon
<1>4. /\ Shown(q) /\ q.result = IF yes THEN "error" ELSE "ok"
      /\ Stream!IsPrefix(q.msg.content, said.text)
      /\ Stream!IsPrefix(q.msg.calls, said.calls)
  BY <1>3, EndKeeps
<1>5. q.result = "error"
  BY <1>2, <1>4
<1> QED BY <1>1, <1>4, <1>5 DEF Outcome

\* A request that is refused keeps a part from the front as well: nothing.
LEMMA RefusedFaithful ==
  ASSUME StreamTypes, Flowing, Shown(provider), provider.result = "none",
         provider' = [provider EXCEPT !.result = "refused"], UNCHANGED said
  PROVE  Shown(provider') /\ provider'.result = "refused" /\ Outcome'
<1>1. Typed(provider) /\ Spoken(said)
  BY FlowTyped
<1>2. PICK q : q = provider'
  OBVIOUS
<1>3. Typed(q)
  BY <1>1, <1>2, RefusedTyped
<1>4. q = [msg |-> provider.msg, textStarted |-> provider.textStarted,
           reasoningStarted |-> provider.reasoningStarted, pending |-> provider.pending,
           chunks |-> provider.chunks, result |-> "refused"]
  BY <1>1, <1>2 DEF Typed, Shaped
<1>5. /\ q.msg = provider.msg /\ q.pending = provider.pending /\ q.chunks = provider.chunks
      /\ q.result = "refused"
  BY <1>4
<1>6. q.textStarted = provider.textStarted /\ q.reasoningStarted = provider.reasoningStarted
  BY <1>4
<1>7. PICK thought \in Seq(Nat) :
        Displays(provider.chunks, provider.msg.content, provider.msg.calls, thought,
                 provider.textStarted, provider.reasoningStarted)
  BY <1>1, ShownNow
<1>8. Displays(q.chunks, q.msg.content, q.msg.calls, thought, q.textStarted, q.reasoningStarted)
  BY <1>5, <1>6, <1>7, Zenon
<1>9. \A piece \in Elements(q.msg.reasoning) \cup Elements(q.pending) : Displayed(q.chunks, piece)
  BY <1>5 DEF Shown
<1>10. Shown(q)
  BY <1>5, <1>7, <1>8, <1>9 DEF Shown
<1>11. /\ Stream!IsPrefix(provider.msg.content, said.text)
       /\ Stream!IsPrefix(provider.msg.calls, said.calls)
  BY <1>1, ArrivedFirst DEF Flowing
<1> QED BY <1>2, <1>5, <1>10, <1>11 DEF Outcome

-----------------------------------------------------------------------------
(* Every step.                                                             *)

\* The endpoint and the router leave the provider alone and keep what is under way in order.
LEMMA SaidFaithful ==
  ASSUME Faithful, Stream!Running, StreamTypes',
         Stream!Endpoint \/ Stream!PrefetchFails \/ Stream!Forward \/ Stream!CloseStream
  PROVE  Flowing' /\ UNCHANGED provider
<1>1. StreamTypes /\ Flowing
  BY DEF Faithful, StreamInv, Stream!Running
<1>2. UNCHANGED provider
  BY DEF Stream!Endpoint, Stream!SayText, Stream!EndText, Stream!SayThought, Stream!SayNote,
         Stream!EndReasoning, Stream!SayCall, Stream!Finish, Stream!Refuse, Stream!Break,
         Stream!PrefetchFails, Stream!Forward, Stream!CloseStream
<1>3. Flowing'
  BY <1>1, SayTextFaithful, EndTextFaithful, SayThoughtFaithful, SayNoteFaithful,
     EndReasoningFaithful, SayCallFaithful, FinishFaithful, RefuseFaithful, BreakFaithful,
     PrefetchFaithful, ForwardFaithful, CloseFaithful DEF Stream!Endpoint
<1> QED BY <1>2, <1>3

\* Whatever the provider handles, what it shows, keeps and still expects agree.
LEMMA HandleFaithful ==
  ASSUME Faithful, Stream!HandleEvent, StreamTypes'
  PROVE  /\ Shown(provider')
         /\ provider'.result = "none" => Flowing'
         /\ provider'.result # "none" => Outcome'
<1>1. /\ StreamTypes /\ EndTold /\ Flowing /\ Shown(provider) /\ provider.result = "none"
      /\ pipe # <<>>
  BY DEF Faithful, StreamInv, Stream!HandleEvent, Stream!Running
<1>2. PICK e \in StreamEvent : pipe = <<e>>
  BY <1>1 DEF StreamTypes
<1>3. Head(pipe) = e /\ Tail(pipe) = <<>>
  BY <1>2
<1>4. /\ provider' = Stream!Handled(provider, e) /\ pipe' = <<>>
      /\ UNCHANGED <<style, said, open, ended, wire>>
  BY <1>3 DEF Stream!HandleEvent
<1>5. wire \in Seq(StreamEvent)
  BY <1>1, FlowTyped
<1>6. Leads(Flow, e, wire)
  BY <1>2 DEF Leads, Flow
<1>7. Flow' = wire
  BY <1>4, <1>5 DEF Flow
<1>8. CASE e.type \notin {"end", "error"}
  <2>1. /\ Shown(provider') /\ provider'.result # "ok" /\ Flowing'
        /\ Stream!IsPrefix(provider'.msg.content, said'.text)
        /\ Stream!IsPrefix(provider'.msg.calls, said'.calls)
    BY <1>1, <1>4, <1>6, <1>7, <1>8, ReadFaithful
  <2> QED BY <2>1 DEF Outcome
<1>9. CASE e.type = "end"
  <2>1. provider' = Stream!OnEnd(provider, FALSE)
    BY <1>4, <1>9 DEF Stream!Handled
  <2> QED BY <1>1, <1>2, <1>4, <1>9, <2>1, EndFaithful
<1>10. CASE e.type = "error"
  <2>1. provider' = Stream!OnEnd(provider, TRUE)
    BY <1>4, <1>10 DEF Stream!Handled
  <2> QED BY <1>1, <1>4, <2>1, FailFaithful
<1> QED BY <1>8, <1>9, <1>10

\* Every step keeps the invariant.
LEMMA FaithfulStep == Faithful /\ [Stream!Next]_Stream!vars => Faithful'
<1> SUFFICES ASSUME Faithful, [Stream!Next]_Stream!vars PROVE Faithful'
  OBVIOUS
<1>1. StreamInv' /\ StreamTypes' /\ StreamTypes
  BY StreamStep DEF Faithful, StreamInv
<1>2. CASE UNCHANGED Stream!vars
  <2>1. UNCHANGED <<style, said, open, ended, wire, pipe, provider>>
    BY <1>2 DEF Stream!vars
  <2>2. Flowing => Flowing'
    BY <2>1, Counts, <1>1 DEF Flowing, Flow, OpenItem
  <2>3. Outcome => Outcome'
    BY <2>1 DEF Outcome
  <2> QED BY <1>1, <2>1, <2>2, <2>3 DEF Faithful
<1>3. CASE Stream!Running /\ (Stream!Endpoint \/ Stream!PrefetchFails \/ Stream!Forward
                                \/ Stream!CloseStream)
  <2>1. Flowing' /\ UNCHANGED provider
    BY <1>1, <1>3, SaidFaithful
  <2> QED BY <1>1, <1>3, <2>1 DEF Faithful, Stream!Running
<1>4. CASE Stream!HandleEvent
  BY <1>1, <1>4, HandleFaithful DEF Faithful
<1>5. ASSUME Stream!Running PROVE Flowing /\ Shown(provider) /\ provider.result = "none"
  BY <1>5 DEF Faithful, Stream!Running
<1>6. CASE Stream!HandleRefusal
  <2>1. /\ Stream!Running /\ provider' = [provider EXCEPT !.result = "refused"]
        /\ UNCHANGED said
    BY <1>6 DEF Stream!HandleRefusal
  <2>2. Shown(provider') /\ provider'.result = "refused" /\ Outcome'
    BY <1>1, <1>5, <2>1, RefusedFaithful
  <2> QED BY <1>1, <2>2 DEF Faithful
<1>7. CASE Stream!Cancel /\ reply = "ok"
  <2>1. Stream!Running /\ provider' = Stream!OnEnd(provider, TRUE) /\ UNCHANGED said
    BY <1>7 DEF Stream!Cancel
  <2>2. Shown(provider') /\ provider'.result = "error" /\ Outcome'
    BY <1>1, <1>5, <2>1, FailFaithful
  <2> QED BY <1>1, <2>2 DEF Faithful
<1>8. CASE Stream!Cancel /\ reply # "ok"
  <2>1. /\ Stream!Running /\ provider' = [provider EXCEPT !.result = "refused"]
        /\ UNCHANGED said
    BY <1>8 DEF Stream!Cancel
  <2>2. Shown(provider') /\ provider'.result = "refused" /\ Outcome'
    BY <1>1, <1>5, <2>1, RefusedFaithful
  <2> QED BY <1>1, <2>2 DEF Faithful
<1>9. CASE Stream!Done
  BY <1>2, <1>9 DEF Stream!Done
<1> QED BY <1>2, <1>3, <1>4, <1>6, <1>7, <1>8, <1>9 DEF Stream!Next

-----------------------------------------------------------------------------
(* What the invariant says of the message.                                 *)

\* The pieces of two joined texts are those of both.
LEMMA ElementsOfBoth ==
  ASSUME NEW s \in Seq(Nat), NEW t \in Seq(Nat)
  PROVE  Elements(s \o t) = Elements(s) \cup Elements(t)
<1>1. PICK u : u = s \o t
  OBVIOUS
<1>2. /\ Len(s) \in Nat /\ Len(t) \in Nat /\ DOMAIN u = 1 .. Len(s) + Len(t)
      /\ DOMAIN s = 1 .. Len(s) /\ DOMAIN t = 1 .. Len(t)
      /\ \A i \in 1 .. Len(s) + Len(t) : u[i] = IF i <= Len(s) THEN s[i] ELSE t[i - Len(s)]
  BY <1>1
<1>3. ASSUME NEW x \in Elements(s) PROVE x \in Elements(u)
  <2>1. PICK i \in DOMAIN s : x = s[i]
    BY DEF Elements
  <2>2. i \in DOMAIN u /\ u[i] = x
    BY <1>2, <2>1
  <2> QED BY <2>2 DEF Elements
<1>4. ASSUME NEW x \in Elements(t) PROVE x \in Elements(u)
  <2>1. PICK i \in DOMAIN t : x = t[i]
    BY DEF Elements
  <2>2. i + Len(s) \in DOMAIN u /\ u[i + Len(s)] = x
    BY <1>2, <2>1
  <2> QED BY <2>2 DEF Elements
<1>5. ASSUME NEW x \in Elements(u) PROVE x \in Elements(s) \/ x \in Elements(t)
  BY <1>1, <1>5, ElementsJoin
<1> QED BY <1>1, <1>3, <1>4, <1>5

\* The replay of a message with reasoning starts with it.
LEMMA ReplayedFirst ==
  ASSUME NEW m, m.reasoning # <<>>, m.reasoning \in Seq(Nat), m.content \in Seq(Nat),
         m.calls \in Seq(Nat)
  PROVE  Stream!RequestItems(m)[1].kind = "reasoning"
<1>1. PICK S : S = [kind : {"reasoning", "message", "function_call"}, what : Seq(Nat)]
  OBVIOUS
<1>2. PICK a \in S, b \in Seq(S), c \in Seq(S) :
        /\ a = [kind |-> "reasoning", what |-> m.reasoning]
        /\ b = IF m.content # <<>> THEN <<[kind |-> "message", what |-> m.content]>> ELSE <<>>
        /\ c = [i \in DOMAIN m.calls |-> [kind |-> "function_call", what |-> <<m.calls[i]>>]]
  <2>1. [kind |-> "reasoning", what |-> m.reasoning] \in S
    BY <1>1
  <2>2. (IF m.content # <<>> THEN <<[kind |-> "message", what |-> m.content]>> ELSE <<>>) \in Seq(S)
    <3>1. [kind |-> "message", what |-> m.content] \in S
      BY <1>1
    <3>2. \A x \in S : <<x>> \in Seq(S)
      OBVIOUS
    <3>3. <<>> \in Seq(S)
      OBVIOUS
    <3> QED BY <3>1, <3>2, <3>3
  <2>3. [i \in DOMAIN m.calls |-> [kind |-> "function_call", what |-> <<m.calls[i]>>]] \in Seq(S)
    <3>1. DOMAIN m.calls = 1 .. Len(m.calls) /\ Len(m.calls) \in Nat
      OBVIOUS
    <3>2. \A i \in DOMAIN m.calls : <<m.calls[i]>> \in Seq(Nat)
      OBVIOUS
    <3>3. \A i \in DOMAIN m.calls : [kind |-> "function_call", what |-> <<m.calls[i]>>] \in S
      BY <1>1, <3>2
    <3> QED BY <3>1, <3>3
  <2> QED BY <2>1, <2>2, <2>3
<1>3. Stream!RequestItems(m) = (<<a>> \o b) \o c
  BY <1>2 DEF Stream!RequestItems
<1>4. ((<<a>> \o b) \o c)[1] = a
  OBVIOUS
<1> QED BY <1>2, <1>3, <1>4

-----------------------------------------------------------------------------
\* Whether the generation runs or has a result, the text and the calls in the message are
\* the first ones of what was said.
LEMMA FaithfulFirst ==
  ASSUME Faithful
  PROVE  /\ StreamTypes /\ Typed(provider) /\ Spoken(said) /\ Shown(provider)
         /\ Stream!IsPrefix(provider.msg.content, said.text)
         /\ Stream!IsPrefix(provider.msg.calls, said.calls)
<1>1. StreamTypes /\ Shown(provider)
  BY DEF Faithful, StreamInv
<1>2. Typed(provider) /\ Spoken(said)
  BY <1>1, FlowTyped
<1>3. CASE provider.result = "none"
  BY <1>1, <1>2, <1>3, ArrivedFirst DEF Faithful, Flowing
<1>4. CASE provider.result # "none"
  BY <1>1, <1>2, <1>4 DEF Faithful, Outcome
<1> QED BY <1>1, <1>2, <1>3, <1>4

\* The message holds what was shown.
LEMMA KeepsWhatIsShown == Faithful => Stream!ShownIsKept
<1> SUFFICES ASSUME Faithful PROVE Stream!ShownIsKept
  OBVIOUS
<1>1. /\ Shown(provider) /\ Stream!IsPrefix(provider.msg.content, said.text)
      /\ Stream!IsPrefix(provider.msg.calls, said.calls)
  BY FaithfulFirst
<1>2. /\ Framed(provider.msg.content, provider.chunks, "text_delta")
      /\ Framed(provider.msg.calls, provider.chunks, "tool_call")
  BY <1>1 DEF Shown, Displays
<1>3. Stream!Shows(provider.msg.content, "text_delta") /\ Stream!Shows(provider.msg.calls, "tool_call")
  BY <1>2 DEF Framed, Stream!Shows
<1>4. \A piece \in Stream!ToSet(provider.msg.reasoning) : Displayed(provider.chunks, piece)
  BY <1>1 DEF Shown, Elements, Stream!ToSet
<1> QED BY <1>1, <1>3, <1>4 DEF Stream!ShownIsKept, Stream!msg, Displayed

\* A stream without an error lost nothing.
LEMMA LosesNothing == Faithful => Stream!NothingLost
<1> SUFFICES ASSUME Faithful, provider.result = "ok" PROVE Stream!NothingLost
  BY DEF Stream!NothingLost
<1>1. /\ provider.msg.content = said.text /\ provider.msg.calls = said.calls
      /\ Woven(provider.msg.reasoning, said)
  BY DEF Faithful, Outcome
<1>2. Typed(provider) /\ Spoken(said) /\ Shown(provider)
  BY FaithfulFirst
<1>3. Framed(provider.msg.reasoning, provider.chunks, "reasoning_delta")
  BY <1>2 DEF Shown, Displays
<1>4. Stream!Shows(provider.msg.reasoning, "reasoning_delta")
  BY <1>3 DEF Framed, Stream!Shows
<1>5. Elements(provider.msg.reasoning) = Elements(said.thoughts) \cup Elements(said.notes)
  BY <1>1 DEF Woven
<1>6. Elements(said.thoughts \o said.notes) = Elements(said.thoughts) \cup Elements(said.notes)
  BY <1>2, ElementsOfBoth DEF Spoken
<1>7. Stream!ToSet(provider.msg.reasoning) = Stream!ToSet(said.thoughts \o said.notes)
  BY <1>5, <1>6 DEF Elements, Stream!ToSet
<1>8. ASSUME said.thoughts # <<>> PROVE Stream!RequestItems(provider.msg)[1].kind = "reasoning"
  <2>1. Elements(said.thoughts) # {}
    <3>1. said.thoughts \in Seq(Nat)
      BY <1>2 DEF Spoken
    <3>2. 1 \in DOMAIN said.thoughts
      BY <1>8, <3>1
    <3> QED BY <3>2 DEF Elements
  <2>2. provider.msg.reasoning # <<>>
    <3>1. Elements(<<>>) = {}
      BY DEF Elements
    <3> QED BY <1>5, <2>1, <3>1
  <2> QED BY <1>2, <2>2, ReplayedFirst DEF Typed
<1> QED BY <1>1, <1>4, <1>7, <1>8 DEF Stream!NothingLost, Stream!msg

\* Streaming and not streaming give the same message.
LEMMA AgreesWithGenerate == Faithful => Stream!SameAsGenerate
<1> SUFFICES ASSUME Faithful, provider.result = "ok", said.notes = <<>>, ended \in Ways
             PROVE  provider.msg = Stream!Generated
  BY DEF Stream!SameAsGenerate, Stream!msg, Ways
<1>1. /\ provider.msg.content = said.text /\ provider.msg.calls = said.calls
      /\ Woven(provider.msg.reasoning, said)
      /\ provider.msg.finish = Stream!FinishReason(ended, style.usage)
  BY DEF Faithful, Outcome
<1>2. provider.msg.reasoning = said.thoughts
  BY <1>1 DEF Woven
<1>3. provider.msg = [content |-> provider.msg.content, reasoning |-> provider.msg.reasoning,
                      calls |-> provider.msg.calls, finish |-> provider.msg.finish]
  BY FaithfulFirst DEF Typed, Shaped
<1> QED BY <1>1, <1>2, <1>3 DEF Stream!Generated

\* What is shown is opened once and closed only while it is open.
LEMMA OpensAndCloses == Faithful => Stream!Bracketed
<1> SUFFICES ASSUME Faithful, NEW b \in Stream!Brackets, NEW i \in Stream!Own(provider.chunks, b)
             PROVE  LET before == {j \in Stream!Own(provider.chunks, b) : j < i}
                    IN  provider.chunks[i].kind = b.start <=>
                          \A j \in before :
                            (\A k \in before : k <= j) => provider.chunks[j].kind = b.end
  BY DEF Stream!Bracketed
<1>1. Shown(provider)
  BY FaithfulFirst
<1>2. Ordered(provider.chunks, TextBracket) /\ Ordered(provider.chunks, ThoughtBracket)
  BY <1>1 DEF Shown, Displays, BracketOk
<1>3. b = TextBracket \/ b = ThoughtBracket
  BY DEF Stream!Brackets, TextBracket, ThoughtBracket
<1>4. Ordered(provider.chunks, b)
  BY <1>2, <1>3
<1> QED BY <1>4 DEF Ordered

\* A message assembled from a stream is faithful to what the model produced and to what
\* was shown: the text and the calls shown are kept, in their order, whatever happens to
\* the stream; a stream that ends without an error has lost nothing, and agrees with
\* Generate; a generation counts as finished exactly if the endpoint said so; and the
\* chunks shown open and close each text and each reasoning once.
THEOREM StreamsAreFaithful == Stream!Spec => []StreamFaithful
<1>1. Faithful => StreamFaithful
  BY KeepsWhatIsShown, LosesNothing, AgreesWithGenerate, OpensAndCloses
     DEF Faithful, StreamInv, StreamFaithful, Stream!StreamFaithful
<1> QED BY <1>1, FaithfulInit, FaithfulStep, PTL DEF Stream!Spec
=============================================================================
