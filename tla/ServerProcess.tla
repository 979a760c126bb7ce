--------------------------- MODULE ServerProcess ---------------------------
(***************************************************************************)
(* The processes of the browser's code mode: main.go takes the guard of    *)
(* the one instance (instance.go), run_sse.go listens, publishes its       *)
(* address in the guard's file, serves and stops; web.sh, which started    *)
(* the process, reads the file to find it.                                 *)
(*                                                                         *)
(* The file is never replaced, so that it has one lock, which the system   *)
(* gives back when its holder ends.  Its content outlives its author.      *)
(***************************************************************************)
EXTENDS FiniteSets, Naturals

CONSTANTS
  Servers,     \* processes, also their numbers in the file
  Ports,       \* the ports of the loopback address
  MaxStreams   \* bound: the requests a server has open at a time

Empty == [pid |-> "none", url |-> "none"]

VARIABLES
  state,       \* how far a process is
  holder,      \* who has the lock of the file
  record,      \* what the file says
  port,        \* the port a process listens on
  streams,     \* how many requests of a process are open
  target       \* the address the launcher of a process found, if it did

vars == <<state, holder, record, port, streams, target>>

Init ==
  /\ state = [s \in Servers |-> "new"]
  /\ holder = "none"
  /\ record \in {Empty} \union [pid : {"old"}, url : Ports]
  /\ port = [s \in Servers |-> "none"]
  /\ streams = [s \in Servers |-> 0]
  /\ target = [s \in Servers |-> "none"]

Goes(s, to) == state' = [state EXCEPT ![s] = to]

\* The end of a process: the system takes back its lock and its port.
Ends(s, how) ==
  /\ Goes(s, how)
  /\ holder' = IF holder = s THEN "none" ELSE holder
  /\ port' = [port EXCEPT ![s] = "none"]

-----------------------------------------------------------------------------
(* The server *)

\* As if the file were opened with O_TRUNC.
AcquireTruncating(s) ==
  /\ state[s] = "new"
  /\ \/ holder = "none" /\ holder' = s /\ Goes(s, "locked")
     \/ holder # "none" /\ Goes(s, "refused") /\ UNCHANGED holder
  /\ record' = Empty
  /\ UNCHANGED <<port, streams, target>>

\* AcquireCodeInstanceGuard: the lock decides, whatever the file says; who
\* does not get it ends, and its error quotes the file.
Acquire(s) ==
  /\ state[s] = "new"
  /\ \/ holder = "none" /\ holder' = s /\ Goes(s, "locked")
     \/ holder # "none" /\ Goes(s, "refused") /\ UNCHANGED holder
  /\ UNCHANGED <<record, port, streams, target>>

\* net.Listen takes a free port; main ends when there is none.
Listen(s) ==
  /\ state[s] = "locked"
  /\ \/ /\ \E p \in Ports \ {port[t] : t \in Servers} : port' = [port EXCEPT ![s] = p]
        /\ Goes(s, "bound")
        /\ UNCHANGED holder
     \/ Ends(s, "failed")
  /\ UNCHANGED <<record, streams, target>>

\* Publish: Truncate, and then the line; both can fail, which ends main.
Truncate(s) ==
  /\ state[s] = "bound"
  /\ Goes(s, "truncated")
  /\ record' = Empty
  /\ UNCHANGED <<holder, port, streams, target>>

Publish(s) ==
  /\ state[s] = "truncated"
  /\ Goes(s, "serving")
  /\ record' = [pid |-> s, url |-> port[s]]
  /\ UNCHANGED <<holder, port, streams, target>>

PublishFails(s) ==
  /\ state[s] \in {"bound", "truncated"}
  /\ Ends(s, "failed")
  /\ UNCHANGED <<record, streams, target>>

Request(s) ==
  /\ state[s] = "serving" /\ streams[s] < MaxStreams
  /\ streams' = [streams EXCEPT ![s] = @ + 1]
  /\ UNCHANGED <<state, holder, record, port, target>>

\* A request ends with its deferred Cleanup.
RequestEnds(s) ==
  /\ state[s] \in {"serving", "stopping", "closed"} /\ streams[s] > 0
  /\ streams' = [streams EXCEPT ![s] = @ - 1]
  /\ UNCHANGED <<state, holder, record, port, target>>

\* SIGTERM: Shutdown closes the listener first.
Stop(s) ==
  /\ state[s] = "serving" /\ Goes(s, "stopping")
  /\ port' = [port EXCEPT ![s] = "none"]
  /\ UNCHANGED <<holder, record, streams, target>>

\* Shutdown waits for the requests, but not longer than shutdownTimeout;
\* what is still open then is closed and its context cancelled.
Close(s) ==
  /\ state[s] = "stopping" /\ Goes(s, "closed")
  /\ UNCHANGED <<holder, record, port, streams, target>>

\* Run returns, and main with it, which gives the guard back.
Exit(s) ==
  /\ state[s] = "closed"
  /\ Ends(s, "exited")
  /\ UNCHANGED <<record, streams, target>>

\* kill -9, or a signal before there is a handler.
Killed(s) ==
  /\ state[s] \in {"new", "locked", "bound", "truncated", "serving", "stopping", "closed"}
  /\ Ends(s, "killed")
  /\ UNCHANGED <<record, streams, target>>

\* web.sh: a line with the number of its own process, at whose address
\* something answers.
Find(s) ==
  /\ state[s] # "new" /\ target[s] = "none"
  /\ record.pid = s
  /\ \E t \in Servers : port[t] = record.url
  /\ target' = [target EXCEPT ![s] = record.url]
  /\ UNCHANGED <<state, holder, record, port, streams>>

Ended == {"refused", "failed", "exited", "killed"}

Next ==
  \/ \E s \in Servers :
       \/ Acquire(s) \/ Listen(s) \/ Truncate(s) \/ Publish(s) \/ PublishFails(s)
       \/ Request(s) \/ RequestEnds(s) \/ Stop(s) \/ Close(s) \/ Exit(s) \/ Killed(s) \/ Find(s)
  \/ (\A s \in Servers : state[s] \in Ended) /\ UNCHANGED vars

Spec == Init /\ [][Next]_vars

\* Timers expire and processes run; no request has to end, nobody has to
\* start, stop or kill anything.
FairSpec == Spec /\ \A s \in Servers : WF_vars(Close(s)) /\ WF_vars(Exit(s))

-----------------------------------------------------------------------------
(* Properties *)

\* One process at a time is anywhere between its lock and its end, also
\* while one stops and the next one starts.
OneServer == Cardinality({s \in Servers : state[s] \notin Ended \union {"new"}}) <= 1

\* The file tells the truth about the process that serves: no process that
\* starts, is refused or ends takes its line away (Publish, Close).
RecordIsOwn ==
  \A s \in Servers : state[s] = "serving" => record = [pid |-> s, url |-> port[s]]

\* A launcher finds the address of its own process: while that one serves,
\* it is there.
FindsItsOwn ==
  \A s \in Servers : target[s] # "none" /\ state[s] = "serving" => target[s] = port[s]

\* The comment on Publish and Close: one lock, one line, one server.
InstanceHolds == OneServer /\ RecordIsOwn /\ FindsItsOwn

\* A server that is told to stop does, although a request may wait for a
\* human without end.
StopEnds == \A s \in Servers : state[s] = "stopping" ~> state[s] \in Ended

\* The comment in run_sse.Run: when the limit is over, closing cancels the
\* contexts, and the deferred Cleanup of every request is carried out.
CleanupsRun == \A s \in Servers : state[s] = "exited" => streams[s] = 0
=============================================================================
