----------------------------- MODULE UserMemory -----------------------------
(***************************************************************************)
(* Long-term user memory: the completed turns a session records            *)
(* (recordReactTurn), the job scheduled for every third of them            *)
(* (PostTurnScheduler, EnqueueMemoryJob, ReconcileMemoryJobs) and the      *)
(* workers that claim jobs under a lease, summarize their messages and     *)
(* hand the summary to the ingestion pipeline (usermemory.Worker).         *)
(*                                                                         *)
(* A process may crash between any two steps.  Time is left out: a job     *)
(* that is to be retried may be due at once, and the lease of a running    *)
(* job lapses at any moment, freely if its worker is gone and as a fault   *)
(* if the worker still runs (a suspended host: the lease is wall time, the *)
(* worker's own timeout is not).                                           *)
(***************************************************************************)
EXTENDS Integers, FiniteSets, Sequences

CONSTANTS
  Sessions,   \* numbered, in the order of their identifiers
  Anonymous,  \* the sessions without a user
  Procs,      \* the processes that run sessions and workers
  Workers,    \* the worker loops
  Home,       \* the process of each worker loop
  Facts,      \* the texts a summary of a window may have
  Blank,      \* the summary that holds no fact
  NoText,     \* no summary yet
  RetryLimit, \* the attempts after which a failure is final: 5 in the code
  MaxSeq,     \* bound: messages of a session
  Faults,     \* the kinds of fault that happen
  MaxFaults   \* bound: how many happen

ASSUME MemoryAssumption ==
  /\ Sessions \subseteq Nat /\ IsFiniteSet(Sessions) /\ Anonymous \subseteq Sessions
  /\ Home \in [Workers -> Procs]
  /\ Blank \notin Facts /\ NoText \notin Facts \cup {Blank}
  /\ RetryLimit \in Nat \ {0} /\ MaxSeq \in Nat /\ MaxFaults \in Nat
  /\ Faults \subseteq {"crash", "close", "lapse", "database"}

VARIABLES
  history,   \* the kinds of the original messages of each session
  turns,     \* the rows of react_turns of each session, by turn number
  jobs,      \* the rows of user_memory_jobs, by session and last turn
  proc,      \* the state of each process
  hooks,     \* the due turns whose post-turn hook each process still owes
  work,      \* what each worker loop is doing
  ingested,  \* the texts the pipeline has stored for each job
  calls,     \* how often the pipeline was called for each job
  faults     \* the faults so far

vars == <<history, turns, jobs, proc, hooks, work, ingested, calls, faults>>
conversation == <<history, turns>>
pipeline == <<ingested, calls>>

-----------------------------------------------------------------------------
(* Turns and windows.                                                      *)

Kinds == {"user", "calls", "tool", "answer"}
Texts == Facts \cup {Blank}
WindowSize == 3
Windows == Sessions \X {t \in 1 .. MaxSeq : t % WindowSize = 0}

Greatest(S) == CHOOSE x \in S \cup {0} : \A y \in S : y <= x

\* The messages memories are made of: tool results and system prompts are not.
Spoken(s, from, to) ==
  {q \in from .. to : q \in DOMAIN history[s] /\ history[s][q] # "tool"}

\* Mutant: later turns too begin at the last user message.
SourcesFromLastUser(s) ==
  Greatest({q \in DOMAIN history[s] : history[s][q] = "user"})

\* Where the sources of the next completed turn begin: after the previous
\* turn's answer, for the first turn at the last user message before it.
SourcesFrom(s) ==
  IF turns[s] = <<>>
    THEN Greatest({q \in DOMAIN history[s] : history[s][q] = "user"})
    ELSE turns[s][Len(turns[s])].answer + 1

\* The turn the answer numbered seq completes.
TurnRow(s, seq) ==
  [answer |-> seq, sources |-> Spoken(s, SourcesFrom(s), seq) \cup {seq}]

\* The turns for which a job is scheduled.
Due(s, t) == s \notin Anonymous /\ t # 0 /\ t % WindowSize = 0

WindowRows(s, t) == (t - WindowSize + 1) .. t

NewJob(j, id) ==
  [id |-> id, status |-> "pending", summary |-> NoText, attempts |-> 0,
   lapsed |-> FALSE,
   sources |-> UNION {turns[j[1]][n].sources : n \in WindowRows(j[1], j[2])}]

NoJob == [id |-> 0, status |-> "none", summary |-> NoText, attempts |-> 0,
          lapsed |-> FALSE, sources |-> {}]

Scheduled == {j \in Windows : jobs[j].status # "none"}

\* The complete windows of sessions with a user that have no job.
Missing ==
  {j \in Windows \ Scheduled : j[1] \notin Anonymous /\ j[2] <= Len(turns[j[1]])}

Before(i, j) == i[1] < j[1] \/ (i[1] = j[1] /\ i[2] <= j[2])

\* Jobs for all of js, numbered in the order of session and turn.
WithJobs(js) ==
  [j \in Windows |->
     IF j \in js
       THEN NewJob(j, Cardinality(Scheduled) + Cardinality({i \in js : Before(i, j)}))
       ELSE jobs[j]]

\* Mutant: the hook leaves the window to the repair at the next start.
LeftToRepair(j) == jobs

\* EnqueueMemoryJob: a window that has a job keeps it.
Enqueued(j) == IF j \in Scheduled THEN jobs ELSE WithJobs({j})

-----------------------------------------------------------------------------
(* Faults and processes.                                                   *)

Fault(kind) ==
  /\ kind \in Faults /\ faults < MaxFaults
  /\ faults' = faults + 1

NoFault == UNCHANGED faults

Idle == [stage |-> "idle", job |-> <<>>, attempts |-> 0, text |-> NoText, verdict |-> ""]

Running(p) == proc[p] # "down"

Init ==
  /\ history = [s \in Sessions |-> <<>>]
  /\ turns = [s \in Sessions |-> <<>>]
  /\ jobs = [j \in Windows |-> NoJob]
  /\ proc = [p \in Procs |-> "down"]
  /\ hooks = [p \in Procs |-> {}]
  /\ work = [w \in Workers |-> Idle]
  /\ ingested = [j \in Windows |-> {}]
  /\ calls = [j \in Windows |-> 0]
  /\ faults = 0

\* ReconcileMemoryJobs repairs every window or, failing, none; Start goes on
\* in either case.
Reconcile ==
  \/ jobs' = WithJobs(Missing) /\ NoFault
  \/ Fault("database") /\ UNCHANGED jobs

Start(p) ==
  /\ proc[p] = "down"
  /\ proc' = [proc EXCEPT ![p] = "up"]
  /\ Reconcile
  /\ UNCHANGED <<conversation, hooks, work, pipeline>>

\* Close cancels what the workers do; that each may still fail or succeed is
\* already part of their steps.  The process ends when all loops are idle.
Close(p) ==
  /\ proc[p] = "up"
  /\ Fault("close")
  /\ proc' = [proc EXCEPT ![p] = "closing"]
  /\ UNCHANGED <<conversation, jobs, hooks, work, pipeline>>

Exit(p) ==
  /\ proc[p] = "closing" /\ hooks[p] = {}
  /\ \A w \in Workers : Home[w] = p => work[w] = Idle
  /\ proc' = [proc EXCEPT ![p] = "down"]
  /\ UNCHANGED <<conversation, jobs, hooks, work, pipeline, faults>>

Crash(p) ==
  /\ Running(p)
  /\ Fault("crash")
  /\ proc' = [proc EXCEPT ![p] = "down"]
  /\ hooks' = [hooks EXCEPT ![p] = {}]
  /\ work' = [w \in Workers |-> IF Home[w] = p THEN Idle ELSE work[w]]
  /\ UNCHANGED <<conversation, jobs, pipeline>>

-----------------------------------------------------------------------------
(* The conversation, as far as memory sees it.                             *)

Last(s) == IF history[s] = <<>> THEN "none" ELSE history[s][Len(history[s])]

Follows(s, kind) ==
  CASE kind = "user" -> Last(s) # "calls"
    [] kind = "tool" -> Last(s) = "calls"
    [] OTHER -> Last(s) \in {"user", "tool"}

\* A process works on a session once its hook for the last turn has returned.
Holds(p, s) ==
  /\ proc[p] = "up"
  /\ \A h \in hooks[p] : h.job[1] # s
  /\ Len(history[s]) < MaxSeq

\* A message that completes no turn.  Without hooks an answer is one of these.
Converse(p, s, kind) ==
  /\ Holds(p, s) /\ Follows(s, kind)
  /\ history' = [history EXCEPT ![s] = Append(@, kind)]
  /\ UNCHANGED <<turns, jobs, proc, hooks, work, pipeline, faults>>

\* The final answer and its row of react_turns commit in one transaction; the
\* hook follows it.
CommitTurn(p, s) ==
  LET seq == Len(history[s]) + 1
      t   == Len(turns[s]) + 1
  IN  /\ Holds(p, s) /\ Follows(s, "answer")
      /\ history' = [history EXCEPT ![s] = Append(@, "answer")]
      /\ turns' = [turns EXCEPT ![s] = Append(@, TurnRow(s, seq))]
      /\ hooks' = IF Due(s, t)
                    THEN [hooks EXCEPT ![p] = @ \cup {[job |-> <<s, t>>, answer |-> seq]}]
                    ELSE hooks
      /\ UNCHANGED <<jobs, proc, work, pipeline, faults>>

\* A hook that fails is logged and forgotten.
PostReactTurn(p) ==
  \E h \in hooks[p] :
    /\ Running(p)
    /\ hooks' = [hooks EXCEPT ![p] = @ \ {h}]
    /\ \/ /\ turns[h.job[1]][h.job[2]].answer = h.answer
          /\ jobs' = Enqueued(h.job) /\ NoFault
       \/ Fault("database") /\ UNCHANGED jobs
    /\ UNCHANGED <<conversation, proc, work, pipeline>>

-----------------------------------------------------------------------------
(* The worker.                                                             *)

Lapse(j) ==
  /\ jobs[j].status = "running" /\ ~jobs[j].lapsed
  /\ jobs' = [jobs EXCEPT ![j].lapsed = TRUE]
  /\ IF \E w \in Workers : work[w].job = j /\ work[w].attempts = jobs[j].attempts
       THEN Fault("lapse")
       ELSE NoFault
  /\ UNCHANGED <<conversation, proc, hooks, work, pipeline>>

\* The oldest pending job is due; one to be retried may or may not be.
Claimable(j) ==
  /\ \/ jobs[j].status \in {"pending", "retry"}
     \/ jobs[j].status = "running" /\ jobs[j].lapsed
  /\ \A i \in Windows : jobs[i].status = "pending" => jobs[j].id <= jobs[i].id

ClaimedJob(j) ==
  [jobs[j] EXCEPT !.status = "running", !.attempts = @ + 1, !.lapsed = FALSE]

Finishing(held, verdict) == [held EXCEPT !.stage = "finish", !.verdict = verdict]

\* What follows an error.
Failing(held, permanent) ==
  Finishing(held, IF permanent \/ held.attempts >= RetryLimit THEN "failed" ELSE "retry")

\* What follows once there is a summary.
Summarized(held) ==
  IF held.text = Blank
    THEN Finishing(held, "skipped")
    ELSE [held EXCEPT !.stage = "ingest"]

\* Mutant: the limit on attempts is only looked at after a failure.
FirstStepUnlimited(held, ready) ==
  IF ~ready THEN Finishing(held, "skipped")
  ELSE IF held.text = NoText THEN [held EXCEPT !.stage = "summarize"]
  ELSE Summarized(held)

\* What follows the claim; ready is whether the pipeline is configured.
FirstStep(held, ready) ==
  IF ~ready THEN Finishing(held, "skipped")
  ELSE IF held.attempts > RetryLimit THEN Failing(held, TRUE)
  ELSE IF held.text = NoText THEN [held EXCEPT !.stage = "summarize"]
  ELSE Summarized(held)

Claim(w, j) ==
  /\ proc[Home[w]] = "up" /\ work[w] = Idle
  /\ Claimable(j)
  /\ jobs' = [jobs EXCEPT ![j] = ClaimedJob(j)]
  /\ \E ready \in BOOLEAN :
       work' = [work EXCEPT ![w] =
         FirstStep([stage |-> "claimed", job |-> j, attempts |-> ClaimedJob(j).attempts,
                    text |-> jobs[j].summary, verdict |-> ""], ready)]
  /\ UNCHANGED <<conversation, proc, hooks, pipeline, faults>>

\* The model returns facts, nothing worth keeping, or an error.
Summarize(w) ==
  /\ work[w].stage = "summarize"
  /\ \/ \E t \in Texts :
          work' = [work EXCEPT ![w] = [@ EXCEPT !.stage = "save", !.text = t]]
     \/ \E permanent \in BOOLEAN :
          work' = [work EXCEPT ![w] = Failing(@, permanent)]
  /\ UNCHANGED <<conversation, jobs, proc, hooks, pipeline, faults>>

\* Mutant: any running attempt will do.
FencedByStatus(w) == jobs[work[w].job].status = "running"

\* A worker writes to its job only while no later attempt has begun.
Fenced(w) ==
  LET j == work[w].job
  IN  jobs[j].status = "running" /\ jobs[j].attempts = work[w].attempts

SaveMemorySummary(w) ==
  LET held == work[w]
  IN  /\ held.stage = "save"
      /\ \/ /\ Fenced(w) /\ NoFault
            /\ jobs' = [jobs EXCEPT ![held.job].summary = held.text]
            /\ work' = [work EXCEPT ![w] = Summarized(@)]
         \/ /\ \/ ~Fenced(w) /\ NoFault
               \/ Fault("database")
            /\ work' = [work EXCEPT ![w] = Failing(@, FALSE)]
            /\ UNCHANGED jobs
      /\ UNCHANGED <<conversation, proc, hooks, pipeline>>

\* The pipeline may have stored the text and still be reported as failed.
Ingest(w) ==
  LET held == work[w]
  IN  /\ held.stage = "ingest"
      /\ calls' = [calls EXCEPT ![held.job] = @ + 1]
      /\ \/ /\ ingested' = [ingested EXCEPT ![held.job] = @ \cup {held.text}]
            /\ work' = [work EXCEPT ![w] = Finishing(@, "succeeded")]
         \/ /\ ingested' \in {ingested, [ingested EXCEPT ![held.job] = @ \cup {held.text}]}
            /\ \E permanent \in BOOLEAN :
                 work' = [work EXCEPT ![w] = Failing(@, permanent)]
      /\ UNCHANGED <<conversation, jobs, proc, hooks, faults>>

\* Its own context: cancelling the worker does not cancel this write.
FinishMemoryJob(w) ==
  LET held == work[w]
  IN  /\ held.stage = "finish"
      /\ \/ /\ Fenced(w) /\ NoFault
            /\ jobs' = [jobs EXCEPT ![held.job].status = held.verdict]
         \/ /\ \/ ~Fenced(w) /\ NoFault
               \/ Fault("database")
            /\ UNCHANGED jobs
      /\ work' = [work EXCEPT ![w] = Idle]
      /\ UNCHANGED <<conversation, proc, hooks, pipeline>>

-----------------------------------------------------------------------------

Process(w) ==
  Summarize(w) \/ SaveMemorySummary(w) \/ Ingest(w) \/ FinishMemoryJob(w)

Next ==
  \/ \E p \in Procs : Start(p) \/ Close(p) \/ Exit(p) \/ Crash(p) \/ PostReactTurn(p)
  \/ \E p \in Procs, s \in Sessions :
       \/ CommitTurn(p, s)
       \/ \E kind \in Kinds : Converse(p, s, kind)
  \/ \E j \in Windows : Lapse(j)
  \/ \E w \in Workers : Process(w) \/ \E j \in Windows : Claim(w, j)

Spec == Init /\ [][Next]_vars

-----------------------------------------------------------------------------
(* Properties.                                                             *)

Outcomes == {"succeeded", "skipped", "failed"}
Statuses == {"none", "pending", "running", "retry"} \cup Outcomes
Stages == {"idle", "summarize", "save", "ingest", "finish"}
SummaryOrNone == Texts \cup {NoText}

Hook == [job : Windows, answer : 1 .. MaxSeq]

Row == [answer : 1 .. MaxSeq, sources : SUBSET (1 .. MaxSeq)]

JobRow ==
  [id : Nat, status : Statuses, summary : SummaryOrNone, attempts : Nat,
   lapsed : BOOLEAN, sources : SUBSET (1 .. MaxSeq)]

Held ==
  [stage : Stages, job : Windows \cup {<<>>}, attempts : Nat, text : SummaryOrNone,
   verdict : {"", "retry"} \cup Outcomes]

TypeOK ==
  /\ history \in [Sessions -> Seq(Kinds)]
  /\ turns \in [Sessions -> Seq(Row)]
  /\ jobs \in [Windows -> JobRow]
  /\ proc \in [Procs -> {"down", "up", "closing"}]
  /\ hooks \in [Procs -> SUBSET Hook]
  /\ work \in [Workers -> Held]
  /\ ingested \in [Windows -> SUBSET Facts]
  /\ calls \in [Windows -> Nat]
  /\ faults \in 0 .. MaxFaults

\* From the first source of a session's first turn on, every user and
\* assistant message up to the last completed turn is a source of exactly one
\* turn, and the jobs of a session take over just these messages
\* (recordReactTurn, enqueueMemoryWindow): nothing said is learned twice or
\* dropped between two windows, whatever questions were left unanswered.
SourcesTile ==
  \A s \in Sessions :
    LET rows == DOMAIN turns[s]
        from == IF rows = {} THEN 1
                ELSE CHOOSE q \in turns[s][1].sources : \A r \in turns[s][1].sources : q <= r
        to   == IF rows = {} THEN 0 ELSE turns[s][Len(turns[s])].answer
        taken(n) == turns[s][n].sources
    IN  /\ UNION {taken(n) : n \in rows} = Spoken(s, from, to)
        /\ \A m, n \in rows : m # n => taken(m) \cap taken(n) = {}
        /\ \A j \in Scheduled : j[1] = s =>
             jobs[j].sources = UNION {taken(n) : n \in WindowRows(s, j[2])}

\* A job makes at most RetryLimit calls of the pipeline, however often workers
\* crash, lose their lease or fail to write back the outcome: attempts counts
\* them before they happen (ClaimMemoryJob, and the check of attempts in
\* process).
CallsBounded == \A j \in Windows : calls[j] <= RetryLimit

\* The ledger as the tables show it.
Phase(status) ==
  IF status \in {"pending", "running", "retry"} THEN "open" ELSE status

Phases == [j \in Windows |-> Phase(jobs[j].status)]
Chosen == [j \in Windows |-> jobs[j].summary]
Stored == [j \in Windows |-> ingested[j]]

\* The jobs keep the ledger: each window is booked once, one text is chosen
\* for it although several attempts may summarize it, only that text reaches
\* the pipeline, and a settled job stays as it is while stale attempts go on
\* (the ON CONFLICT clause of enqueueMemoryWindow and the conditions on status
\* and attempts in SaveMemorySummary and FinishMemoryJob).
Ledger == INSTANCE MemoryLedger WITH
  phase <- Phases, text <- Chosen, stored <- Stored

KeepsLedger == Ledger!Spec
=============================================================================
