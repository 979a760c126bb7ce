------------------------- MODULE UserMemoryProofs -------------------------
(***************************************************************************)
(* Proofs about UserMemory for every number of sessions, processes and     *)
(* workers, every limit on attempts and any number of faults.              *)
(***************************************************************************)
EXTENDS UserMemory, FiniteSetTheorems, WellFoundedInduction, TLAPS

\* What a worker that is not idle holds was claimed, under an attempt of its own.
HeldKnown ==
  \A w \in Workers :
    IF work[w].stage = "idle"
      THEN work[w] = Idle
      ELSE /\ work[w].job \in Windows
           /\ jobs[work[w].job].status # "none"
           /\ work[w].attempts \in 1 .. jobs[work[w].job].attempts

AttemptsDiffer ==
  \A v, w \in Workers :
    /\ v # w /\ work[v].stage # "idle" /\ work[w].stage # "idle"
    /\ work[v].job = work[w].job
    => work[v].attempts # work[w].attempts

\* A window that was never booked has no text and no attempt.
Unbooked ==
  \A j \in Windows : jobs[j].status = "none" => jobs[j].summary = NoText /\ jobs[j].attempts = 0

\* The latest attempt summarizes only what has no summary yet, what is ingested is
\* the job's summary, and success is reported of what was ingested.
TextChosen(w) ==
  /\ work[w].stage \in {"summarize", "save"}
     /\ work[w].attempts = jobs[work[w].job].attempts
     => jobs[work[w].job].summary = NoText
  /\ work[w].stage = "save" => work[w].text \in Texts
  /\ work[w].stage = "ingest" =>
       work[w].text \in Facts /\ work[w].text = jobs[work[w].job].summary
  /\ work[w].stage = "finish" =>
       /\ work[w].verdict \in {"retry"} \cup Outcomes
       /\ work[w].verdict = "succeeded" => ingested[work[w].job] # {}

TextsChosen == \A w \in Workers : TextChosen(w)

\* The attempts that may still call the pipeline.
Open(j) ==
  {work[w].attempts :
     w \in {v \in Workers : /\ work[v].stage \in {"summarize", "save", "ingest"}
                            /\ work[v].job = j}}

\* The calls of a job are those of different attempts, none of which is still open.
Counted(j) ==
  /\ Open(j) \subseteq 1 .. RetryLimit
  /\ \E called \in SUBSET ((1 .. RetryLimit) \cap (1 .. jobs[j].attempts)) :
       Cardinality(called) = calls[j] /\ called \cap Open(j) = {}

CallsCounted == \A j \in Windows : Counted(j)

\* Every conversation begins with a user's message, and no turn, window or hook is
\* about messages that are not there yet.
Within(s) ==
  /\ Len(history[s]) <= MaxSeq
  /\ history[s] # <<>> => history[s][1] = "user"
  /\ Len(turns[s]) <= Len(history[s])
  /\ \A n \in 1 .. Len(turns[s]) :
       /\ turns[s][n].sources \subseteq 1 .. turns[s][Len(turns[s])].answer
       /\ turns[s][n].answer <= Len(history[s])
  /\ turns[s] # <<>> => \E q \in turns[s][1].sources : \A r \in turns[s][1].sources : q <= r

WithinHistory == \A s \in Sessions : Within(s)

WithinTurns ==
  /\ \A j \in Scheduled : j[2] <= Len(turns[j[1]])
  /\ \A p \in Procs : \A h \in hooks[p] : h.job[2] <= Len(turns[h.job[1]])

IInv ==
  /\ TypeOK
  /\ HeldKnown
  /\ AttemptsDiffer
  /\ Unbooked
  /\ TextsChosen
  /\ CallsCounted
  /\ WithinHistory
  /\ WithinTurns
  /\ SourcesTile

-----------------------------------------------------------------------------
(* Data.                                                                   *)

\* A set of numbers has a least one.
LEMMA LeastNumber ==
  ASSUME NEW T \in SUBSET Nat, T # {}
  PROVE  \E n \in T : \A m \in T : n <= m
<1> DEFINE R == {ss \in Nat \X Nat : ss[1] < ss[2]}
<1>1. IsWellFoundedOn(R, Nat)
  BY NatLessThanWellFounded, Zenon DEF OpToRel
<1>2. \A m, n \in Nat : m < n => <<m, n>> \in R
  OBVIOUS
<1> HIDE DEF R
<1>3. PICK n \in T : \A m \in T : ~ (<<m, n>> \in R)
  BY <1>1, WFMin
<1>4. ASSUME NEW m \in T PROVE n <= m
  <2>1. ~ (m < n)
    BY <1>2, <1>3
  <2> QED BY <2>1
<1> QED BY <1>4

\* A bounded set of numbers has a greatest one.
LEMMA GreatestOf ==
  ASSUME NEW m \in Nat, NEW S \in SUBSET (0 .. m)
  PROVE  Greatest(S) \in S \cup {0} /\ \A y \in S : y <= Greatest(S)
<1> DEFINE U == {n \in 0 .. m : \A y \in S : y <= n}
<1>1. m \in U /\ U \in SUBSET Nat
  OBVIOUS
<1>2. PICK n \in U : \A k \in U : n <= k
  BY <1>1, LeastNumber
<1>3. n \in S \cup {0}
  <2> SUFFICES ASSUME n \notin S \cup {0} PROVE FALSE
    OBVIOUS
  <2>1. n - 1 \in U
    OBVIOUS
  <2> QED BY <1>2, <2>1
<1> QED BY <1>2, <1>3 DEF Greatest

\* A window is a session and the number of a turn.
LEMMA WindowParts ==
  ASSUME NEW j \in Windows
  PROVE  /\ j[1] \in Sessions /\ j[2] \in 1 .. MaxSeq /\ j[2] >= WindowSize
         /\ WindowRows(j[1], j[2]) \subseteq 1 .. j[2]
BY MemoryAssumption DEF Windows, WindowSize, WindowRows

\* The rows of a window that is complete are there.
LEMMA WindowKnown ==
  ASSUME TypeOK, NEW j \in Windows, j[2] <= Len(turns[j[1]])
  PROVE  \A n \in WindowRows(j[1], j[2]) :
           n \in 1 .. Len(turns[j[1]]) /\ turns[j[1]][n] \in Row
<1>1. turns[j[1]] \in Seq(Row)
  BY WindowParts DEF TypeOK
<1>2. WindowRows(j[1], j[2]) \subseteq 1 .. Len(turns[j[1]])
  <2>1. j[2] \in Nat /\ Len(turns[j[1]]) \in Nat
    BY <1>1, WindowParts
  <2>2. 1 .. j[2] \subseteq 1 .. Len(turns[j[1]])
    BY <2>1
  <2> QED BY <2>2, WindowParts
<1> QED BY <1>1, <1>2

\* There are finitely many windows.
LEMMA WindowsFinite == IsFiniteSet(Windows)
<1>1. IsFiniteSet(1 .. MaxSeq)
  BY MemoryAssumption, FS_Interval
<1>2. IsFiniteSet({t \in 1 .. MaxSeq : t % WindowSize = 0})
  BY <1>1, FS_Subset
<1> QED BY <1>2, MemoryAssumption, FS_Product DEF Windows

\* Jobs are numbered.
LEMMA JobNumbers ==
  ASSUME NEW js \in SUBSET Windows, NEW j \in Windows
  PROVE  Cardinality(Scheduled) + Cardinality({i \in js : Before(i, j)}) \in Nat
<1>1. IsFiniteSet(Scheduled) /\ IsFiniteSet({i \in js : Before(i, j)})
  BY WindowsFinite, FS_Subset DEF Scheduled
<1> QED BY <1>1, FS_CardinalityType

\* What Start and a post-turn hook may book: windows of completed turns.
Booking ==
  \E js \in SUBSET (Windows \ Scheduled) :
    /\ \A j \in js : j[2] <= Len(turns[j[1]])
    /\ jobs' = WithJobs(js)

NewlyBooked(j) ==
  /\ jobs[j].status = "none" /\ jobs'[j].status = "pending"
  /\ jobs'[j].summary = NoText /\ jobs'[j].attempts = 0
  /\ j[2] <= Len(turns[j[1]])
  /\ jobs'[j].sources = UNION {turns[j[1]][n].sources : n \in WindowRows(j[1], j[2])}

\* A booking touches only jobs that were not there, and gives each a pending row.
LEMMA BookedJobs ==
  ASSUME TypeOK, Booking
  PROVE  /\ jobs' \in [Windows -> JobRow]
         /\ \A j \in Windows : jobs'[j] = jobs[j] \/ NewlyBooked(j)
<1>1. PICK js \in SUBSET (Windows \ Scheduled) :
        (\A j \in js : j[2] <= Len(turns[j[1]])) /\ jobs' = WithJobs(js)
  BY DEF Booking
<1> DEFINE number(j) == Cardinality(Scheduled) + Cardinality({i \in js : Before(i, j)})
<1>2. \A j \in Windows : number(j) \in Nat
  BY JobNumbers
<1> HIDE DEF number
<1>3. /\ DOMAIN jobs' = Windows
      /\ jobs' = [j \in Windows |-> IF j \in js THEN NewJob(j, number(j)) ELSE jobs[j]]
  BY <1>1 DEF WithJobs, number
<1>4. ASSUME NEW j \in js
      PROVE  NewJob(j, number(j)) \in JobRow
  <2>1. j \in Windows /\ j[2] <= Len(turns[j[1]])
    BY <1>1
  <2>2. \A n \in WindowRows(j[1], j[2]) : turns[j[1]][n].sources \subseteq 1 .. MaxSeq
    BY <2>1, WindowKnown DEF Row
  <2>3. UNION {turns[j[1]][n].sources : n \in WindowRows(j[1], j[2])} \subseteq 1 .. MaxSeq
    BY <2>2
  <2> QED BY <1>2, <2>1, <2>3 DEF NewJob, JobRow, Statuses, SummaryOrNone
<1>5. jobs' \in [Windows -> JobRow]
  BY <1>3, <1>4 DEF TypeOK
<1>6. ASSUME NEW j \in Windows PROVE jobs'[j] = jobs[j] \/ NewlyBooked(j)
  <2>1. CASE j \in js
    <3>1. jobs'[j] = NewJob(j, number(j)) /\ jobs[j].status = "none"
      BY <1>3, <2>1 DEF Scheduled
    <3> QED BY <1>1, <2>1, <3>1 DEF NewJob, NewlyBooked
  <2>2. CASE j \notin js
    BY <1>3, <2>2
  <2> QED BY <2>1, <2>2
<1> QED BY <1>5, <1>6

\* Booking no window changes nothing.
LEMMA NothingBooked == TypeOK /\ UNCHANGED jobs => Booking
<1> SUFFICES ASSUME TypeOK, UNCHANGED jobs PROVE Booking
  OBVIOUS
<1>1. WithJobs({}) = jobs
  BY DEF TypeOK, WithJobs
<1> QED BY <1>1 DEF Booking

\* The repair at the start books what is missing, or nothing.
LEMMA StartBooks == ASSUME TypeOK, NEW p \in Procs, Start(p) PROVE Booking
<1>1. CASE jobs' = WithJobs(Missing)
  <2>1. Missing \in SUBSET (Windows \ Scheduled) /\ \A j \in Missing : j[2] <= Len(turns[j[1]])
    BY DEF Missing
  <2> QED BY <1>1, <2>1 DEF Booking
<1>2. CASE UNCHANGED jobs
  BY <1>2, NothingBooked
<1> QED BY <1>1, <1>2 DEF Start, Reconcile

\* A post-turn hook books its own window, or nothing.
LEMMA HookBooks ==
  ASSUME TypeOK, WithinTurns, NEW p \in Procs, PostReactTurn(p) PROVE Booking
<1>1. PICK h \in hooks[p] : jobs' = Enqueued(h.job) \/ UNCHANGED jobs
  BY DEF PostReactTurn
<1>2. CASE UNCHANGED jobs
  BY <1>2, NothingBooked
<1>3. CASE jobs' = Enqueued(h.job) /\ h.job \notin Scheduled
  <2>1. h.job \in Windows /\ h.job[2] <= Len(turns[h.job[1]])
    BY DEF TypeOK, WithinTurns, Hook
  <2>2. jobs' = WithJobs({h.job})
    BY <1>3 DEF Enqueued
  <2> QED BY <1>3, <2>1, <2>2 DEF Booking
<1>4. CASE jobs' = Enqueued(h.job) /\ h.job \in Scheduled
  BY <1>4, NothingBooked DEF Enqueued
<1> QED BY <1>1, <1>2, <1>3, <1>4

\* The claim of a job begins a new attempt.
LEMMA ClaimFields ==
  ASSUME TypeOK, NEW j \in Windows
  PROVE  /\ ClaimedJob(j) \in JobRow
         /\ ClaimedJob(j).status = "running" /\ ClaimedJob(j).attempts = jobs[j].attempts + 1
         /\ ClaimedJob(j).summary = jobs[j].summary
         /\ ClaimedJob(j).sources = jobs[j].sources
<1> DEFINE a == [jobs[j] EXCEPT !.status = "running"]
<1> DEFINE n == jobs[j].attempts + 1
<1> DEFINE b == [a EXCEPT !.attempts = n]
<1> DEFINE c == [b EXCEPT !.lapsed = FALSE]
<1>1. ClaimedJob(j) = c
  BY Zenon DEF ClaimedJob
<1>2. jobs[j] \in JobRow /\ n \in Nat
  BY DEF TypeOK, JobRow
<1> HIDE DEF n
<1>3. /\ a \in JobRow /\ a.status = "running"
      /\ a.summary = jobs[j].summary /\ a.sources = jobs[j].sources
  BY <1>2 DEF JobRow, Statuses
<1> HIDE DEF a
<1>4. /\ b \in JobRow /\ b.status = "running" /\ b.attempts = n
      /\ b.summary = jobs[j].summary /\ b.sources = jobs[j].sources
  BY <1>2, <1>3 DEF JobRow
<1> HIDE DEF b
<1>5. /\ c \in JobRow /\ c.status = "running" /\ c.attempts = n
      /\ c.summary = jobs[j].summary /\ c.sources = jobs[j].sources
  BY <1>4 DEF JobRow
<1> QED BY <1>1, <1>5 DEF n

\* What a worker may hold while it decides how to go on.
Carried == [stage : Stages \cup {"claimed"}, job : Windows \cup {<<>>}, attempts : Nat,
            text : SummaryOrNone, verdict : {"", "retry"} \cup Outcomes]

\* The same job under the same attempt.
SameAttempt(a, b) == a.job = b.job /\ a.attempts = b.attempts

\* What is held after an outcome was decided.
LEMMA FinishingFields ==
  ASSUME NEW held \in Carried, NEW verdict \in {"retry"} \cup Outcomes
  PROVE  /\ Finishing(held, verdict) \in Held /\ SameAttempt(Finishing(held, verdict), held)
         /\ Finishing(held, verdict).stage = "finish"
         /\ Finishing(held, verdict).verdict = verdict
<1> DEFINE a == [held EXCEPT !.stage = "finish"]
<1> DEFINE b == [a EXCEPT !.verdict = verdict]
<1>1. Finishing(held, verdict) = b
  BY Zenon DEF Finishing
<1>2. a \in Held /\ a.stage = "finish" /\ a.job = held.job /\ a.attempts = held.attempts
  BY DEF Held, Carried, Stages
<1> HIDE DEF a
<1> QED BY <1>1, <1>2 DEF Held, SameAttempt

\* What is held after a failure: a retry or the end.
LEMMA FailingFields ==
  ASSUME NEW held \in Carried, NEW permanent \in BOOLEAN
  PROVE  /\ Failing(held, permanent) \in Held /\ SameAttempt(Failing(held, permanent), held)
         /\ Failing(held, permanent).stage = "finish"
         /\ Failing(held, permanent).verdict \in {"retry", "failed"}
BY FinishingFields DEF Failing, Outcomes

\* Moving on to a stage keeps the attempt.
LEMMA StageFields ==
  ASSUME NEW held \in Carried, NEW stage \in Stages
  PROVE  /\ [held EXCEPT !.stage = stage] \in Held
         /\ SameAttempt([held EXCEPT !.stage = stage], held)
         /\ [held EXCEPT !.stage = stage].stage = stage
         /\ [held EXCEPT !.stage = stage].text = held.text
BY DEF Held, Carried, SameAttempt

\* What is held once there is a summary.
LEMMA SummarizedFields ==
  ASSUME NEW held \in Carried, held.text \in Texts
  PROVE  /\ Summarized(held) \in Held /\ SameAttempt(Summarized(held), held)
         /\ \/ Summarized(held).stage = "finish" /\ Summarized(held).verdict = "skipped"
            \/ /\ Summarized(held).stage = "ingest" /\ held.text \in Facts
               /\ Summarized(held).text = held.text
<1>1. CASE held.text = Blank
  BY <1>1, FinishingFields DEF Summarized, Outcomes
<1>2. CASE held.text # Blank
  <2>1. "ingest" \in Stages /\ held.text \in Facts
    BY <1>2 DEF Stages, Texts
  <2> QED BY <1>2, <2>1, StageFields DEF Summarized
<1> QED BY <1>1, <1>2

\* What follows a claim.
LEMMA FirstStepFields ==
  ASSUME NEW held \in Carried, NEW ready \in BOOLEAN
  PROVE  /\ FirstStep(held, ready) \in Held /\ SameAttempt(FirstStep(held, ready), held)
         /\ \/ /\ FirstStep(held, ready).stage = "finish"
               /\ FirstStep(held, ready).verdict \in {"skipped", "failed", "retry"}
            \/ /\ FirstStep(held, ready).stage = "summarize"
               /\ held.text = NoText /\ ~(held.attempts > RetryLimit)
            \/ /\ FirstStep(held, ready).stage = "ingest"
               /\ held.text \in Facts /\ ~(held.attempts > RetryLimit)
               /\ FirstStep(held, ready).text = held.text
<1>1. CASE ~ready
  BY <1>1, FinishingFields DEF FirstStep, Outcomes
<1>2. CASE ready /\ held.attempts > RetryLimit
  BY <1>2, FailingFields DEF FirstStep
<1>3. CASE ready /\ ~(held.attempts > RetryLimit) /\ held.text = NoText
  <2>1. "summarize" \in Stages
    BY DEF Stages
  <2> QED BY <1>3, <2>1, StageFields DEF FirstStep
<1>4. CASE ready /\ ~(held.attempts > RetryLimit) /\ held.text # NoText
  <2>1. held.text \in Texts
    BY <1>4 DEF Carried, SummaryOrNone
  <2> QED BY <1>4, <2>1, SummarizedFields DEF FirstStep
<1> QED BY <1>1, <1>2, <1>3, <1>4

-----------------------------------------------------------------------------
(* What each step of a worker does to its job and to what it holds.        *)

Others(w) == \A v \in Workers : v # w => work'[v] = work[v]

\* What a claim does.
LEMMA ClaimEffect ==
  ASSUME TypeOK, NEW w \in Workers, NEW j \in Windows, Claim(w, j)
  PROVE  /\ work' \in [Workers -> Held] /\ Others(w) /\ work[w].stage = "idle"
         /\ work'[w].job = j /\ work'[w].attempts = jobs[j].attempts + 1
         /\ \/ /\ work'[w].stage = "finish"
               /\ work'[w].verdict \in {"skipped", "failed", "retry"}
            \/ /\ work'[w].stage = "summarize" /\ jobs[j].summary = NoText
               /\ work'[w].attempts <= RetryLimit
            \/ /\ work'[w].stage = "ingest" /\ work'[w].attempts <= RetryLimit
               /\ work'[w].text \in Facts /\ work'[w].text = jobs[j].summary
         /\ jobs' \in [Windows -> JobRow]
         /\ \A i \in Windows : i # j => jobs'[i] = jobs[i]
         /\ jobs'[j].status = "running" /\ jobs'[j].attempts = jobs[j].attempts + 1
         /\ jobs'[j].summary = jobs[j].summary /\ jobs'[j].sources = jobs[j].sources
         /\ jobs[j].status \in {"pending", "retry", "running"}
<1> DEFINE held == [stage |-> "claimed", job |-> j, attempts |-> ClaimedJob(j).attempts,
                    text |-> jobs[j].summary, verdict |-> ""]
<1>1. held \in Carried
  BY ClaimFields DEF Carried, JobRow, TypeOK
<1>2. PICK ready \in BOOLEAN : work' = [work EXCEPT ![w] = FirstStep(held, ready)]
  BY DEF Claim
<1>3. work'[w] = FirstStep(held, ready) /\ Others(w)
  BY <1>2 DEF TypeOK, Others
<1>4. work' \in [Workers -> Held]
  BY <1>1, <1>2, FirstStepFields DEF TypeOK
<1>5. /\ held.job = j /\ held.attempts = jobs[j].attempts + 1 /\ held.text = jobs[j].summary
      /\ jobs[j].attempts \in Nat /\ RetryLimit \in Nat
  BY ClaimFields, MemoryAssumption DEF TypeOK, JobRow
<1> HIDE DEF held
<1>6. /\ work'[w].job = j /\ work'[w].attempts = jobs[j].attempts + 1
      /\ \/ /\ work'[w].stage = "finish"
            /\ work'[w].verdict \in {"skipped", "failed", "retry"}
         \/ /\ work'[w].stage = "summarize" /\ jobs[j].summary = NoText
            /\ work'[w].attempts <= RetryLimit
         \/ /\ work'[w].stage = "ingest" /\ work'[w].attempts <= RetryLimit
            /\ work'[w].text \in Facts /\ work'[w].text = jobs[j].summary
  BY <1>1, <1>3, <1>5, FirstStepFields DEF SameAttempt
<1>7. /\ jobs' \in [Windows -> JobRow]
      /\ \A i \in Windows : i # j => jobs'[i] = jobs[i]
      /\ jobs'[j] = ClaimedJob(j)
  BY ClaimFields DEF Claim, TypeOK
<1>8. work[w].stage = "idle" /\ jobs[j].status \in {"pending", "retry", "running"}
  <2>1. work[w] = Idle /\ Claimable(j)
    BY DEF Claim
  <2>2. Idle.stage = "idle"
    BY DEF Idle
  <2>3. jobs[j].status \in {"pending", "retry", "running"}
    BY <2>1 DEF Claimable
  <2> QED BY <2>1, <2>2, <2>3
<1>9. /\ jobs'[j].status = "running" /\ jobs'[j].attempts = jobs[j].attempts + 1
      /\ jobs'[j].summary = jobs[j].summary /\ jobs'[j].sources = jobs[j].sources
  BY <1>7, ClaimFields
<1> QED BY <1>3, <1>4, <1>6, <1>7, <1>8, <1>9

\* What a summary, or the failure to make one, does.
LEMMA SummarizeEffect ==
  ASSUME TypeOK, NEW w \in Workers, Summarize(w)
  PROVE  /\ work' \in [Workers -> Held] /\ Others(w) /\ work[w].stage = "summarize"
         /\ SameAttempt(work'[w], work[w])
         /\ \/ work'[w].stage = "save" /\ work'[w].text \in Texts
            \/ work'[w].stage = "finish" /\ work'[w].verdict \in {"retry", "failed"}
<1>1. work[w] \in Carried /\ work[w] \in Held
  BY DEF TypeOK, Carried, Held
<1>2. CASE \E x \in Texts : work' = [work EXCEPT ![w] = [@ EXCEPT !.stage = "save", !.text = x]]
  <2>1. PICK x \in Texts : work' = [work EXCEPT ![w] = [@ EXCEPT !.stage = "save", !.text = x]]
    BY <1>2
  <2> DEFINE a == [work[w] EXCEPT !.stage = "save"]
  <2> DEFINE b == [a EXCEPT !.text = x]
  <2>2. work' = [work EXCEPT ![w] = b]
    BY <2>1, Zenon
  <2>3. "save" \in Stages /\ x \in SummaryOrNone
    BY DEF Stages, SummaryOrNone
  <2>4. a \in Held /\ SameAttempt(a, work[w]) /\ a.stage = "save"
    BY <1>1, <2>3, StageFields
  <2> HIDE DEF a
  <2>5. b \in Held /\ b.stage = "save" /\ b.text = x /\ SameAttempt(b, work[w])
    BY <2>3, <2>4 DEF Held, SameAttempt
  <2> HIDE DEF b
  <2> QED BY <2>2, <2>5 DEF Summarize, TypeOK, Others
<1>3. CASE \E permanent \in BOOLEAN : work' = [work EXCEPT ![w] = Failing(@, permanent)]
  <2>1. PICK permanent \in BOOLEAN : work' = [work EXCEPT ![w] = Failing(@, permanent)]
    BY <1>3
  <2>2. work'[w] = Failing(work[w], permanent) /\ Others(w)
    BY <2>1 DEF TypeOK, Others
  <2>3. work' \in [Workers -> Held]
    BY <1>1, <2>1, FailingFields DEF TypeOK
  <2>4. work[w].stage = "summarize"
    BY DEF Summarize
  <2> QED BY <1>1, <2>2, <2>3, <2>4, FailingFields
<1> QED BY <1>2, <1>3 DEF Summarize

\* What saving a summary does: it is written under the fence, or the attempt fails.
LEMMA SaveEffect ==
  ASSUME TypeOK, TextsChosen, HeldKnown, NEW w \in Workers, SaveMemorySummary(w)
  PROVE  /\ work' \in [Workers -> Held] /\ Others(w) /\ work[w].stage = "save"
         /\ SameAttempt(work'[w], work[w]) /\ work[w].job \in Windows
         /\ \/ /\ jobs' = jobs /\ work'[w].stage = "finish"
               /\ work'[w].verdict \in {"retry", "failed"}
            \/ /\ jobs[work[w].job].status = "running"
               /\ jobs[work[w].job].attempts = work[w].attempts
               /\ jobs' = [jobs EXCEPT ![work[w].job].summary = work[w].text]
               /\ jobs' \in [Windows -> JobRow] /\ work[w].text \in Texts
               /\ \/ work'[w].stage = "finish" /\ work'[w].verdict = "skipped"
                  \/ /\ work'[w].stage = "ingest" /\ work[w].text \in Facts
                     /\ work'[w].text = work[w].text
<1>1. /\ work[w] \in Carried /\ work[w] \in Held /\ work[w].stage = "save"
      /\ work[w].job \in Windows /\ work[w].text \in Texts
  BY DEF TypeOK, Carried, Held, SaveMemorySummary, HeldKnown, TextsChosen, TextChosen
<1>2. CASE /\ Fenced(w) /\ jobs' = [jobs EXCEPT ![work[w].job].summary = work[w].text]
           /\ work' = [work EXCEPT ![w] = Summarized(@)]
  <2>1. jobs' \in [Windows -> JobRow]
    <3> DEFINE i == work[w].job
    <3> DEFINE x == work[w].text
    <3>1. jobs \in [Windows -> JobRow] /\ i \in Windows /\ x \in SummaryOrNone
      BY <1>1 DEF TypeOK, SummaryOrNone
    <3>2. jobs' = [jobs EXCEPT ![i].summary = x]
      BY <1>2
    <3> HIDE DEF i, x
    <3>3. [jobs[i] EXCEPT !.summary = x] \in JobRow
      <4>1. jobs[i] \in JobRow
        BY <3>1
      <4> QED BY <3>1, <4>1 DEF JobRow
    <3> QED BY <3>1, <3>2, <3>3
  <2>2. work' \in [Workers -> Held] /\ work'[w] = Summarized(work[w]) /\ Others(w)
    BY <1>1, <1>2, SummarizedFields DEF TypeOK, Others
  <2> QED BY <1>1, <1>2, <2>1, <2>2, SummarizedFields DEF Fenced
<1>3. CASE work' = [work EXCEPT ![w] = Failing(@, FALSE)] /\ UNCHANGED jobs
  BY <1>1, <1>3, FailingFields DEF TypeOK, Others
<1> QED BY <1>2, <1>3 DEF SaveMemorySummary

\* What a call of the pipeline does.
LEMMA IngestEffect ==
  ASSUME TypeOK, TextsChosen, HeldKnown, NEW w \in Workers, Ingest(w)
  PROVE  /\ work' \in [Workers -> Held] /\ Others(w) /\ work[w].stage = "ingest"
         /\ SameAttempt(work'[w], work[w]) /\ work[w].job \in Windows
         /\ work'[w].stage = "finish"
         /\ work[w].text \in Facts
         /\ ingested' \in {ingested, [ingested EXCEPT ![work[w].job] = @ \cup {work[w].text}]}
         /\ work'[w].verdict \in {"retry", "failed", "succeeded"}
         /\ work'[w].verdict = "succeeded" =>
              ingested' = [ingested EXCEPT ![work[w].job] = @ \cup {work[w].text}]
<1>1. /\ work[w] \in Carried /\ work[w] \in Held /\ work[w].stage = "ingest"
      /\ work[w].job \in Windows /\ work[w].text \in Facts
  BY DEF TypeOK, Carried, Held, Ingest, HeldKnown, TextsChosen, TextChosen
<1>2. CASE /\ ingested' = [ingested EXCEPT ![work[w].job] = @ \cup {work[w].text}]
           /\ work' = [work EXCEPT ![w] = Finishing(@, "succeeded")]
  BY <1>1, <1>2, FinishingFields DEF TypeOK, Others, Outcomes
<1>3. CASE /\ ingested' \in {ingested,
                             [ingested EXCEPT ![work[w].job] = @ \cup {work[w].text}]}
           /\ \E permanent \in BOOLEAN : work' = [work EXCEPT ![w] = Failing(@, permanent)]
  <2>1. PICK permanent \in BOOLEAN : work' = [work EXCEPT ![w] = Failing(@, permanent)]
    BY <1>3
  <2>2. work'[w] = Failing(work[w], permanent) /\ Others(w)
    BY <2>1 DEF TypeOK, Others
  <2>3. work' \in [Workers -> Held]
    BY <1>1, <2>1, FailingFields DEF TypeOK
  <2> QED BY <1>1, <1>3, <2>2, <2>3, FailingFields
<1> QED BY <1>2, <1>3 DEF Ingest

\* What writing the outcome does: it is written under the fence, or dropped.
LEMMA FinishEffect ==
  ASSUME TypeOK, TextsChosen, HeldKnown, NEW w \in Workers, FinishMemoryJob(w)
  PROVE  /\ work' \in [Workers -> Held] /\ Others(w) /\ work'[w] = Idle
         /\ work[w].stage = "finish" /\ work[w].job \in Windows
         /\ work[w].verdict \in {"retry"} \cup Outcomes
         /\ \/ jobs' = jobs
            \/ /\ jobs[work[w].job].status = "running"
               /\ jobs' = [jobs EXCEPT ![work[w].job].status = work[w].verdict]
               /\ jobs' \in [Windows -> JobRow]
<1>1. /\ work[w] \in Held /\ work[w].stage = "finish" /\ work[w].job \in Windows
      /\ work[w].verdict \in {"retry"} \cup Outcomes
  BY DEF TypeOK, Held, FinishMemoryJob, HeldKnown, TextsChosen, TextChosen
<1>2. Idle \in Held
  BY DEF Idle, Held, Stages, SummaryOrNone
<1>3. work' \in [Workers -> Held] /\ Others(w) /\ work'[w] = Idle
  BY <1>2 DEF FinishMemoryJob, TypeOK, Others
<1>4. [jobs EXCEPT ![work[w].job].status = work[w].verdict] \in [Windows -> JobRow]
  BY <1>1 DEF TypeOK, JobRow, Statuses
<1> QED BY <1>1, <1>3, <1>4 DEF FinishMemoryJob, Fenced

-----------------------------------------------------------------------------
(* The conversation.                                                       *)

NextSeq(s) == Len(history[s]) + 1
NextTurn(s) == Len(turns[s]) + 1

\* What CommitTurn appends.
LEMMA CommittedTurn ==
  ASSUME TypeOK, WithinHistory, NEW p \in Procs, NEW s \in Sessions, CommitTurn(p, s)
  PROVE  /\ NextSeq(s) \in 1 .. MaxSeq /\ NextTurn(s) \in 1 .. NextSeq(s)
         /\ SourcesFrom(s) \in 1 .. NextSeq(s)
         /\ TurnRow(s, NextSeq(s)) \in Row
         /\ history' = [history EXCEPT ![s] = Append(@, "answer")]
         /\ turns' = [turns EXCEPT ![s] = Append(@, TurnRow(s, NextSeq(s)))]
         /\ turns[s] = <<>> => SourcesFrom(s) \in Spoken(s, SourcesFrom(s), NextSeq(s))
<1> DEFINE seq == Len(history[s]) + 1
<1> DEFINE t == Len(turns[s]) + 1
<1>1. /\ history[s] \in Seq(Kinds) /\ turns[s] \in Seq(Row)
      /\ Len(history[s]) \in Nat /\ Len(turns[s]) \in Nat /\ MaxSeq \in Nat
  BY MemoryAssumption DEF TypeOK
<1>2. Len(history[s]) < MaxSeq /\ history[s] # <<>>
  BY DEF CommitTurn, Holds, Follows, Last
<1>3. seq \in 1 .. MaxSeq /\ t \in 1 .. seq
  BY <1>1, <1>2 DEF WithinHistory, Within
<1>4. SourcesFrom(s) \in 1 .. seq /\ (turns[s] = <<>> => SourcesFrom(s) \in Spoken(s, SourcesFrom(s), seq))
  <2>1. CASE turns[s] = <<>>
    <3> DEFINE U == {q \in DOMAIN history[s] : history[s][q] = "user"}
    <3>1. U \in SUBSET (0 .. Len(history[s])) /\ 1 \in U
      BY <1>1, <1>2 DEF WithinHistory, Within
    <3>2. Greatest(U) \in U \cup {0} /\ 1 <= Greatest(U)
      BY <1>1, <3>1, GreatestOf
    <3>3. SourcesFrom(s) = Greatest(U)
      BY <2>1 DEF SourcesFrom
    <3>4. Greatest(U) \in 1 .. Len(history[s]) /\ history[s][Greatest(U)] = "user"
      BY <1>1, <3>2
    <3> HIDE DEF U
    <3> QED BY <1>1, <3>3, <3>4 DEF Spoken
  <2>2. CASE turns[s] # <<>>
    <3>1. Len(turns[s]) \in 1 .. Len(turns[s])
      BY <1>1, <2>2
    <3>2. turns[s][Len(turns[s])] \in Row
      BY <1>1, <3>1
    <3>3. turns[s][Len(turns[s])].answer \in 1 .. MaxSeq
      BY <3>2 DEF Row
    <3>4. turns[s][Len(turns[s])].answer <= Len(history[s])
      BY <3>1 DEF WithinHistory, Within
    <3> QED BY <1>1, <2>2, <3>3, <3>4 DEF SourcesFrom
  <2> QED BY <2>1, <2>2
<1>5. TurnRow(s, seq) \in Row
  <2>1. Spoken(s, SourcesFrom(s), seq) \subseteq 1 .. seq
    BY <1>1, <1>3, <1>4 DEF Spoken
  <2> HIDE DEF seq
  <2> QED BY <1>1, <1>3, <2>1 DEF TurnRow, Row
<1> QED BY <1>3, <1>4, <1>5 DEF CommitTurn, NextSeq, NextTurn

\* The hook of a completed third turn is about a window.
LEMMA DueWindow ==
  ASSUME NEW s \in Sessions, NEW t \in 1 .. MaxSeq, Due(s, t)
  PROVE  <<s, t>> \in Windows
BY MemoryAssumption DEF Due, Windows

-----------------------------------------------------------------------------
(* The inductive invariant, one conjunct after another.                    *)

\* What the lapse of a lease does.
LEMMA LapseEffect ==
  ASSUME TypeOK, NEW j \in Windows, Lapse(j)
  PROVE  /\ jobs' \in [Windows -> JobRow]
         /\ jobs[j].status # "none"
         /\ \A i \in Windows :
              /\ jobs'[i].status = jobs[i].status /\ jobs'[i].attempts = jobs[i].attempts
              /\ jobs'[i].summary = jobs[i].summary /\ jobs'[i].sources = jobs[i].sources
BY DEF Lapse, TypeOK, JobRow

\* Each action keeps the types.
LEMMA TypeStep ==
  ASSUME TypeOK, WithinHistory, WithinTurns, HeldKnown, TextsChosen, [Next]_vars
  PROVE  TypeOK'
<1> USE DEF TypeOK, vars, conversation, pipeline
<1>1. CASE UNCHANGED vars
  BY <1>1
<1>2. ASSUME NEW p \in Procs, Start(p) PROVE TypeOK'
  <2>1. jobs' \in [Windows -> JobRow]
    BY <1>2, StartBooks, BookedJobs
  <2> QED BY <1>2, <2>1, MemoryAssumption DEF Start, Reconcile, Fault, NoFault
<1>3. ASSUME NEW p \in Procs, Close(p) PROVE TypeOK'
  BY <1>3, MemoryAssumption DEF Close, Fault
<1>4. ASSUME NEW p \in Procs, Exit(p) PROVE TypeOK'
  BY <1>4 DEF Exit
<1>5. ASSUME NEW p \in Procs, Crash(p) PROVE TypeOK'
  <2>1. Idle \in Held
    BY DEF Idle, Held, Stages, SummaryOrNone
  <2> QED BY <1>5, <2>1, MemoryAssumption DEF Crash, Fault
<1>6. ASSUME NEW p \in Procs, PostReactTurn(p) PROVE TypeOK'
  <2>1. jobs' \in [Windows -> JobRow]
    BY <1>6, HookBooks, BookedJobs
  <2> QED BY <1>6, <2>1, MemoryAssumption DEF PostReactTurn, Fault, NoFault
<1>7. ASSUME NEW p \in Procs, NEW s \in Sessions, CommitTurn(p, s) PROVE TypeOK'
  <2>1. history' \in [Sessions -> Seq(Kinds)]
    <3>1. "answer" \in Kinds /\ history' = [history EXCEPT ![s] = Append(@, "answer")]
      BY <1>7, CommittedTurn DEF Kinds
    <3> QED BY <3>1
  <2>2. turns' \in [Sessions -> Seq(Row)]
    <3>1. TurnRow(s, NextSeq(s)) \in Row
      BY <1>7, CommittedTurn
    <3>2. turns' = [turns EXCEPT ![s] = Append(@, TurnRow(s, NextSeq(s)))]
      BY <1>7, CommittedTurn
    <3> QED BY <3>1, <3>2
  <2>3. hooks' \in [Procs -> SUBSET Hook]
    <3> DEFINE h == [job |-> <<s, NextTurn(s)>>, answer |-> NextSeq(s)]
    <3>1. NextSeq(s) \in 1 .. MaxSeq /\ NextTurn(s) \in 1 .. NextSeq(s) /\ MaxSeq \in Nat
      BY <1>7, CommittedTurn, MemoryAssumption
    <3>2. NextTurn(s) \in 1 .. MaxSeq
      BY <3>1
    <3>3. Due(s, NextTurn(s)) => h \in Hook
      BY <3>1, <3>2, DueWindow DEF Hook
    <3>4. \/ hooks' = hooks
          \/ Due(s, NextTurn(s)) /\ hooks' = [hooks EXCEPT ![p] = @ \cup {h}]
      BY <1>7 DEF CommitTurn, NextTurn, NextSeq
    <3> HIDE DEF h
    <3>5. hooks[p] \in SUBSET Hook
      OBVIOUS
    <3> QED BY <3>3, <3>4, <3>5
  <2> QED BY <1>7, <2>1, <2>2, <2>3 DEF CommitTurn
<1>8. ASSUME NEW p \in Procs, NEW s \in Sessions, NEW kind \in Kinds, Converse(p, s, kind)
      PROVE TypeOK'
  BY <1>8 DEF Converse
<1>9. ASSUME NEW j \in Windows, Lapse(j) PROVE TypeOK'
  <2>1. faults' \in 0 .. MaxFaults
    BY <1>9, MemoryAssumption DEF Lapse, Fault, NoFault
  <2> QED BY <1>9, <2>1, LapseEffect DEF Lapse
<1>10. ASSUME NEW w \in Workers, NEW j \in Windows, Claim(w, j) PROVE TypeOK'
  <2>1. work' \in [Workers -> Held] /\ jobs' \in [Windows -> JobRow]
    BY <1>10, ClaimEffect
  <2> QED BY <1>10, <2>1 DEF Claim
<1>11. ASSUME NEW w \in Workers, Summarize(w) PROVE TypeOK'
  BY <1>11, SummarizeEffect DEF Summarize
<1>12. ASSUME NEW w \in Workers, SaveMemorySummary(w) PROVE TypeOK'
  <2>1. work' \in [Workers -> Held] /\ jobs' \in [Windows -> JobRow]
    <3> HIDE DEF TypeOK
    <3> QED BY <1>12, SaveEffect DEF TypeOK
  <2>2. UNCHANGED <<history, turns, proc, hooks, ingested, calls>>
    BY <1>12 DEF SaveMemorySummary
  <2>3. NoFault \/ Fault("database")
    BY <1>12 DEF SaveMemorySummary
  <2>4. faults' \in 0 .. MaxFaults
    BY <2>3, MemoryAssumption DEF Fault, NoFault
  <2> QED BY <2>1, <2>2, <2>4
<1>13. ASSUME NEW w \in Workers, Ingest(w) PROVE TypeOK'
  <2>1. /\ work' \in [Workers -> Held] /\ work[w].job \in Windows /\ work[w].text \in Facts
        /\ ingested' \in {ingested, [ingested EXCEPT ![work[w].job] = @ \cup {work[w].text}]}
    <3> HIDE DEF TypeOK
    <3> QED BY <1>13, IngestEffect
  <2>2. ingested' \in [Windows -> SUBSET Facts]
    <3> DEFINE x == work[w].text
    <3> DEFINE j == work[w].job
    <3>1. x \in Facts /\ j \in Windows /\ ingested' \in {ingested, [ingested EXCEPT ![j] = @ \cup {x}]}
      BY <2>1
    <3> HIDE DEF x, j
    <3>2. ingested[j] \cup {x} \subseteq Facts
      BY <3>1
    <3> QED BY <3>1, <3>2
  <2>3. calls' \in [Windows -> Nat] /\ UNCHANGED <<history, turns, jobs, proc, hooks, faults>>
    BY <1>13, <2>1 DEF Ingest
  <2> QED BY <2>1, <2>2, <2>3
<1>14. ASSUME NEW w \in Workers, FinishMemoryJob(w) PROVE TypeOK'
  <2>1. work' \in [Workers -> Held] /\ jobs' \in [Windows -> JobRow]
    BY <1>14, FinishEffect
  <2> QED BY <1>14, <2>1, MemoryAssumption DEF FinishMemoryJob, Fault, NoFault
<1> QED BY <1>1, <1>2, <1>3, <1>4, <1>5, <1>6, <1>7, <1>8, <1>9, <1>10, <1>11, <1>12,
   <1>13, <1>14 DEF Next, Process

\* A worker keeps to its job and its attempt until it is idle.
Continues(w) ==
  work'[w] = Idle \/ (work[w].stage # "idle" /\ work'[w].stage # "idle"
                      /\ SameAttempt(work'[w], work[w]))

\* Rows are not removed and attempts only grow.
JobsGrow ==
  \A j \in Windows :
    /\ jobs[j].status # "none" => jobs'[j].status # "none"
    /\ jobs'[j].attempts >= jobs[j].attempts

\* An idle loop holds nothing.
LEMMA IdleStage == Idle.stage = "idle"
BY DEF Idle

\* A loop that does not move keeps to its attempt.
LEMMA StayContinues ==
  ASSUME HeldKnown, NEW w \in Workers, work'[w] = work[w] PROVE Continues(w)
BY DEF HeldKnown, Continues, SameAttempt

\* While loops keep to their attempts, what they hold stays known and distinct.
LEMMA HeldContinues ==
  ASSUME TypeOK, TypeOK', HeldKnown, AttemptsDiffer, JobsGrow,
         \A w \in Workers : Continues(w)
  PROVE  HeldKnown' /\ AttemptsDiffer'
<1>1. HeldKnown'
  <2> SUFFICES ASSUME NEW w \in Workers, work'[w].stage # "idle"
               PROVE  /\ work'[w].job \in Windows
                      /\ jobs'[work'[w].job].status # "none"
                      /\ work'[w].attempts \in 1 .. jobs'[work'[w].job].attempts
    <3>1. \A w \in Workers : work'[w].stage = "idle" => work'[w] = Idle
      BY DEF Continues
    <3> QED BY <3>1 DEF HeldKnown
  <2>1. work[w].stage # "idle" /\ work'[w].job = work[w].job /\ work'[w].attempts = work[w].attempts
    BY IdleStage DEF Continues, SameAttempt
  <2> DEFINE j == work[w].job
  <2>2. j \in Windows /\ jobs[j].status # "none" /\ work[w].attempts \in 1 .. jobs[j].attempts
    BY <2>1 DEF HeldKnown
  <2>3. jobs[j].attempts \in Nat /\ jobs'[j].attempts \in Nat
    BY <2>2 DEF TypeOK, JobRow
  <2> QED BY <2>1, <2>2, <2>3 DEF JobsGrow
<1>2. AttemptsDiffer'
  BY IdleStage DEF AttemptsDiffer, Continues, SameAttempt
<1> QED BY <1>1, <1>2

\* What a write of one column leaves alone.
LEMMA WriteSummary ==
  ASSUME TypeOK, NEW j \in Windows, NEW x, jobs' = [jobs EXCEPT ![j].summary = x]
  PROVE  /\ jobs'[j].summary = x
         /\ \A i \in Windows :
              /\ i # j => jobs'[i] = jobs[i]
              /\ jobs'[i].attempts = jobs[i].attempts /\ jobs'[i].sources = jobs[i].sources
              /\ jobs'[i].status = jobs[i].status
BY DEF JobRow, TypeOK

\* The same for the status.
LEMMA WriteStatus ==
  ASSUME TypeOK, NEW j \in Windows, NEW x, jobs' = [jobs EXCEPT ![j].status = x]
  PROVE  /\ jobs'[j].status = x
         /\ \A i \in Windows :
              /\ i # j => jobs'[i] = jobs[i]
              /\ jobs'[i].attempts = jobs[i].attempts /\ jobs'[i].sources = jobs[i].sources
              /\ jobs'[i].summary = jobs[i].summary
BY DEF JobRow, TypeOK

\* Every step but a claim.
LEMMA OtherStepsContinue ==
  ASSUME TypeOK, WithinTurns, HeldKnown, Unbooked, TextsChosen, [Next]_vars,
         ~\E w \in Workers, j \in Windows : Claim(w, j)
  PROVE  JobsGrow /\ \A w \in Workers : Continues(w)
<1> DEFINE Goal == JobsGrow /\ \A w \in Workers : Continues(w)
<1>1. \A j \in Windows : jobs[j].attempts \in Nat
  BY DEF TypeOK, JobRow
<1>2. /\ jobs' = jobs => JobsGrow
      /\ work' = work => \A w \in Workers : Continues(w)
  BY <1>1, StayContinues DEF JobsGrow
<1>3. ASSUME Booking PROVE JobsGrow
  <2>1. ASSUME NEW j \in Windows
        PROVE  /\ jobs[j].status # "none" => jobs'[j].status # "none"
               /\ jobs'[j].attempts >= jobs[j].attempts
    <3>1. jobs'[j] = jobs[j] \/ NewlyBooked(j)
      BY <1>3, BookedJobs
    <3>2. NewlyBooked(j) => jobs[j].attempts = 0 /\ jobs'[j].attempts = 0 /\ jobs[j].status = "none"
      BY DEF Unbooked, NewlyBooked
    <3> QED BY <1>1, <3>1, <3>2
  <2> QED BY <2>1 DEF JobsGrow
<1>4. ASSUME NEW w \in Workers, Others(w), Continues(w) PROVE \A v \in Workers : Continues(v)
  BY <1>4, StayContinues DEF Others
<1>5. ASSUME NEW w \in Workers, SameAttempt(work'[w], work[w]),
             work[w].stage # "idle", work'[w].stage # "idle"
      PROVE  Continues(w)
  BY <1>5 DEF Continues
<1>6. CASE UNCHANGED vars
  BY <1>2, <1>6 DEF vars
<1>7. ASSUME NEW p \in Procs, Start(p) PROVE Goal
  BY <1>2, <1>3, <1>7, StartBooks DEF Start
<1>8. ASSUME NEW p \in Procs, Close(p) \/ Exit(p) PROVE Goal
  BY <1>2, <1>8 DEF Close, Exit
<1>9. ASSUME NEW p \in Procs, Crash(p) PROVE Goal
  <2>1. \A w \in Workers : work'[w] = Idle \/ work'[w] = work[w]
    BY <1>9 DEF Crash
  <2> QED BY <1>2, <1>9, <2>1, StayContinues DEF Crash, Continues
<1>10. ASSUME NEW p \in Procs, PostReactTurn(p) PROVE Goal
  BY <1>2, <1>3, <1>10, HookBooks DEF PostReactTurn
<1>11. ASSUME NEW p \in Procs, NEW s \in Sessions,
              CommitTurn(p, s) \/ \E kind \in Kinds : Converse(p, s, kind)
       PROVE  Goal
  BY <1>2, <1>11 DEF CommitTurn, Converse
<1>12. ASSUME NEW j \in Windows, Lapse(j) PROVE Goal
  <2>1. JobsGrow
    BY <1>1, <1>12, LapseEffect DEF JobsGrow
  <2>2. work' = work
    BY <1>12 DEF Lapse
  <2> QED BY <1>2, <2>1, <2>2
<1>13. ASSUME NEW w \in Workers, Summarize(w) PROVE Goal
  <2>1. Continues(w) /\ Others(w)
    BY <1>5, <1>13, SummarizeEffect
  <2>2. jobs' = jobs
    BY <1>13 DEF Summarize
  <2> QED BY <1>2, <1>4, <2>1, <2>2
<1>14. ASSUME NEW w \in Workers, SaveMemorySummary(w) PROVE Goal
  <2>1. Continues(w) /\ Others(w)
    BY <1>5, <1>14, SaveEffect
  <2>2. \/ jobs' = jobs
        \/ jobs' = [jobs EXCEPT ![work[w].job].summary = work[w].text] /\ work[w].job \in Windows
    BY <1>14, SaveEffect
  <2>3. JobsGrow
    <3>1. CASE jobs' = jobs
      BY <1>2, <3>1
    <3>2. CASE jobs' # jobs
      <4>1. \A i \in Windows : jobs'[i].attempts = jobs[i].attempts /\ jobs'[i].status = jobs[i].status
        BY <2>2, <3>2, WriteSummary
      <4> QED BY <1>1, <4>1 DEF JobsGrow
    <3> QED BY <3>1, <3>2
  <2> QED BY <1>4, <2>1, <2>3
<1>15. ASSUME NEW w \in Workers, Ingest(w) PROVE Goal
  <2>1. Continues(w) /\ Others(w)
    BY <1>5, <1>15, IngestEffect
  <2>2. jobs' = jobs
    BY <1>15 DEF Ingest
  <2> QED BY <1>2, <1>4, <2>1, <2>2
<1>16. ASSUME NEW w \in Workers, FinishMemoryJob(w) PROVE Goal
  <2>1. Continues(w) /\ Others(w)
    BY <1>16, FinishEffect DEF Continues
  <2>2. \/ jobs' = jobs
        \/ /\ jobs' = [jobs EXCEPT ![work[w].job].status = work[w].verdict]
           /\ work[w].job \in Windows /\ work[w].verdict # "none"
    BY <1>16, FinishEffect DEF Outcomes
  <2>3. JobsGrow
    <3>1. CASE jobs' = jobs
      BY <1>2, <3>1
    <3>2. CASE jobs' # jobs
      <4> DEFINE j == work[w].job
      <4>1. \A i \in Windows :
              jobs'[i].attempts = jobs[i].attempts /\ (i # j => jobs'[i] = jobs[i])
        BY <2>2, <3>2, WriteStatus
      <4>2. jobs'[j].status = work[w].verdict
        BY <2>2, <3>2, WriteStatus
      <4>3. work[w].verdict # "none"
        BY <2>2, <3>2
      <4> QED BY <1>1, <4>1, <4>2, <4>3 DEF JobsGrow
    <3> QED BY <3>1, <3>2
  <2> QED BY <1>4, <2>1, <2>3
<1> QED BY <1>6, <1>7, <1>8, <1>9, <1>10, <1>11, <1>12, <1>13, <1>14, <1>15, <1>16
   DEF Next, Process

\* What is held stays known, and two attempts at one job differ: a claim takes the
\* next number.
LEMMA HeldStep ==
  ASSUME TypeOK, TypeOK', WithinTurns, HeldKnown, AttemptsDiffer, Unbooked, TextsChosen,
         [Next]_vars
  PROVE  HeldKnown' /\ AttemptsDiffer'
<1>1. CASE ~\E w \in Workers, j \in Windows : Claim(w, j)
  BY <1>1, OtherStepsContinue, HeldContinues
<1>2. ASSUME NEW w \in Workers, NEW j \in Windows, Claim(w, j)
      PROVE  HeldKnown' /\ AttemptsDiffer'
  <2>1. /\ \A v \in Workers : v # w => work'[v] = work[v]
        /\ work'[w].job = j /\ work'[w].attempts = jobs[j].attempts + 1
        /\ work'[w].stage # "idle"
        /\ \A i \in Windows : i # j => jobs'[i] = jobs[i]
        /\ jobs'[j].status = "running" /\ jobs'[j].attempts = jobs[j].attempts + 1
    BY <1>2, ClaimEffect DEF Others
  <2>0. jobs[j].attempts \in Nat
    BY DEF TypeOK, JobRow
  <2>2. \A v \in Workers : v # w /\ work[v].stage # "idle" =>
          /\ work[v].job \in Windows /\ jobs[work[v].job].status # "none"
          /\ work[v].attempts \in 1 .. jobs[work[v].job].attempts
    BY DEF HeldKnown
  <2>3. \A v \in Workers : v # w /\ work[v].stage = "idle" => work[v] = Idle
    BY DEF HeldKnown
  <2>4. ASSUME NEW v \in Workers
        PROVE  IF work'[v].stage = "idle" THEN work'[v] = Idle
               ELSE /\ work'[v].job \in Windows /\ jobs'[work'[v].job].status # "none"
                    /\ work'[v].attempts \in 1 .. jobs'[work'[v].job].attempts
    <3>1. CASE v = w
      BY <2>0, <2>1, <3>1
    <3>2. CASE v # w
      BY <2>0, <2>1, <2>2, <2>3, <3>2
    <3> QED BY <3>1, <3>2
  <2>5. \A v \in Workers : v # w /\ work[v].stage # "idle" /\ work[v].job = j =>
          work[v].attempts # work'[w].attempts
    BY <2>0, <2>1, <2>2
  <2>6. AttemptsDiffer'
    BY <2>1, <2>5 DEF AttemptsDiffer
  <2> QED BY <2>4, <2>6 DEF HeldKnown
<1> QED BY <1>1, <1>2

-----------------------------------------------------------------------------
(* What a step does to jobs, workers and the pipeline.                     *)

\* Jobs are booked, workers crash, or one of the steps of jobs and workers.
Gone ==
  (\A w \in Workers : work'[w] = work[w] \/ work'[w] = Idle) /\ UNCHANGED <<jobs, pipeline>>

StepKinds ==
  \/ Booking /\ UNCHANGED <<work, pipeline>>
  \/ Gone
  \/ \E j \in Windows : Lapse(j)
  \/ \E w \in Workers : Process(w) \/ \E j \in Windows : Claim(w, j)

\* Every step is of one of these kinds.
LEMMA StepIsOfAKind ==
  ASSUME TypeOK, WithinTurns, [Next]_vars PROVE StepKinds
<1>1. CASE UNCHANGED vars
  BY <1>1, NothingBooked DEF vars, StepKinds, pipeline
<1>2. ASSUME NEW p \in Procs, Start(p) \/ PostReactTurn(p) PROVE StepKinds
  BY <1>2, StartBooks, HookBooks DEF Start, PostReactTurn, StepKinds, pipeline
<1>3. ASSUME NEW p \in Procs, Close(p) \/ Exit(p) PROVE StepKinds
  BY <1>3, NothingBooked DEF Close, Exit, StepKinds, pipeline
<1>4. ASSUME NEW p \in Procs, Crash(p) PROVE StepKinds
  BY <1>4 DEF Crash, StepKinds, Gone, pipeline
<1>5. ASSUME NEW p \in Procs, NEW s \in Sessions,
             CommitTurn(p, s) \/ \E kind \in Kinds : Converse(p, s, kind)
      PROVE  StepKinds
  BY <1>5, NothingBooked DEF CommitTurn, Converse, StepKinds, pipeline
<1>6. ASSUME NEW j \in Windows, Lapse(j) PROVE StepKinds
  BY <1>6 DEF StepKinds
<1>7. ASSUME NEW w \in Workers, Process(w) \/ \E j \in Windows : Claim(w, j) PROVE StepKinds
  BY <1>7 DEF StepKinds
<1> QED BY <1>1, <1>2, <1>3, <1>4, <1>5, <1>6, <1>7 DEF Next

\* A booked job keeps its sources, and jobs without a row stay blank.
LEMMA JobsKeep ==
  ASSUME TypeOK, HeldKnown, TextsChosen, Unbooked, StepKinds
  PROVE  /\ Unbooked'
         /\ \A j \in Windows :
              \/ /\ jobs'[j].sources = jobs[j].sources
                 /\ jobs'[j].status # "none" => jobs[j].status # "none"
              \/ NewlyBooked(j)
<1> DEFINE Kept == \A j \in Windows :
                     /\ jobs'[j].sources = jobs[j].sources
                     /\ jobs'[j].status # "none" => jobs[j].status # "none"
           Goal == /\ Unbooked'
                   /\ \A j \in Windows :
                        \/ /\ jobs'[j].sources = jobs[j].sources
                           /\ jobs'[j].status # "none" => jobs[j].status # "none"
                        \/ NewlyBooked(j)
<1>1. ASSUME UNCHANGED jobs PROVE Goal
  BY <1>1 DEF Unbooked
<1>2. CASE Booking /\ UNCHANGED <<work, pipeline>>
  <2>1. \A j \in Windows : jobs'[j] = jobs[j] \/ NewlyBooked(j)
    BY <1>2, BookedJobs
  <2> QED BY <2>1 DEF Unbooked, NewlyBooked
<1>3. CASE Gone
  BY <1>1, <1>3 DEF Gone
<1>4. ASSUME NEW j \in Windows, Lapse(j) PROVE Goal
  BY <1>4, LapseEffect DEF Unbooked
<1>5. ASSUME NEW w \in Workers, NEW j \in Windows, Claim(w, j) PROVE Goal
  <2>1. /\ \A i \in Windows : i # j => jobs'[i] = jobs[i]
        /\ jobs'[j].sources = jobs[j].sources
        /\ jobs'[j].status = "running" /\ jobs[j].status # "none"
    BY <1>5, ClaimEffect
  <2>2. \A i \in Windows : i = j \/ jobs'[i] = jobs[i]
    BY <2>1
  <2> QED BY <2>1, <2>2 DEF Unbooked
<1>6. ASSUME NEW w \in Workers, Summarize(w) \/ Ingest(w) PROVE Goal
  BY <1>1, <1>6 DEF Summarize, Ingest
<1>7. ASSUME NEW w \in Workers, SaveMemorySummary(w) PROVE Goal
  <2>1. CASE jobs' # jobs
    <3>1. /\ work[w].job \in Windows /\ jobs[work[w].job].status = "running"
          /\ jobs' = [jobs EXCEPT ![work[w].job].summary = work[w].text]
      BY <1>7, <2>1, SaveEffect
    <3>2. \A i \in Windows :
            /\ i # work[w].job => jobs'[i] = jobs[i]
            /\ jobs'[i].sources = jobs[i].sources /\ jobs'[i].status = jobs[i].status
      BY <3>1, WriteSummary
    <3> QED BY <3>1, <3>2 DEF Unbooked
  <2> QED BY <1>1, <2>1
<1>8. ASSUME NEW w \in Workers, FinishMemoryJob(w) PROVE Goal
  <2>1. CASE jobs' # jobs
    <3>1. /\ work[w].job \in Windows /\ jobs[work[w].job].status = "running"
          /\ jobs' = [jobs EXCEPT ![work[w].job].status = work[w].verdict]
          /\ work[w].verdict # "none"
      BY <1>8, <2>1, FinishEffect DEF Outcomes
    <3>2. /\ \A i \in Windows :
               /\ i # work[w].job => jobs'[i] = jobs[i]
               /\ jobs'[i].sources = jobs[i].sources
          /\ jobs'[work[w].job].status = work[w].verdict
      BY <3>1, WriteStatus
    <3> QED BY <3>1, <3>2 DEF Unbooked
  <2> QED BY <1>1, <2>1
<1> QED BY <1>2, <1>3, <1>4, <1>5, <1>6, <1>7, <1>8 DEF StepKinds, Process

\* A worker that does not move keeps what it holds true while its job has no new
\* summary.
LEMMA TextKept ==
  ASSUME TypeOK, TypeOK', HeldKnown, NEW w \in Workers, TextChosen(w), work'[w] = work[w],
         work[w].stage # "idle" =>
           /\ jobs'[work[w].job].summary = jobs[work[w].job].summary
           /\ jobs'[work[w].job].attempts >= jobs[work[w].job].attempts
           /\ ingested[work[w].job] \subseteq ingested'[work[w].job]
  PROVE  TextChosen(w)'
<1>1. CASE work[w].stage = "idle"
  BY <1>1 DEF TextChosen
<1>2. CASE work[w].stage # "idle"
  <2> DEFINE j == work[w].job
  <2>1. j \in Windows /\ work[w].attempts \in 1 .. jobs[j].attempts
    BY <1>2 DEF HeldKnown
  <2>2. jobs[j].attempts \in Nat /\ jobs'[j].attempts \in Nat
    BY <2>1 DEF TypeOK, JobRow
  <2>3. work[w].attempts = jobs'[j].attempts => work[w].attempts = jobs[j].attempts
    BY <1>2, <2>1, <2>2
  <2> QED BY <1>2, <2>1, <2>3 DEF TextChosen
<1> QED BY <1>1, <1>2

\* An idle loop promises nothing about texts.
LEMMA IdleHasNoText == ASSUME NEW w, work'[w] = Idle PROVE TextChosen(w)'
<1>1. work'[w].stage = "idle"
  BY IdleStage
<1> QED BY <1>1 DEF TextChosen

\* The text of a job is chosen once: by its latest attempt, when there is none.
LEMMA TextStep ==
  ASSUME TypeOK, TypeOK', HeldKnown, AttemptsDiffer, Unbooked, TextsChosen, StepKinds
  PROVE  TextsChosen'
<1> SUFFICES ASSUME NEW v \in Workers PROVE TextChosen(v)'
  BY DEF TextsChosen
<1>0. TextChosen(v) /\ \A j \in Windows : jobs[j].attempts \in Nat
  BY DEF TextsChosen, TypeOK, JobRow
<1>k. ASSUME work'[v] = work[v], UNCHANGED <<jobs, pipeline>> PROVE TextChosen(v)'
  <2>1. work[v].stage # "idle" => work[v].job \in Windows
    BY DEF HeldKnown
  <2> QED BY <1>0, <1>k, <2>1, TextKept DEF pipeline
<1>1. CASE Booking /\ UNCHANGED <<work, pipeline>>
  <2>1. work[v].stage # "idle" => work[v].job \in Windows /\ jobs[work[v].job].status # "none"
    BY DEF HeldKnown
  <2>2. work[v].stage # "idle" => jobs'[work[v].job] = jobs[work[v].job]
    BY <1>1, <2>1, BookedJobs DEF NewlyBooked
  <2> QED BY <1>0, <1>1, <2>1, <2>2, TextKept DEF pipeline
<1>2. CASE Gone
  BY <1>k, <1>2, IdleHasNoText DEF Gone
<1>3. ASSUME NEW j \in Windows, Lapse(j) PROVE TextChosen(v)'
  <2>1. UNCHANGED <<work, pipeline>>
    BY <1>3 DEF Lapse
  <2>2. work[v].stage # "idle" => work[v].job \in Windows
    BY DEF HeldKnown
  <2>3. \A i \in Windows : jobs'[i].summary = jobs[i].summary /\ jobs'[i].attempts = jobs[i].attempts
    BY <1>3, LapseEffect
  <2> QED BY <1>0, <2>1, <2>2, <2>3, TextKept DEF pipeline
<1>4. ASSUME NEW w \in Workers, NEW j \in Windows, Claim(w, j) PROVE TextChosen(v)'
  <2>1. CASE v = w
    BY <1>4, <2>1, ClaimEffect DEF TextChosen, Outcomes
  <2>2. CASE v # w
    <3>1. work'[v] = work[v] /\ UNCHANGED pipeline
      BY <1>4, <2>2, ClaimEffect DEF Others, Claim
    <3>2. \A i \in Windows : jobs'[i].summary = jobs[i].summary /\ jobs'[i].attempts >= jobs[i].attempts
      BY <1>0, <1>4, ClaimEffect
    <3>3. work[v].stage # "idle" => work[v].job \in Windows
      BY DEF HeldKnown
    <3> QED BY <1>0, <3>1, <3>2, <3>3, TextKept DEF pipeline
  <2> QED BY <2>1, <2>2
<1>5. ASSUME NEW w \in Workers, Summarize(w) PROVE TextChosen(v)'
  <2>0. UNCHANGED <<jobs, pipeline>>
    BY <1>5 DEF Summarize
  <2>1. CASE v = w
    BY <1>0, <1>5, <2>0, <2>1, SummarizeEffect DEF TextChosen, Outcomes, SameAttempt
  <2>2. CASE v # w
    BY <1>k, <1>5, <2>0, <2>2, SummarizeEffect DEF Others
  <2> QED BY <2>1, <2>2
<1>6. ASSUME NEW w \in Workers, SaveMemorySummary(w) PROVE TextChosen(v)'
  <2>0. UNCHANGED pipeline
    BY <1>6 DEF SaveMemorySummary
  <2> DEFINE Fails == /\ jobs' = jobs /\ work'[w].stage = "finish"
                      /\ work'[w].verdict \in {"retry", "failed"}
  <2>1. CASE Fails
    <3>1. CASE v = w
      BY <2>1, <3>1 DEF TextChosen, Outcomes
    <3>2. CASE v # w
      BY <1>k, <1>6, <2>0, <2>1, <3>2, SaveEffect DEF Others
    <3> QED BY <3>1, <3>2
  <2>2. CASE ~Fails
    <3> DEFINE j == work[w].job
    <3>1. /\ j \in Windows /\ jobs[j].attempts = work[w].attempts /\ work[w].stage = "save"
          /\ jobs' = [jobs EXCEPT ![j].summary = work[w].text]
          /\ \/ work'[w].stage = "finish" /\ work'[w].verdict = "skipped"
             \/ /\ work'[w].stage = "ingest" /\ work[w].text \in Facts
                /\ work'[w].text = work[w].text
          /\ Others(w) /\ SameAttempt(work'[w], work[w])
      BY <1>6, <2>2, SaveEffect
    <3>2. jobs[j].summary = NoText
      BY <3>1 DEF TextsChosen, TextChosen
    <3>3. /\ jobs'[j].summary = work[w].text
          /\ \A i \in Windows :
              /\ i # j => jobs'[i] = jobs[i]
              /\ jobs'[i].attempts = jobs[i].attempts
      BY <3>1, WriteSummary
    <3>4. CASE v = w
      BY <3>1, <3>3, <3>4 DEF TextChosen, Outcomes, SameAttempt
    <3>5. CASE v # w
      <4>1. work'[v] = work[v]
        BY <3>1, <3>5 DEF Others
      <4>2. CASE work[v].stage # "idle" /\ work[v].job = j
        <5>1. work[v].attempts # jobs[j].attempts
          BY <3>1, <3>5, <4>2 DEF AttemptsDiffer
        <5>2. work[v].stage # "ingest"
          BY <1>0, <3>2, <4>2, MemoryAssumption DEF TextChosen
        <5> QED BY <1>0, <2>0, <3>1, <3>3, <4>1, <4>2, <5>1, <5>2 DEF TextChosen, pipeline
      <4>3. CASE work[v].stage = "idle"
        BY <4>1, <4>3, IdleHasNoText DEF HeldKnown
      <4>4. CASE work[v].stage # "idle" /\ work[v].job # j
        <5>1. work[v].job \in Windows
          BY <4>4 DEF HeldKnown
        <5>2. jobs'[work[v].job] = jobs[work[v].job]
          BY <3>3, <4>4, <5>1
        <5> QED BY <1>0, <2>0, <4>1, <4>4, <5>1, <5>2, TextKept DEF pipeline
      <4> QED BY <4>2, <4>3, <4>4
    <3> QED BY <3>4, <3>5
  <2> QED BY <2>1, <2>2
<1>7. ASSUME NEW w \in Workers, Ingest(w) PROVE TextChosen(v)'
  <2>0. UNCHANGED jobs
    BY <1>7 DEF Ingest
  <2>1. \A j \in Windows : ingested[j] \subseteq ingested'[j]
    <3> DEFINE i == work[w].job
               x == work[w].text
    <3>1. i \in Windows /\ ingested' \in {ingested, [ingested EXCEPT ![i] = @ \cup {x}]}
      BY <1>7, IngestEffect
    <3>2. ingested \in [Windows -> SUBSET Facts]
      BY DEF TypeOK
    <3> HIDE DEF i, x
    <3> QED BY <3>1, <3>2
  <2>2. CASE v = w
    <3>1. /\ work[w].job \in Windows /\ work'[w].job = work[w].job /\ work'[w].stage = "finish"
          /\ work'[w].verdict \in {"retry", "failed", "succeeded"}
          /\ work'[w].verdict = "succeeded" =>
               ingested' = [ingested EXCEPT ![work[w].job] = @ \cup {work[w].text}]
      BY <1>7, IngestEffect DEF SameAttempt
    <3>2. work'[w].verdict = "succeeded" => ingested'[work[w].job] # {}
      <4> DEFINE j == work[w].job
      <4> DEFINE x == work[w].text
      <4>1. ingested \in [Windows -> SUBSET Facts]
        BY DEF TypeOK
      <4>2. /\ j \in Windows
            /\ work'[w].verdict = "succeeded" => ingested' = [ingested EXCEPT ![j] = @ \cup {x}]
        BY <3>1
      <4> HIDE DEF j, x
      <4>3. work'[w].verdict = "succeeded" => ingested'[j] # {}
        BY <4>1, <4>2
      <4> QED BY <4>3 DEF j
    <3> QED BY <2>2, <3>1, <3>2 DEF TextChosen, Outcomes
  <2>3. CASE v # w
    <3>1. work'[v] = work[v]
      BY <1>7, <2>3, IngestEffect DEF Others
    <3>2. work[v].stage # "idle" => work[v].job \in Windows
      BY DEF HeldKnown
    <3> QED BY <1>0, <2>0, <2>1, <3>1, <3>2, TextKept
  <2> QED BY <2>2, <2>3
<1>8. ASSUME NEW w \in Workers, FinishMemoryJob(w) PROVE TextChosen(v)'
  <2>1. CASE v = w
    BY <1>8, <2>1, FinishEffect, IdleHasNoText
  <2>2. CASE v # w
    <3>1. work'[v] = work[v] /\ UNCHANGED pipeline
      BY <1>8, <2>2, FinishEffect DEF Others, FinishMemoryJob
    <3>2. \A i \in Windows : jobs'[i].summary = jobs[i].summary /\ jobs'[i].attempts = jobs[i].attempts
      <4>1. CASE jobs' = jobs
        BY <4>1
      <4>2. CASE jobs' # jobs
        <5>1. /\ work[w].job \in Windows
              /\ jobs' = [jobs EXCEPT ![work[w].job].status = work[w].verdict]
          BY <1>8, <4>2, FinishEffect
        <5> QED BY <5>1, WriteStatus
      <4> QED BY <4>1, <4>2
    <3>3. work[v].stage # "idle" => work[v].job \in Windows
      BY DEF HeldKnown
    <3> QED BY <1>0, <3>1, <3>2, <3>3, TextKept DEF pipeline
  <2> QED BY <2>1, <2>2
<1> QED BY <1>1, <1>2, <1>3, <1>4, <1>5, <1>6, <1>7, <1>8 DEF StepKinds, Process

-----------------------------------------------------------------------------
(* The calls of the pipeline.                                              *)

\* The calls stay accounted for while no attempt joins those that may still call.
LEMMA CountedKept ==
  ASSUME TypeOK, TypeOK', NEW j \in Windows, Counted(j), Open(j)' \subseteq Open(j),
         jobs'[j].attempts >= jobs[j].attempts, calls'[j] = calls[j]
  PROVE  Counted(j)'
<1>1. jobs[j].attempts \in Nat /\ jobs'[j].attempts \in Nat
  BY DEF TypeOK, JobRow
<1>2. 1 .. jobs[j].attempts \subseteq 1 .. jobs'[j].attempts
  BY <1>1
<1> QED BY <1>2 DEF Counted

\* No attempt joins if each worker that may call did so before, under the same
\* attempt.
LEMMA OpenShrinks ==
  ASSUME NEW j,
         \A w \in Workers :
           work'[w].stage \in {"summarize", "save", "ingest"} /\ work'[w].job = j =>
             /\ work[w].stage \in {"summarize", "save", "ingest"}
             /\ SameAttempt(work'[w], work[w])
  PROVE  Open(j)' \subseteq Open(j)
BY DEF Open, SameAttempt

\* A claim opens the next attempt, unless the limit is reached.
LEMMA ClaimCounted ==
  ASSUME TypeOK, TypeOK', CallsCounted, NEW w \in Workers, NEW i \in Windows, Claim(w, i)
  PROVE  CallsCounted'
<1> SUFFICES ASSUME NEW j \in Windows PROVE Counted(j)'
  BY DEF CallsCounted
<1>0. Counted(j) /\ jobs[j].attempts \in Nat
  BY DEF CallsCounted, TypeOK, JobRow
<1>1. /\ \A v \in Workers : v # w => work'[v] = work[v]
      /\ work'[w].job = i /\ work'[w].attempts = jobs[i].attempts + 1
      /\ work'[w].stage \in {"summarize", "ingest"} => work'[w].attempts <= RetryLimit
      /\ work'[w].stage \in {"finish", "summarize", "ingest"}
      /\ \A k \in Windows : k # i => jobs'[k] = jobs[k]
      /\ jobs'[i].attempts = jobs[i].attempts + 1
      /\ calls' = calls
  BY ClaimEffect DEF Others, Claim, pipeline
<1>2. CASE j # i
  <2>1. Open(j)' \subseteq Open(j)
    BY <1>1, <1>2 DEF Open
  <2> QED BY <1>0, <1>1, <1>2, <2>1, CountedKept
<1>3. CASE j = i
  <2> DEFINE next == jobs[j].attempts + 1
  <2>1. PICK called \in SUBSET ((1 .. RetryLimit) \cap (1 .. jobs[j].attempts)) :
          Cardinality(called) = calls[j] /\ called \cap Open(j) = {}
    BY <1>0 DEF Counted
  <2>2. next \notin called /\ jobs'[j].attempts = next
    BY <1>0, <1>1, <1>3
  <2>3. Open(j)' \subseteq Open(j) \cup {next}
    BY <1>1, <1>3 DEF Open
  <2>4. next \in Open(j)' => next \in Open(j) \/ next <= RetryLimit
    BY <1>1, <1>3 DEF Open
  <2>5. Open(j)' \subseteq 1 .. RetryLimit
    <3>1. next <= RetryLimit => next \in 1 .. RetryLimit
      BY <1>0, MemoryAssumption
    <3> QED BY <1>0, <2>3, <2>4, <3>1 DEF Counted
  <2>6. called \in SUBSET ((1 .. RetryLimit) \cap (1 .. jobs'[j].attempts))
    BY <1>0, <2>1, <2>2
  <2>7. called \cap Open(j)' = {} /\ Cardinality(called) = calls'[j]
    BY <1>1, <2>1, <2>2, <2>3
  <2> QED BY <2>5, <2>6, <2>7 DEF Counted
<1> QED BY <1>2, <1>3

\* A call uses up its attempt.
LEMMA IngestCounted ==
  ASSUME TypeOK, TypeOK', HeldKnown, AttemptsDiffer, TextsChosen, CallsCounted,
         NEW w \in Workers, Ingest(w)
  PROVE  CallsCounted'
<1> SUFFICES ASSUME NEW j \in Windows PROVE Counted(j)'
  BY DEF CallsCounted
<1> DEFINE i == work[w].job
           a == work[w].attempts
<1>0. Counted(j) /\ jobs[j].attempts \in Nat
  BY DEF CallsCounted, TypeOK, JobRow
<1>1. /\ Others(w) /\ work[w].stage = "ingest" /\ work'[w].stage = "finish"
      /\ i \in Windows /\ a \in 1 .. jobs[i].attempts
      /\ jobs' = jobs /\ calls' = [calls EXCEPT ![i] = @ + 1]
  BY IngestEffect DEF Ingest, HeldKnown
<1>2. Open(j)' \subseteq Open(j)
  <2>1. \A v \in Workers :
          work'[v].stage \in {"summarize", "save", "ingest"} /\ work'[v].job = j =>
            work'[v] = work[v]
    BY <1>1 DEF Others
  <2> QED BY <2>1, OpenShrinks DEF SameAttempt
<1>3. CASE j # i
  <2>1. calls'[j] = calls[j] /\ jobs'[j].attempts >= jobs[j].attempts
    BY <1>0, <1>1, <1>3 DEF TypeOK
  <2> QED BY <1>0, <1>2, <2>1, CountedKept
<1>4. CASE j = i
  <2>1. PICK called \in SUBSET ((1 .. RetryLimit) \cap (1 .. jobs[j].attempts)) :
          Cardinality(called) = calls[j] /\ called \cap Open(j) = {}
    BY <1>0 DEF Counted
  <2>2. a \in Open(j) /\ a \in 1 .. RetryLimit /\ a \in 1 .. jobs[j].attempts
    BY <1>0, <1>1, <1>4 DEF Open, Counted
  <2>3. IsFiniteSet(called)
    <3>1. IsFiniteSet(1 .. jobs[j].attempts)
      BY <1>0, FS_Interval
    <3>2. called \in SUBSET (1 .. jobs[j].attempts)
      BY <2>1
    <3> QED BY <3>1, <3>2, FS_Subset
  <2>4. Cardinality(called \cup {a}) = calls'[j]
    <3>1. a \notin called
      BY <2>1, <2>2
    <3>2. Cardinality(called \cup {a}) = Cardinality(called) + 1
      BY <2>3, <3>1, FS_AddElement
    <3> QED BY <1>1, <1>4, <2>1, <3>2 DEF TypeOK
  <2>5. a \notin Open(j)'
    <3> SUFFICES ASSUME NEW v \in Workers,
                        work'[v].stage \in {"summarize", "save", "ingest"},
                        work'[v].job = j, work'[v].attempts = a
                 PROVE  FALSE
      BY DEF Open
    <3>1. v # w
      BY <1>1
    <3>2. work'[v] = work[v]
      BY <1>1, <3>1 DEF Others
    <3> QED BY <1>1, <1>4, <3>1, <3>2 DEF AttemptsDiffer
  <2>6. called \cup {a} \in SUBSET ((1 .. RetryLimit) \cap (1 .. jobs'[j].attempts))
    BY <1>1, <2>1, <2>2
  <2>7. (called \cup {a}) \cap Open(j)' = {}
    BY <1>2, <2>1, <2>5
  <2> QED BY <1>0, <1>2, <2>4, <2>6, <2>7 DEF Counted
<1> QED BY <1>3, <1>4

\* The accounts of the calls.
LEMMA CallsStep ==
  ASSUME TypeOK, TypeOK', HeldKnown, AttemptsDiffer, Unbooked, TextsChosen, CallsCounted,
         JobsGrow, StepKinds
  PROVE  CallsCounted'
<1>k. ASSUME calls' = calls, \A j \in Windows : Open(j)' \subseteq Open(j) PROVE CallsCounted'
  BY <1>k, CountedKept DEF CallsCounted, JobsGrow
<1>1. CASE Booking /\ UNCHANGED <<work, pipeline>>
  BY <1>1, <1>k, OpenShrinks DEF pipeline, SameAttempt
<1>2. CASE Gone
  <2>1. \A w \in Workers : work'[w] = work[w] \/ work'[w].stage = "idle"
    BY <1>2, IdleStage DEF Gone
  <2>2. \A j \in Windows : Open(j)' \subseteq Open(j)
    BY <2>1, OpenShrinks DEF SameAttempt
  <2> QED BY <1>2, <1>k, <2>2 DEF Gone, pipeline
<1>3. ASSUME NEW j \in Windows, Lapse(j) PROVE CallsCounted'
  BY <1>3, <1>k, OpenShrinks DEF Lapse, pipeline, SameAttempt
<1>4. ASSUME NEW w \in Workers, NEW j \in Windows, Claim(w, j) PROVE CallsCounted'
  BY <1>4, ClaimCounted
<1>5. ASSUME NEW w \in Workers, Summarize(w) \/ SaveMemorySummary(w) \/ FinishMemoryJob(w)
      PROVE  CallsCounted'
  <2>1. /\ calls' = calls /\ Others(w)
        /\ \/ work'[w].stage = "idle"
           \/ /\ work[w].stage \in {"summarize", "save"} /\ SameAttempt(work'[w], work[w])
           \/ work'[w].stage = "finish"
    BY <1>5, SummarizeEffect, SaveEffect, FinishEffect, IdleStage
       DEF Summarize, SaveMemorySummary, FinishMemoryJob, pipeline
  <2>2. \A v \in Workers :
          work'[v].stage \in {"summarize", "save", "ingest"} =>
            /\ work[v].stage \in {"summarize", "save", "ingest"}
            /\ SameAttempt(work'[v], work[v])
    BY <2>1 DEF Others, SameAttempt
  <2>3. \A j \in Windows : Open(j)' \subseteq Open(j)
    BY <2>2, OpenShrinks
  <2> QED BY <1>k, <2>1, <2>3
<1>6. ASSUME NEW w \in Workers, Ingest(w) PROVE CallsCounted'
  BY <1>6, IngestCounted
<1> QED BY <1>1, <1>2, <1>3, <1>4, <1>5, <1>6 DEF StepKinds, Process

\* The calls of a job are no more than the attempts that made them.
LEMMA CountedIsBounded ==
  ASSUME TypeOK, CallsCounted PROVE CallsBounded
<1> SUFFICES ASSUME NEW j \in Windows PROVE calls[j] <= RetryLimit
  BY DEF CallsBounded
<1>1. PICK called \in SUBSET (1 .. RetryLimit) : Cardinality(called) = calls[j]
  BY DEF CallsCounted, Counted
<1>2. IsFiniteSet(1 .. RetryLimit) /\ Cardinality(1 .. RetryLimit) = RetryLimit
  BY FS_Interval, MemoryAssumption
<1> QED BY <1>1, <1>2, FS_Subset

-----------------------------------------------------------------------------
(* Messages and turns.                                                     *)

\* A session's conversation stays, gets a message, or gets an answer that completes
\* a turn.
SessionKinds(s) ==
  \/ history'[s] = history[s] /\ turns'[s] = turns[s]
  \/ \E kind \in Kinds :
       /\ Len(history[s]) < MaxSeq /\ Follows(s, kind)
       /\ history'[s] = Append(history[s], kind) /\ turns'[s] = turns[s]
  \/ /\ \E p \in Procs : CommitTurn(p, s)
     /\ history'[s] = Append(history[s], "answer")
     /\ turns'[s] = Append(turns[s], TurnRow(s, NextSeq(s)))

\* Every step is one of these for every session.
LEMMA SessionIsOfAKind ==
  ASSUME TypeOK, WithinHistory, [Next]_vars, NEW s \in Sessions PROVE SessionKinds(s)
<1>0. history \in [Sessions -> Seq(Kinds)] /\ turns \in [Sessions -> Seq(Row)]
  BY DEF TypeOK
<1>k. ASSUME UNCHANGED conversation PROVE SessionKinds(s)
  BY <1>k DEF conversation, SessionKinds
<1>1. CASE UNCHANGED vars
  BY <1>1, <1>k DEF vars, conversation
<1>2. ASSUME NEW p \in Procs,
             Start(p) \/ Close(p) \/ Exit(p) \/ Crash(p) \/ PostReactTurn(p)
      PROVE  SessionKinds(s)
  BY <1>2, <1>k DEF Start, Close, Exit, Crash, PostReactTurn
<1>3. ASSUME NEW p \in Procs, NEW x \in Sessions, CommitTurn(p, x) PROVE SessionKinds(s)
  <2>1. /\ history' = [history EXCEPT ![x] = Append(@, "answer")]
        /\ turns' = [turns EXCEPT ![x] = Append(@, TurnRow(x, NextSeq(x)))]
    BY <1>3, CommittedTurn
  <2>2. CASE x = s
    BY <1>0, <1>3, <2>1, <2>2 DEF SessionKinds
  <2>3. CASE x # s
    BY <1>0, <2>1, <2>3 DEF SessionKinds
  <2> QED BY <2>2, <2>3
<1>4. ASSUME NEW p \in Procs, NEW x \in Sessions, NEW kind \in Kinds, Converse(p, x, kind)
      PROVE  SessionKinds(s)
  <2>1. /\ history' = [history EXCEPT ![x] = Append(@, kind)] /\ turns' = turns
        /\ Len(history[x]) < MaxSeq /\ Follows(x, kind)
    BY <1>4 DEF Converse, Holds
  <2>2. CASE x = s
    BY <1>0, <2>1, <2>2 DEF SessionKinds
  <2>3. CASE x # s
    BY <1>0, <2>1, <2>3 DEF SessionKinds
  <2> QED BY <2>2, <2>3
<1>5. ASSUME NEW j \in Windows, Lapse(j) PROVE SessionKinds(s)
  BY <1>5, <1>k DEF Lapse
<1>6. ASSUME NEW w \in Workers, Process(w) \/ \E j \in Windows : Claim(w, j)
      PROVE  SessionKinds(s)
  BY <1>6, <1>k
     DEF Process, Summarize, SaveMemorySummary, Ingest, FinishMemoryJob, Claim
<1> QED BY <1>1, <1>2, <1>3, <1>4, <1>5, <1>6 DEF Next

\* Turns are only added.
LEMMA TurnsGrow ==
  ASSUME TypeOK, NEW s \in Sessions, SessionKinds(s)
  PROVE  /\ Len(turns'[s]) >= Len(turns[s]) /\ Len(turns[s]) \in Nat
         /\ \A n \in 1 .. Len(turns[s]) : turns'[s][n] = turns[s][n]
<1>1. turns[s] \in Seq(Row) /\ Len(turns[s]) \in Nat
  BY DEF TypeOK
<1>2. CASE turns'[s] = turns[s]
  BY <1>1, <1>2
<1>3. CASE turns'[s] = Append(turns[s], TurnRow(s, NextSeq(s)))
  <2> DEFINE row == TurnRow(s, NextSeq(s))
             old == turns[s]
             new == turns'[s]
  <2>1. old \in Seq(Row) /\ new = Append(old, row)
    BY <1>1, <1>3
  <2> HIDE DEF row, old, new
  <2>2. Len(new) = Len(old) + 1 /\ \A n \in 1 .. Len(old) : new[n] = old[n]
    BY <2>1
  <2> QED BY <1>1, <2>2 DEF old, new
<1> QED BY <1>2, <1>3 DEF SessionKinds

\* No job and no hook is about turns that are not there.
LEMMA WithinTurnsStep ==
  ASSUME TypeOK, HeldKnown, Unbooked, TextsChosen, WithinHistory, WithinTurns, [Next]_vars
  PROVE  WithinTurns'
<1>1. \A s \in Sessions :
        /\ Len(turns'[s]) >= Len(turns[s]) /\ Len(turns[s]) \in Nat /\ Len(turns'[s]) \in Nat
  <2>1. \A s \in Sessions : Len(turns'[s]) >= Len(turns[s]) /\ Len(turns[s]) \in Nat
    BY SessionIsOfAKind, TurnsGrow
  <2>2. TypeOK'
    BY TypeStep
  <2>3. \A s \in Sessions : Len(turns'[s]) \in Nat
    BY <2>2 DEF TypeOK
  <2> QED BY <2>1, <2>3
<1>2. \A j \in Scheduled' : j[2] <= Len(turns'[j[1]])
  <2> SUFFICES ASSUME NEW j \in Windows, jobs'[j].status # "none"
               PROVE  j[2] <= Len(turns'[j[1]])
    BY DEF Scheduled
  <2>1. jobs[j].status # "none" \/ NewlyBooked(j)
    BY JobsKeep, StepIsOfAKind
  <2>2. j[2] <= Len(turns[j[1]]) /\ j[1] \in Sessions /\ j[2] \in Nat
    BY <2>1, WindowParts DEF NewlyBooked, WithinTurns, Scheduled
  <2> QED BY <1>1, <2>2
<1>3. ASSUME NEW p \in Procs, NEW h \in hooks'[p] PROVE h.job[2] <= Len(turns'[h.job[1]])
  <2>1. ASSUME h \in hooks[p] PROVE h.job[2] <= Len(turns'[h.job[1]])
    <3>1. h.job \in Windows /\ h.job[2] <= Len(turns[h.job[1]])
      BY <2>1 DEF TypeOK, Hook, WithinTurns
    <3>2. h.job[1] \in Sessions /\ h.job[2] \in Nat
      BY <3>1, WindowParts
    <3> QED BY <1>1, <3>1, <3>2
  <2>2. CASE h \notin hooks[p]
    <3>1. PICK q \in Procs, s \in Sessions : CommitTurn(q, s)
      <4> SUFFICES ASSUME ~\E q \in Procs, s \in Sessions : CommitTurn(q, s)
                   PROVE  hooks'[p] \subseteq hooks[p]
        BY <1>3, <2>2
      <4>0. hooks \in [Procs -> SUBSET Hook]
        BY DEF TypeOK
      <4>1. CASE UNCHANGED vars
        BY <4>1 DEF vars
      <4>2. ASSUME NEW q \in Procs,
                   Start(q) \/ Close(q) \/ Exit(q) \/ Crash(q) \/ PostReactTurn(q)
            PROVE  hooks'[p] \subseteq hooks[p]
        BY <4>0, <4>2 DEF Start, Close, Exit, Crash, PostReactTurn
      <4>3. ASSUME NEW q \in Procs, NEW s \in Sessions, NEW kind \in Kinds,
                   Converse(q, s, kind)
            PROVE  hooks'[p] \subseteq hooks[p]
        BY <4>3 DEF Converse
      <4>4. ASSUME NEW j \in Windows, Lapse(j) PROVE hooks'[p] \subseteq hooks[p]
        BY <4>4 DEF Lapse
      <4>5. ASSUME NEW w \in Workers, Process(w) \/ \E j \in Windows : Claim(w, j)
            PROVE  hooks'[p] \subseteq hooks[p]
        BY <4>5 DEF Process, Summarize, SaveMemorySummary, Ingest, FinishMemoryJob, Claim
      <4> QED BY <4>1, <4>2, <4>3, <4>4, <4>5 DEF Next
    <3>2. h.job = <<s, NextTurn(s)>>
      BY <1>3, <2>2, <3>1 DEF CommitTurn, TypeOK, NextTurn
    <3>3. Len(turns'[s]) = Len(turns[s]) + 1
      <4>1. turns' = [turns EXCEPT ![s] = Append(@, TurnRow(s, NextSeq(s)))]
        BY <3>1, CommittedTurn
      <4>2. turns[s] \in Seq(Row) /\ turns'[s] = Append(turns[s], TurnRow(s, NextSeq(s)))
        BY <4>1 DEF TypeOK
      <4> QED BY <4>2
    <3> QED BY <1>1, <3>2, <3>3 DEF NextTurn
  <2> QED BY <2>1, <2>2
<1> QED BY <1>2, <1>3 DEF WithinTurns

\* The row that a committed turn adds.
LEMMA AddedRow ==
  ASSUME TypeOK, WithinHistory, NEW p \in Procs, NEW s \in Sessions, CommitTurn(p, s)
  PROVE  /\ TurnRow(s, NextSeq(s)).answer = NextSeq(s)
         /\ TurnRow(s, NextSeq(s)).sources
              = Spoken(s, SourcesFrom(s), NextSeq(s)) \cup {NextSeq(s)}
         /\ TurnRow(s, NextSeq(s)).sources \subseteq SourcesFrom(s) .. NextSeq(s)
         /\ turns[s] = <<>> => SourcesFrom(s) \in TurnRow(s, NextSeq(s)).sources
<1>1. NextSeq(s) \in Nat /\ SourcesFrom(s) \in 1 .. NextSeq(s)
  BY CommittedTurn
<1>2. Spoken(s, SourcesFrom(s), NextSeq(s)) \subseteq SourcesFrom(s) .. NextSeq(s)
  BY DEF Spoken
<1>3. turns[s] = <<>> => SourcesFrom(s) \in Spoken(s, SourcesFrom(s), NextSeq(s))
  BY CommittedTurn
<1>4. /\ TurnRow(s, NextSeq(s)).answer = NextSeq(s)
      /\ TurnRow(s, NextSeq(s)).sources
           = Spoken(s, SourcesFrom(s), NextSeq(s)) \cup {NextSeq(s)}
  BY DEF TurnRow
<1> HIDE DEF NextSeq
<1> QED BY <1>1, <1>2, <1>3, <1>4

\* What Append does to a sequence, its last element and its domain.
LEMMA Appended ==
  ASSUME NEW S, NEW seq \in Seq(S), NEW x \in S
  PROVE  /\ Append(seq, x) \in Seq(S) /\ Append(seq, x) # <<>> /\ Len(seq) \in Nat
         /\ Len(Append(seq, x)) = Len(seq) + 1 /\ Append(seq, x)[Len(seq) + 1] = x
         /\ \A n \in 1 .. Len(seq) : Append(seq, x)[n] = seq[n]
         /\ DOMAIN seq = 1 .. Len(seq) /\ DOMAIN Append(seq, x) = 1 .. (Len(seq) + 1)
OBVIOUS

\* The rows of a session, one by one.
LEMMA RowsOf ==
  ASSUME NEW rows \in Seq(Row), NEW n \in 1 .. Len(rows)
  PROVE  /\ rows[n] \in Row /\ rows[n].answer \in Nat /\ rows[n].answer \in 1 .. MaxSeq
         /\ rows[n].sources \subseteq Nat
<1>1. rows[n] \in Row
  OBVIOUS
<1> QED BY <1>1 DEF Row

\* A message never comes before the user's first.
LEMMA FirstMessage ==
  ASSUME NEW s \in Sessions, NEW kind \in Kinds, Follows(s, kind), history[s] = <<>>
  PROVE  kind = "user"
BY DEF Follows, Last, Kinds

\* Conversations begin with the user, and turns stay within them.
LEMMA WithinHistoryStep ==
  ASSUME TypeOK, TypeOK', WithinHistory, [Next]_vars
  PROVE  WithinHistory'
<1> SUFFICES ASSUME NEW s \in Sessions PROVE Within(s)'
  BY DEF WithinHistory
<1>0. /\ history[s] \in Seq(Kinds) /\ turns[s] \in Seq(Row)
      /\ history'[s] \in Seq(Kinds) /\ turns'[s] \in Seq(Row)
      /\ Within(s) /\ MaxSeq \in Nat
  BY MemoryAssumption DEF TypeOK, WithinHistory
<1>1. CASE history'[s] = history[s] /\ turns'[s] = turns[s]
  BY <1>0, <1>1 DEF Within
<1>2. ASSUME NEW kind \in Kinds, Len(history[s]) < MaxSeq, Follows(s, kind),
             history'[s] = Append(history[s], kind), turns'[s] = turns[s]
      PROVE  Within(s)'
  <2>1. /\ Len(history'[s]) = Len(history[s]) + 1 /\ Len(history[s]) \in Nat
        /\ history'[s] # <<>> /\ history'[s][Len(history[s]) + 1] = kind
        /\ \A n \in 1 .. Len(history[s]) : history'[s][n] = history[s][n]
    BY <1>0, <1>2, Appended
  <2>2. history'[s][1] = "user"
    <3>1. CASE history[s] = <<>>
      BY <1>2, <2>1, <3>1, FirstMessage
    <3>2. CASE history[s] # <<>>
      <4>1. Len(history[s]) >= 1
        BY <1>0, <3>2
      <4> QED BY <1>0, <2>1, <3>2, <4>1 DEF Within
    <3> QED BY <3>1, <3>2
  <2>3. \A n \in 1 .. Len(turns[s]) : turns[s][n].answer \in Nat
    BY <1>0, RowsOf
  <2>4. \A n \in 1 .. Len(turns[s]) : turns[s][n].answer <= Len(history'[s])
    BY <1>0, <2>1, <2>3 DEF Within
  <2> QED BY <1>0, <1>2, <2>1, <2>2, <2>4 DEF Within
<1>3. ASSUME NEW p \in Procs, CommitTurn(p, s), history'[s] = Append(history[s], "answer"),
             turns'[s] = Append(turns[s], TurnRow(s, NextSeq(s)))
      PROVE  Within(s)'
  <2> DEFINE row == TurnRow(s, NextSeq(s))
             m == Len(turns[s])
             k == Len(history[s])
  <2>1. /\ row.answer = k + 1 /\ row.sources \subseteq SourcesFrom(s) .. (k + 1)
        /\ turns[s] = <<>> => SourcesFrom(s) \in row.sources
        /\ SourcesFrom(s) \in 1 .. (k + 1) /\ k + 1 \in 1 .. MaxSeq /\ row \in Row
        /\ m + 1 \in 1 .. (k + 1)
    BY <1>3, AddedRow, CommittedTurn DEF NextSeq, NextTurn
  <2>2. /\ Len(history'[s]) = k + 1 /\ k \in Nat /\ history'[s][k + 1] = "answer"
        /\ \A n \in 1 .. k : history'[s][n] = history[s][n]
    BY <1>0, <1>3, Appended DEF Kinds
  <2>3. /\ Len(turns'[s]) = m + 1 /\ m \in Nat /\ turns'[s][m + 1] = row
        /\ \A n \in 1 .. m : turns'[s][n] = turns[s][n]
    BY <1>0, <1>3, <2>1, Appended
  <2>4. history'[s][1] = "user"
    <3>1. history[s] # <<>>
      BY <1>3 DEF CommitTurn, Follows, Last
    <3>2. k >= 1
      BY <1>0, <3>1
    <3> QED BY <1>0, <2>2, <3>1, <3>2 DEF Within
  <2>5. \A n \in 1 .. m : /\ turns[s][n].answer \in Nat /\ turns[s][n].answer <= k
                          /\ turns[s][n].sources \subseteq 1 .. turns[s][m].answer
    BY <1>0, RowsOf DEF Within
  <2> HIDE DEF row, m, k
  <2>6. \A n \in 1 .. (m + 1) : /\ turns'[s][n].sources \subseteq 1 .. turns'[s][m + 1].answer
                                /\ turns'[s][n].answer <= k + 1
    <3> SUFFICES ASSUME NEW n \in 1 .. (m + 1)
                 PROVE  /\ turns'[s][n].sources \subseteq 1 .. turns'[s][m + 1].answer
                        /\ turns'[s][n].answer <= k + 1
      OBVIOUS
    <3>1. CASE n = m + 1
      BY <2>1, <2>2, <2>3, <3>1
    <3>2. CASE n # m + 1
      <4>1. n \in 1 .. m /\ m \in 1 .. m
        BY <2>3, <3>2
      <4>2. 1 .. turns[s][m].answer \subseteq 1 .. (k + 1)
        BY <2>2, <2>5, <4>1
      <4>3. turns'[s][n] = turns[s][n] /\ turns'[s][m + 1].answer = k + 1
        BY <2>1, <2>3, <4>1
      <4>4. turns[s][n].answer <= k + 1
        BY <2>2, <2>5, <4>1
      <4>5. turns[s][n].sources \subseteq 1 .. (k + 1)
        BY <2>5, <4>1, <4>2, Zenon
      <4> QED BY <4>3, <4>4, <4>5
    <3> QED BY <3>1, <3>2
  <2>7. turns'[s] # <<>> =>
          \E q \in turns'[s][1].sources : \A r \in turns'[s][1].sources : q <= r
    <3>1. CASE turns[s] = <<>>
      <4>1. m = 0
        BY <3>1 DEF m
      <4>2. turns'[s][1] = row
        BY <2>3, <4>1
      <4>3. SourcesFrom(s) \in row.sources /\ \A r \in row.sources : SourcesFrom(s) <= r
        BY <2>1, <2>2, <3>1
      <4> QED BY <4>2, <4>3
    <3>2. CASE turns[s] # <<>>
      <4>1. m >= 1
        BY <1>0, <3>2 DEF m
      <4>2. turns'[s][1] = turns[s][1]
        BY <2>3, <4>1
      <4> QED BY <1>0, <3>2, <4>2 DEF Within
    <3> QED BY <3>1, <3>2
  <2> QED BY <2>1, <2>2, <2>3, <2>4, <2>6, <2>7 DEF Within
<1> QED BY <1>1, <1>2, <1>3, SessionIsOfAKind DEF SessionKinds

-----------------------------------------------------------------------------
(* The sources of turns and jobs.                                          *)

Said(h, from, to) == {q \in from .. to : q \in DOMAIN h /\ h[q] # "tool"}

FirstSource(row) == CHOOSE q \in row.sources : \A r \in row.sources : q <= r

\* The sources of the turns cover what was said from one message to another, each
\* message once.
Tiles(rows, h, from, to) ==
  /\ UNION {rows[n].sources : n \in DOMAIN rows} = Said(h, from, to)
  /\ \A m, n \in DOMAIN rows : m # n => rows[m].sources \cap rows[n].sources = {}

TurnsTile(s) ==
  Tiles(turns[s], history[s],
        IF DOMAIN turns[s] = {} THEN 1 ELSE FirstSource(turns[s][1]),
        IF DOMAIN turns[s] = {} THEN 0 ELSE turns[s][Len(turns[s])].answer)

JobsTake(s) ==
  \A j \in Scheduled : j[1] = s =>
    jobs[j].sources = UNION {turns[s][n].sources : n \in WindowRows(s, j[2])}

\* The property, session by session.
LEMMA SourcesTileParts ==
  SourcesTile <=> \A s \in Sessions : TurnsTile(s) /\ JobsTake(s)
BY DEF SourcesTile, TurnsTile, JobsTake, Tiles, Said, Spoken, FirstSource

\* A message that is appended is outside what was said before.
LEMMA SaidBefore ==
  ASSUME NEW h \in Seq(Kinds), NEW kind \in Kinds, NEW from \in Int, NEW to \in Int,
         to <= Len(h)
  PROVE  Said(Append(h, kind), from, to) = Said(h, from, to)
BY Appended DEF Said

\* An answer that is appended is what was said last.
LEMMA SaidWithAnswer ==
  ASSUME NEW h \in Seq(Kinds), NEW from \in Int, from <= Len(h) + 1
  PROVE  Said(Append(h, "answer"), from, Len(h) + 1)
           = Said(h, from, Len(h) + 1) \cup {Len(h) + 1}
<1>1. "answer" \in Kinds
  BY DEF Kinds
<1> QED BY <1>1, Appended DEF Said

\* What was said up to a message and after it.
LEMMA SaidInParts ==
  ASSUME NEW h, NEW from \in Int, NEW mid \in Int, NEW to \in Int,
         from <= mid + 1, mid <= to
  PROVE  Said(h, from, to) = Said(h, from, mid) \cup Said(h, mid + 1, to)
BY DEF Said

\* The union over one index more.
LEMMA UnionWithOne ==
  ASSUME NEW A, NEW x, NEW f
  PROVE  UNION {f[n].sources : n \in A \cup {x}}
           = (UNION {f[n].sources : n \in A}) \cup f[x].sources
<1> DEFINE all == UNION {f[n].sources : n \in A \cup {x}}
           some == UNION {f[n].sources : n \in A}
<1>1. \A q : q \in all <=> \E n \in A \cup {x} : q \in f[n].sources
  BY Zenon
<1>2. \A q : q \in some <=> \E n \in A : q \in f[n].sources
  BY Zenon
<1>3. \A q : q \in all <=> q \in some \cup f[x].sources
  BY <1>1, <1>2, Zenon
<1>4. all = some \cup f[x].sources
  BY <1>3, Zenon
<1> QED BY <1>4

\* One more row adds its sources.
LEMMA SourcesOfAppended ==
  ASSUME NEW rows \in Seq(Row), NEW row \in Row
  PROVE  LET more == Append(rows, row)
         IN  UNION {more[n].sources : n \in DOMAIN more}
               = (UNION {rows[n].sources : n \in DOMAIN rows}) \cup row.sources
<1> DEFINE more == Append(rows, row)
           k == Len(rows)
<1>1. /\ k \in Nat /\ DOMAIN rows = 1 .. k /\ DOMAIN more = 1 .. (k + 1)
      /\ more[k + 1] = row /\ \A n \in 1 .. k : more[n] = rows[n]
  BY Appended
<1> HIDE DEF more, k
<1>2. 1 .. (k + 1) = (1 .. k) \cup {k + 1}
  BY <1>1
<1>3. \A n \in 1 .. k : more[n].sources = rows[n].sources
  BY <1>1
<1>4. UNION {more[n].sources : n \in 1 .. k} = UNION {rows[n].sources : n \in 1 .. k}
  BY <1>3
<1>5. UNION {more[n].sources : n \in (1 .. k) \cup {k + 1}}
        = (UNION {more[n].sources : n \in 1 .. k}) \cup more[k + 1].sources
  BY UnionWithOne
<1> QED BY <1>1, <1>2, <1>4, <1>5 DEF more

\* The first turn tiles by itself.
LEMMA TileFirst ==
  ASSUME NEW h \in Seq(Kinds), NEW row \in Row, NEW from \in Int,
         from <= Len(h) + 1, row.sources = Said(h, from, Len(h) + 1) \cup {Len(h) + 1}
  PROVE  Tiles(Append(<<>>, row), Append(h, "answer"), from, Len(h) + 1)
<1> DEFINE none == <<>>
<1>1. none \in Seq(Row) /\ DOMAIN none = {} /\ DOMAIN Append(none, row) = {1}
  OBVIOUS
<1>2. UNION {Append(none, row)[n].sources : n \in DOMAIN Append(none, row)} = row.sources
  BY <1>1, SourcesOfAppended
<1>3. row.sources = Said(Append(h, "answer"), from, Len(h) + 1)
  BY SaidWithAnswer
<1> QED BY <1>1, <1>2, <1>3 DEF Tiles

\* A later turn begins where the last one ended.
LEMMA TileNext ==
  ASSUME NEW h \in Seq(Kinds), NEW rows \in Seq(Row), NEW row \in Row,
         NEW from \in Int, NEW to \in Int, Tiles(rows, h, from, to),
         from <= to + 1, to <= Len(h), \A n \in DOMAIN rows : rows[n].sources \subseteq 1 .. to,
         row.sources = Said(h, to + 1, Len(h) + 1) \cup {Len(h) + 1}
  PROVE  Tiles(Append(rows, row), Append(h, "answer"), from, Len(h) + 1)
<1> DEFINE more == Append(rows, row)
           k == Len(rows)
           end == Len(h) + 1
<1>0. end \in Nat /\ to < end
  OBVIOUS
<1>1. /\ k \in Nat /\ DOMAIN rows = 1 .. k /\ DOMAIN more = 1 .. (k + 1)
      /\ more[k + 1] = row /\ \A n \in 1 .. k : more[n] = rows[n]
  BY Appended
<1>2. (UNION {more[n].sources : n \in DOMAIN more}) = Said(h, from, to) \cup row.sources
  <2> DEFINE all == UNION {more[n].sources : n \in DOMAIN more}
             some == UNION {rows[n].sources : n \in DOMAIN rows}
  <2>1. all = some \cup row.sources
    BY SourcesOfAppended
  <2>2. some = Said(h, from, to)
    BY Zenon DEF Tiles
  <2>3. all = Said(h, from, to) \cup row.sources
    <3> HIDE DEF all, some
    <3> QED BY <2>1, <2>2
  <2> QED BY <2>3
<1>3. Said(h, from, to) \cup row.sources = Said(Append(h, "answer"), from, end)
  <2>1. Said(h, from, end) = Said(h, from, to) \cup Said(h, to + 1, end)
    BY <1>0, SaidInParts
  <2>2. Said(Append(h, "answer"), from, end) = Said(h, from, end) \cup {end}
    BY <1>0, SaidWithAnswer
  <2> QED BY <2>1, <2>2
<1>4. \A q \in row.sources : q > to
  BY <1>0 DEF Said
<1> HIDE DEF more, k, end
<1>5. ASSUME NEW m \in 1 .. (k + 1), NEW n \in 1 .. (k + 1), m # n
      PROVE  more[m].sources \cap more[n].sources = {}
  <2>1. \A i \in 1 .. (k + 1) : i \in 1 .. k \/ i = k + 1
    BY <1>1
  <2>2. CASE m \in 1 .. k /\ n \in 1 .. k
    BY <1>1, <1>5, <2>2 DEF Tiles
  <2>3. \A i \in 1 .. k : more[i].sources \cap row.sources = {}
    BY <1>1, <1>4
  <2> QED BY <1>1, <1>5, <2>1, <2>2, <2>3
<1> QED BY <1>1, <1>2, <1>3, <1>5 DEF Tiles, more, end

\* What a first source is: the least of the row's sources.
LEMMA FirstSourceOf ==
  ASSUME NEW row, NEW q \in row.sources, row.sources \subseteq Nat,
         \A r \in row.sources : q <= r
  PROVE  FirstSource(row) = q
<1>1. \A x \in row.sources : (\A r \in row.sources : x <= r) => x = q
  OBVIOUS
<1> QED BY <1>1 DEF FirstSource

\* The turns go on to tile when one commits.
LEMMA CommitTiles ==
  ASSUME TypeOK, WithinHistory, NEW p \in Procs, NEW s \in Sessions, CommitTurn(p, s),
         history'[s] = Append(history[s], "answer"),
         turns'[s] = Append(turns[s], TurnRow(s, NextSeq(s))), TurnsTile(s)
  PROVE  TurnsTile(s)'
<1> DEFINE row == TurnRow(s, NextSeq(s))
           rows == turns[s]
           h == history[s]
           from == SourcesFrom(s)
           end == Len(h) + 1
<1>0. /\ rows \in Seq(Row) /\ h \in Seq(Kinds) /\ Within(s) /\ row \in Row /\ Len(h) \in Nat
      /\ from \in 1 .. end /\ row.answer = end /\ row.sources \subseteq from .. end
      /\ row.sources = Said(h, from, end) \cup {end}
      /\ rows = <<>> => from \in row.sources
  BY CommittedTurn, AddedRow DEF TypeOK, WithinHistory, NextSeq, Said, Spoken
<1>1. /\ turns'[s] = Append(rows, row) /\ history'[s] = Append(h, "answer")
      /\ DOMAIN turns'[s] = 1 .. (Len(rows) + 1) /\ Len(rows) \in Nat
      /\ DOMAIN rows = 1 .. Len(rows)
      /\ turns'[s][Len(turns'[s])].answer = end
      /\ \A n \in 1 .. Len(rows) : turns'[s][n] = rows[n]
      /\ turns'[s][Len(rows) + 1] = row
  BY <1>0, Appended
<1>2. TurnsTile(s)' = Tiles(turns'[s], history'[s], FirstSource(turns'[s][1]), end)
  <2>1. DOMAIN turns'[s] # {}
    BY <1>1
  <2> QED BY <1>1, <2>1 DEF TurnsTile
<1>3. CASE rows = <<>>
  <2>1. turns'[s][1] = row
    BY <1>1, <1>3
  <2>2. FirstSource(row) = from
    <3>1. row.sources \subseteq Nat /\ from \in row.sources /\ \A r \in row.sources : from <= r
      BY <1>0, <1>3
    <3> QED BY <3>1, FirstSourceOf
  <2>3. Tiles(Append(<<>>, row), Append(h, "answer"), from, end)
    <3>1. /\ h \in Seq(Kinds) /\ row \in Row /\ from \in Int /\ from <= Len(h) + 1
          /\ row.sources = Said(h, from, Len(h) + 1) \cup {Len(h) + 1}
      BY <1>0
    <3> HIDE DEF row, h, from
    <3> QED BY <3>1, TileFirst
  <2> QED BY <1>1, <1>2, <1>3, <2>1, <2>2, <2>3
<1>4. CASE rows # <<>>
  <2> DEFINE to == rows[Len(rows)].answer
             first == FirstSource(rows[1])
  <2>1. Len(rows) >= 1 /\ turns'[s][1] = rows[1] /\ DOMAIN rows # {}
    <3>1. Len(rows) # 0
      BY <1>0, <1>4
    <3> QED BY <1>1, <3>1
  <2>2. Tiles(rows, h, first, to)
    BY <2>1 DEF TurnsTile
  <2>3. from = to + 1
    BY <1>4 DEF SourcesFrom
  <2>4. to \in Nat /\ to <= Len(h) /\ \A n \in DOMAIN rows : rows[n].sources \subseteq 1 .. to
    BY <1>0, <1>1, <2>1, RowsOf DEF Within
  <2>5. first \in 1 .. to
    <3>1. PICK q \in rows[1].sources : \A r \in rows[1].sources : q <= r
      BY <1>0, <1>4 DEF Within
    <3>2. rows[1].sources \subseteq Nat /\ rows[1].sources \subseteq 1 .. to
      <4>1. 1 \in DOMAIN rows
        BY <1>1, <2>1
      <4>2. rows[1].sources \subseteq 1 .. to /\ to \in Nat
        BY <2>4, <4>1
      <4> HIDE DEF to, rows
      <4> QED BY <4>2
    <3> QED BY <3>1, <3>2, FirstSourceOf
  <2> HIDE DEF row, rows, h, from, end, to, first
  <2>6. Tiles(Append(rows, row), Append(h, "answer"), first, Len(h) + 1)
    <3>1. first \in Int /\ to \in Int /\ first <= to + 1 /\ Len(h) + 1 = end
      BY <2>4, <2>5 DEF end
    <3>2. row.sources = Said(h, to + 1, Len(h) + 1) \cup {Len(h) + 1}
      BY <1>0, <2>3, <3>1
    <3> QED BY <1>0, <2>2, <2>4, <3>1, <3>2, TileNext
  <2> QED BY <1>1, <1>2, <2>1, <2>6 DEF end, first
<1> QED BY <1>3, <1>4

\* The turns of a session tile whatever happens to it.
LEMMA TurnsTileStep ==
  ASSUME TypeOK, TypeOK', WithinHistory, NEW s \in Sessions, SessionKinds(s), TurnsTile(s)
  PROVE  TurnsTile(s)'
<1>0. /\ history[s] \in Seq(Kinds) /\ turns[s] \in Seq(Row) /\ Within(s)
  BY DEF TypeOK, WithinHistory
<1>1. CASE history'[s] = history[s] /\ turns'[s] = turns[s]
  BY <1>1 DEF TurnsTile
<1>2. ASSUME NEW kind \in Kinds, history'[s] = Append(history[s], kind), turns'[s] = turns[s]
      PROVE  TurnsTile(s)'
  <2> DEFINE rows == turns[s]
             from == IF DOMAIN rows = {} THEN 1 ELSE FirstSource(rows[1])
             to == IF DOMAIN rows = {} THEN 0 ELSE rows[Len(rows)].answer
  <2>1. Len(rows) \in Nat /\ DOMAIN rows = 1 .. Len(rows) /\ Len(history[s]) \in Nat
    BY <1>0
  <2>2. to \in Int /\ to <= Len(history[s])
    BY <1>0, <2>1, RowsOf DEF Within
  <2>3. from \in Int
    <3>1. CASE DOMAIN rows = {}
      BY <3>1
    <3>2. CASE DOMAIN rows # {}
      <4>1. 1 \in 1 .. Len(rows) /\ rows # <<>>
        BY <1>0, <2>1, <3>2
      <4>2. PICK q \in rows[1].sources : \A r \in rows[1].sources : q <= r
        BY <1>0, <4>1 DEF Within
      <4>3. rows[1].sources \subseteq Nat
        BY <1>0, <4>1, RowsOf
      <4>4. from = q
        BY <3>2, <4>2, <4>3, FirstSourceOf
      <4> QED BY <4>2, <4>3, <4>4
    <3> QED BY <3>1, <3>2
  <2>4. Tiles(rows, history[s], from, to)
    BY DEF TurnsTile
  <2> HIDE DEF from, to
  <2>5. Tiles(rows, history'[s], from, to)
    BY <1>0, <1>2, <2>2, <2>3, <2>4, SaidBefore DEF Tiles
  <2> QED BY <1>2, <2>5 DEF TurnsTile, from, to
<1>3. ASSUME NEW p \in Procs, CommitTurn(p, s), history'[s] = Append(history[s], "answer"),
             turns'[s] = Append(turns[s], TurnRow(s, NextSeq(s)))
      PROVE  TurnsTile(s)'
  BY <1>3, CommitTiles
<1> QED BY <1>1, <1>2, <1>3 DEF SessionKinds

\* The jobs of a session took the sources of their turns.
LEMMA JobsTakeStep ==
  ASSUME TypeOK, HeldKnown, Unbooked, TextsChosen, WithinTurns, StepKinds,
         NEW s \in Sessions, SessionKinds(s), JobsTake(s)
  PROVE  JobsTake(s)'
<1> SUFFICES ASSUME NEW j \in Windows, jobs'[j].status # "none", j[1] = s
             PROVE  jobs'[j].sources
                      = UNION {turns'[s][n].sources : n \in WindowRows(s, j[2])}
  BY DEF JobsTake, Scheduled
<1>1. j[2] <= Len(turns[s])
      /\ jobs'[j].sources = UNION {turns[s][n].sources : n \in WindowRows(s, j[2])}
  <2>1. CASE NewlyBooked(j)
    BY <2>1 DEF NewlyBooked
  <2>2. CASE ~NewlyBooked(j)
    <3>1. jobs'[j].sources = jobs[j].sources /\ j \in Scheduled
      BY <2>2, JobsKeep DEF Scheduled
    <3>2. j[2] <= Len(turns[s])
      BY <3>1 DEF WithinTurns
    <3>3. jobs[j].sources = UNION {turns[s][n].sources : n \in WindowRows(s, j[2])}
      BY <3>1 DEF JobsTake
    <3> QED BY <3>1, <3>2, <3>3
  <2> QED BY <2>1, <2>2
<1>2. \A n \in WindowRows(s, j[2]) : turns'[s][n] = turns[s][n]
  BY <1>1, WindowKnown, TurnsGrow
<1>3. \A n \in WindowRows(s, j[2]) : turns'[s][n].sources = turns[s][n].sources
  BY <1>2
<1> QED BY <1>1, <1>3

\* Every step keeps the tiling.
LEMMA SourcesTileStep ==
  ASSUME TypeOK, TypeOK', HeldKnown, Unbooked, TextsChosen, WithinHistory, WithinTurns,
         SourcesTile, [Next]_vars
  PROVE  SourcesTile'
<1>1. \A s \in Sessions : TurnsTile(s) /\ JobsTake(s)
  BY SourcesTileParts
<1>2. \A s \in Sessions : TurnsTile(s)' /\ JobsTake(s)'
  BY <1>1, StepIsOfAKind, SessionIsOfAKind, TurnsTileStep, JobsTakeStep
<1> QED BY <1>2 DEF SourcesTile, TurnsTile, JobsTake, Tiles, Said, Spoken, FirstSource

-----------------------------------------------------------------------------
(* The invariant.                                                          *)

\* The invariant holds at the start.
LEMMA Initially == Init => IInv
<1> SUFFICES ASSUME Init PROVE IInv
  OBVIOUS
<1>1. TypeOK
  <2>1. NoJob \in JobRow /\ NoJob.status = "none"
    BY DEF NoJob, JobRow, Statuses, SummaryOrNone
  <2>2. Idle \in Held
    BY DEF Idle, Held, Stages, SummaryOrNone
  <2>3. <<>> \in Seq(Kinds) /\ <<>> \in Seq(Row)
    OBVIOUS
  <2> QED BY <2>1, <2>2, <2>3, MemoryAssumption DEF Init, TypeOK
<1>2. /\ \A w \in Workers : work[w] = Idle /\ work[w].stage = "idle"
      /\ \A j \in Windows : jobs[j] = NoJob /\ calls[j] = 0
      /\ \A s \in Sessions : history[s] = <<>> /\ turns[s] = <<>>
      /\ \A p \in Procs : hooks[p] = {}
  BY IdleStage DEF Init
<1>3. HeldKnown /\ AttemptsDiffer /\ TextsChosen
  BY <1>2 DEF HeldKnown, AttemptsDiffer, TextsChosen, TextChosen
<1>4. Unbooked /\ Scheduled = {}
  BY <1>2 DEF Unbooked, NoJob, Scheduled
<1>5. CallsCounted
  <2> SUFFICES ASSUME NEW j \in Windows PROVE Counted(j)
    BY DEF CallsCounted
  <2>1. Open(j) = {}
    BY <1>2 DEF Open
  <2>2. Cardinality({}) = 0
    BY FS_EmptySet
  <2>3. {} \in SUBSET ((1 .. RetryLimit) \cap (1 .. jobs[j].attempts))
    OBVIOUS
  <2> QED BY <1>2, <2>1, <2>2, <2>3 DEF Counted
<1>6. WithinHistory
  <2>1. \A s \in Sessions : Len(history[s]) = 0 /\ Len(turns[s]) = 0
    BY <1>2
  <2>2. \A s \in Sessions : history[s] = <<>> /\ turns[s] = <<>>
    BY <1>2
  <2>3. ASSUME NEW s \in Sessions PROVE Within(s)
    BY <2>1, <2>2, MemoryAssumption DEF Within
  <2> QED BY <2>3 DEF WithinHistory
<1>7. WithinTurns
  BY <1>2, <1>4 DEF WithinTurns
<1>8. SourcesTile
  <2> SUFFICES ASSUME NEW s \in Sessions PROVE TurnsTile(s) /\ JobsTake(s)
    BY SourcesTileParts
  <2>1. JobsTake(s)
    BY <1>4 DEF JobsTake
  <2>2. DOMAIN turns[s] = {} /\ Said(history[s], 1, 0) = {}
    BY <1>2 DEF Said
  <2>3. UNION {turns[s][n].sources : n \in {}} = {}
    OBVIOUS
  <2> QED BY <2>1, <2>2, <2>3 DEF TurnsTile, Tiles
<1> QED BY <1>1, <1>3, <1>4, <1>5, <1>6, <1>7, <1>8 DEF IInv

\* Rows stay and attempts grow in every step.
LEMMA Growing ==
  ASSUME IInv, TypeOK', [Next]_vars PROVE JobsGrow
<1>0. \A j \in Windows : jobs[j].attempts \in Nat
  BY DEF IInv, TypeOK, JobRow
<1>1. CASE ~\E w \in Workers, j \in Windows : Claim(w, j)
  BY <1>1, OtherStepsContinue DEF IInv
<1>2. ASSUME NEW w \in Workers, NEW j \in Windows, Claim(w, j) PROVE JobsGrow
  <2>1. /\ \A i \in Windows : i # j => jobs'[i] = jobs[i]
        /\ jobs'[j].status = "running" /\ jobs'[j].attempts = jobs[j].attempts + 1
    BY <1>2, ClaimEffect DEF IInv
  <2> QED BY <1>0, <2>1 DEF JobsGrow
<1> QED BY <1>1, <1>2

\* Every step keeps the invariant.
LEMMA Inductive == IInv /\ [Next]_vars => IInv'
<1> SUFFICES ASSUME IInv, [Next]_vars PROVE IInv'
  OBVIOUS
<1>0. /\ TypeOK /\ HeldKnown /\ AttemptsDiffer /\ Unbooked /\ TextsChosen /\ CallsCounted
      /\ WithinHistory /\ WithinTurns /\ SourcesTile
  BY DEF IInv
<1>1. TypeOK'
  BY <1>0, TypeStep
<1>2. StepKinds /\ JobsGrow
  BY <1>0, <1>1, StepIsOfAKind, Growing
<1>3. HeldKnown' /\ AttemptsDiffer'
  BY <1>0, <1>1, HeldStep
<1>4. Unbooked'
  BY <1>0, <1>2, JobsKeep
<1>5. TextsChosen'
  BY <1>0, <1>1, <1>2, TextStep
<1>6. CallsCounted'
  BY <1>0, <1>1, <1>2, CallsStep
<1>7. WithinHistory' /\ WithinTurns'
  BY <1>0, <1>1, WithinHistoryStep, WithinTurnsStep
<1>8. SourcesTile'
  BY <1>0, <1>1, SourcesTileStep
<1> QED BY <1>1, <1>3, <1>4, <1>5, <1>6, <1>7, <1>8 DEF IInv

\* The invariant always holds.
LEMMA Invariance == Spec => []IInv
BY Initially, Inductive, PTL DEF Spec

\* What the worker loops hold, the rows of turns and jobs and the counters stay in
\* their ranges: no handler writes a row that another could not read.
THEOREM MemoryTypes == Spec => []TypeOK
BY Invariance, PTL DEF IInv

\* A job calls the pipeline at most RetryLimit times, however many workers and
\* processes there are and however often they crash or lose their lease: no two
\* calls have the same attempt, and only attempts up to the limit make one.
THEOREM BoundedCalls == Spec => []CallsBounded
<1>1. IInv => CallsBounded
  BY CountedIsBounded DEF IInv
<1> QED BY <1>1, Invariance, PTL

\* Whatever is said, the sources of a session's turns and jobs cover it without a
\* gap and without overlap.
THEOREM TiledSources == Spec => []SourcesTile
<1>1. IInv => SourcesTile
  BY DEF IInv
<1> QED BY <1>1, Invariance, PTL

-----------------------------------------------------------------------------
(* The ledger.                                                             *)

\* The parts of the ledger, window by window.
LEMMA LedgerParts ==
  /\ Ledger!Init <=> \A j \in Windows :
       Phase(jobs[j].status) = "none" /\ jobs[j].summary = NoText /\ ingested[j] = {}
  /\ UNCHANGED Ledger!ledger <=> \A j \in Windows :
       /\ Phase(jobs'[j].status) = Phase(jobs[j].status)
       /\ jobs'[j].summary = jobs[j].summary /\ ingested'[j] = ingested[j]
BY DEF Ledger!Init, Ledger!ledger, Phases, Chosen, Stored

\* What the mapping makes of a table whose rows stay.
LEMMA Unmoved ==
  /\ (\A j \in Windows : Phase(jobs'[j].status) = Phase(jobs[j].status)) => Phases' = Phases
  /\ (\A j \in Windows : jobs'[j].summary = jobs[j].summary) => Chosen' = Chosen
  /\ (\A j \in Windows : ingested'[j] = ingested[j]) => Stored' = Stored
BY DEF Phases, Chosen, Stored

\* A step that changes none of these is invisible in the ledger.
LEMMA SameLedger ==
  ASSUME \A j \in Windows :
           /\ Phase(jobs'[j].status) = Phase(jobs[j].status)
           /\ jobs'[j].summary = jobs[j].summary /\ ingested'[j] = ingested[j]
  PROVE  UNCHANGED Ledger!ledger
BY LedgerParts

\* Steps of the ledger, told by what they change of each window.
LEMMA BookStep ==
  ASSUME \A j \in Windows :
           /\ jobs'[j].summary = jobs[j].summary /\ ingested'[j] = ingested[j]
           /\ \/ Phase(jobs'[j].status) = Phase(jobs[j].status)
              \/ Phase(jobs[j].status) = "none" /\ Phase(jobs'[j].status) = "open"
  PROVE  Ledger!Next
<1> DEFINE js == {j \in Windows : /\ Phase(jobs[j].status) = "none"
                                  /\ Phase(jobs'[j].status) = "open"}
<1>1. Phases' = [j \in Windows |-> IF j \in js THEN "open" ELSE Phases[j]]
  BY DEF Phases
<1>2. \A j \in js : Phases[j] = "none"
  BY DEF Phases
<1>3. Ledger!Book(js)
  BY <1>1, <1>2, Unmoved DEF Ledger!Book
<1>4. js \in SUBSET Windows
  OBVIOUS
<1> HIDE DEF js
<1> QED BY <1>3, <1>4 DEF Ledger!Next

\* A text where there was none.
LEMMA ChooseStep ==
  ASSUME NEW i \in Windows, Phase(jobs[i].status) = "open", jobs[i].summary = NoText,
         jobs'[i].summary \in Texts,
         \A j \in Windows :
           /\ Phase(jobs'[j].status) = Phase(jobs[j].status) /\ ingested'[j] = ingested[j]
           /\ j # i => jobs'[j].summary = jobs[j].summary
  PROVE  Ledger!Next
<1> DEFINE u == jobs'[i].summary
<1>1. Chosen' = [Chosen EXCEPT ![i] = u]
  BY DEF Chosen
<1>2. Phases[i] = "open" /\ Chosen[i] = NoText
  BY DEF Phases, Chosen
<1>3. Ledger!Choose(i, u)
  BY <1>1, <1>2, Unmoved DEF Ledger!Choose
<1> QED BY <1>3 DEF Ledger!Next, Texts

\* The chosen text is stored.
LEMMA StoreStep ==
  ASSUME NEW i \in Windows, jobs[i].summary \in Facts,
         ingested'[i] = ingested[i] \cup {jobs[i].summary},
         \A j \in Windows :
           /\ Phase(jobs'[j].status) = Phase(jobs[j].status)
           /\ jobs'[j].summary = jobs[j].summary
           /\ j # i => ingested'[j] = ingested[j]
  PROVE  Ledger!Next
<1>1. Stored' = [Stored EXCEPT ![i] = @ \cup {Chosen[i]}] /\ Chosen[i] \in Facts
  BY DEF Stored, Chosen
<1>2. Ledger!Store(i)
  BY <1>1, Unmoved DEF Ledger!Store
<1> QED BY <1>2 DEF Ledger!Next

\* An open window settles.
LEMMA SettleStep ==
  ASSUME NEW i \in Windows, NEW outcome \in Outcomes,
         Phase(jobs[i].status) = "open", Phase(jobs'[i].status) = outcome,
         outcome = "succeeded" => ingested[i] # {},
         \A j \in Windows :
           /\ jobs'[j].summary = jobs[j].summary /\ ingested'[j] = ingested[j]
           /\ j # i => Phase(jobs'[j].status) = Phase(jobs[j].status)
  PROVE  Ledger!Next
<1>1. Phases' = [Phases EXCEPT ![i] = outcome] /\ Phases[i] = "open"
  BY DEF Phases
<1>2. outcome = "succeeded" => Stored[i] # {}
  BY DEF Stored
<1>3. Ledger!Settle(i, outcome)
  BY <1>1, <1>2, Unmoved DEF Ledger!Settle
<1> QED BY <1>3 DEF Ledger!Next, Ledger!Outcomes, Outcomes

\* Every step of the implementation is a step of the ledger or leaves it alone.
LEMMA Simulates ==
  ASSUME IInv, StepKinds PROVE Ledger!Next \/ UNCHANGED Ledger!ledger
<1>0. TypeOK /\ HeldKnown /\ AttemptsDiffer /\ TextsChosen
  BY DEF IInv
<1>1. CASE Booking /\ UNCHANGED <<work, pipeline>>
  <2>1. \A j \in Windows : jobs'[j] = jobs[j] \/ NewlyBooked(j)
    BY <1>0, <1>1, BookedJobs
  <2>2. \A j \in Windows :
           /\ jobs'[j].summary = jobs[j].summary /\ ingested'[j] = ingested[j]
           /\ \/ Phase(jobs'[j].status) = Phase(jobs[j].status)
              \/ Phase(jobs[j].status) = "none" /\ Phase(jobs'[j].status) = "open"
    BY <1>1, <2>1 DEF NewlyBooked, Phase, pipeline, IInv, Unbooked
  <2> QED BY <2>2, BookStep
<1>2. CASE Gone
  BY <1>2, SameLedger DEF Gone, pipeline, Phase
<1>3. ASSUME NEW j \in Windows, Lapse(j) PROVE UNCHANGED Ledger!ledger
  BY <1>0, <1>3, LapseEffect, SameLedger DEF Lapse, pipeline, Phase
<1>4. ASSUME NEW w \in Workers, NEW j \in Windows, Claim(w, j) PROVE UNCHANGED Ledger!ledger
  <2>1. /\ \A i \in Windows : i # j => jobs'[i] = jobs[i]
        /\ jobs'[j].status = "running" /\ jobs[j].status \in {"pending", "retry", "running"}
        /\ jobs'[j].summary = jobs[j].summary /\ ingested' = ingested
    BY <1>0, <1>4, ClaimEffect DEF Claim, pipeline
  <2> QED BY <2>1, SameLedger DEF Phase
<1>5. ASSUME NEW w \in Workers, Summarize(w) PROVE UNCHANGED Ledger!ledger
  BY <1>5, SameLedger DEF Summarize, pipeline, Phase
<1>6. ASSUME NEW w \in Workers, SaveMemorySummary(w)
      PROVE  Ledger!Next \/ UNCHANGED Ledger!ledger
  <2>0. ingested' = ingested
    BY <1>6 DEF SaveMemorySummary, pipeline
  <2>1. CASE jobs' = jobs
    BY <2>0, <2>1, SameLedger DEF Phase
  <2>2. CASE jobs' # jobs
    <3> DEFINE i == work[w].job
    <3>1. /\ i \in Windows /\ jobs[i].status = "running" /\ work[w].text \in Texts
          /\ jobs[i].attempts = work[w].attempts /\ work[w].stage = "save"
          /\ jobs' = [jobs EXCEPT ![i].summary = work[w].text]
      BY <1>0, <1>6, <2>2, SaveEffect
    <3>2. jobs[i].summary = NoText
      BY <1>0, <3>1 DEF TextsChosen, TextChosen
    <3>3. /\ jobs'[i].summary \in Texts
          /\ \A j \in Windows : /\ j # i => jobs'[j] = jobs[j]
                                /\ jobs'[j].status = jobs[j].status
    <4>1. TypeOK /\ i \in Windows /\ jobs' = [jobs EXCEPT ![i].summary = work[w].text]
      BY <1>0, <3>1
    <4>2. /\ jobs'[i].summary = work[w].text
          /\ \A j \in Windows : /\ j # i => jobs'[j] = jobs[j]
                                /\ jobs'[j].status = jobs[j].status
      <5> HIDE DEF i
      <5> QED BY <4>1, WriteSummary
    <4> QED BY <3>1, <4>2, Zenon
    <3> HIDE DEF i
    <3> QED BY <2>0, <3>1, <3>2, <3>3, ChooseStep DEF Phase
  <2> QED BY <2>1, <2>2
<1>7. ASSUME NEW w \in Workers, Ingest(w) PROVE Ledger!Next \/ UNCHANGED Ledger!ledger
  <2> DEFINE i == work[w].job
             x == work[w].text
  <2>1. /\ i \in Windows /\ jobs' = jobs /\ x \in Facts /\ x = jobs[i].summary
        /\ ingested' \in {ingested, [ingested EXCEPT ![i] = @ \cup {x}]}
    BY <1>0, <1>7, IngestEffect DEF Ingest, TextsChosen, TextChosen
  <2>2. ingested \in [Windows -> SUBSET Facts]
    BY <1>0 DEF TypeOK
  <2> HIDE DEF i, x
  <2>3. CASE ingested' = ingested
    BY <2>1, <2>3, SameLedger DEF Phase
  <2>4. CASE ingested' = [ingested EXCEPT ![i] = @ \cup {x}]
    <3>1. /\ ingested'[i] = ingested[i] \cup {jobs[i].summary}
          /\ \A j \in Windows : j # i => ingested'[j] = ingested[j]
      BY <2>1, <2>2, <2>4
    <3> QED BY <2>1, <3>1, StoreStep DEF Phase
  <2> QED BY <2>1, <2>3, <2>4
<1>8. ASSUME NEW w \in Workers, FinishMemoryJob(w)
      PROVE  Ledger!Next \/ UNCHANGED Ledger!ledger
  <2>0. ingested' = ingested
    BY <1>8 DEF FinishMemoryJob, pipeline
  <2>1. CASE jobs' = jobs
    BY <2>0, <2>1, SameLedger DEF Phase
  <2>2. CASE jobs' # jobs
    <3> DEFINE i == work[w].job
               verdict == work[w].verdict
    <3>1. /\ i \in Windows /\ jobs[i].status = "running" /\ work[w].stage = "finish"
          /\ verdict \in {"retry"} \cup Outcomes
          /\ jobs' = [jobs EXCEPT ![i].status = verdict]
      BY <1>0, <1>8, <2>2, FinishEffect
    <3>2. verdict = "succeeded" => ingested[i] # {}
      BY <1>0, <3>1 DEF TextsChosen, TextChosen
    <3>3. /\ jobs'[i].status = verdict
          /\ \A j \in Windows : /\ j # i => jobs'[j] = jobs[j]
                                /\ jobs'[j].summary = jobs[j].summary
      BY <1>0, <3>1, WriteStatus
    <3> HIDE DEF i, verdict
    <3>4. CASE verdict = "retry"
      BY <2>0, <3>1, <3>3, <3>4, SameLedger DEF Phase
    <3>5. CASE verdict \in Outcomes
      <4>1. Phase(jobs[i].status) = "open" /\ Phase(jobs'[i].status) = verdict
        BY <3>1, <3>3, <3>5 DEF Phase, Outcomes
      <4>2. \A j \in Windows : j # i => Phase(jobs'[j].status) = Phase(jobs[j].status)
        BY <3>3 DEF Phase
      <4> QED BY <2>0, <3>1, <3>2, <3>3, <3>5, <4>1, <4>2, SettleStep
    <3> QED BY <3>1, <3>4, <3>5
  <2> QED BY <2>1, <2>2
<1> QED BY <1>1, <1>2, <1>3, <1>4, <1>5, <1>6, <1>7, <1>8 DEF StepKinds, Process

\* The jobs implement the ledger: each window is booked once, one text is chosen for
\* it and only that text is stored, and it settles once, whatever stale attempts do.
THEOREM ImplementsLedger == Spec => KeepsLedger
<1>1. Init => Ledger!Init
  <2> SUFFICES ASSUME Init PROVE Ledger!Init
    OBVIOUS
  <2>1. \A j \in Windows : jobs[j] = NoJob /\ ingested[j] = {}
    BY DEF Init
  <2> QED BY <2>1, LedgerParts DEF NoJob, Phase
<1>2. IInv /\ [Next]_vars => [Ledger!Next]_(Ledger!ledger)
  BY StepIsOfAKind, Simulates DEF IInv
<1> QED BY <1>1, <1>2, Invariance, PTL DEF Spec, KeepsLedger, Ledger!Spec

=============================================================================
