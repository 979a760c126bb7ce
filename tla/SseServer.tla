----------------------------- MODULE SseServer -----------------------------
(***************************************************************************)
(* The SSE server (cmd/run_sse): chat and resume requests of several       *)
(* sessions, the per-session lock, the read-write lock of the model        *)
(* switcher, the approvals that a separate HTTP request answers, and the   *)
(* budget checkpoint that a request takes over from the one before it.     *)
(*                                                                         *)
(* What a request does between its locks is ReActLoop; here it spends      *)
(* tokens and asks questions.  A request is one goroutine, and so is each  *)
(* switch of the model and each reply to an approval.                      *)
(***************************************************************************)
EXTENDS TokenBudget, FiniteSets

CONSTANTS
  Requests,   \* chat and resume requests, each made once
  Switches,   \* requests that switch the model or add the first one
  SessionOf,  \* the session each request names
  Models,     \* the models that can be made active
  NoModel,    \* no model is configured yet
  Free,       \* nobody, of a lock
  NoBudget,   \* no checkpoint of this server run
  Budget,     \* --token-budget
  History,    \* tokens a session had used before the server started
  MaxUsed,    \* bound on the tokens of a session
  MaxAsked    \* bound on the questions of a request

ASSUME BudgetAssumption == Budget \in Nat \ {0} /\ History \in Nat /\ MaxUsed \in Nat

\* What stands for nothing is none of the things.
ASSUME NamesAssumption ==
  /\ Free \notin Requests \cup Switches
  /\ NoModel \notin Models
  /\ NoBudget \notin BudgetRecord(Budget)

Sessions == {SessionOf[r] : r \in Requests}

VARIABLES
  at,         \* where each request is
  lock,       \* sessionLocks: the request that holds each session
  readers,    \* the requests that hold the switcher's lock for reading
  blocked,    \* those that wait for it behind a writer
  writer,     \* the switch that announced itself to new readers
  switched,   \* where each switch is
  model,      \* the active model of the configuration
  router,     \* the model of the router's upstream client
  modelOf,    \* the model each request was assembled with
  used,       \* tokens used by each session, stored with it
  budgets,    \* budgetStates: the checkpoint of each session
  service,    \* the budget of each request's service
  asked,      \* how many questions each request has asked
  about,      \* what its last question was about
  channel,    \* the reply channel of its last question, of capacity one
  pending,    \* approvalBroker: the questions that can still be answered
  replies,    \* the replies that left the broker for their channel
  gone        \* the requests whose client disconnected

locks == <<lock, readers, blocked, writer>>
switching == <<switched, model, router>>
asking == <<asked, about, channel, pending, replies>>
inside == <<modelOf, used, budgets, service, asking, gone>>
vars == <<at, locks, switching, inside>>

-----------------------------------------------------------------------------
Init ==
  /\ at = [r \in Requests |-> "new"]
  /\ lock = [s \in Sessions |-> Free]
  /\ readers = {} /\ blocked = {} /\ writer = Free
  /\ switched = [w \in Switches |-> "new"]
  /\ model \in Models \cup {NoModel}
  /\ router = model
  /\ modelOf = [r \in Requests |-> NoModel]
  /\ used = [s \in Sessions |-> History]
  /\ budgets = [s \in Sessions |-> NoBudget]
  /\ service = [r \in Requests |-> NoBudget]
  /\ asked = [r \in Requests |-> 0]
  /\ about = [r \in Requests |-> "nothing"]
  /\ channel = [r \in Requests |-> "empty"]
  /\ pending = {} /\ replies = {} /\ gone = {}

Moves(r, phase) == at' = [at EXCEPT ![r] = phase]

-----------------------------------------------------------------------------
(* The switcher's sync.RWMutex.                                            *)

\* A writer that waits keeps new readers out.
RLock(r, from, to) ==
  /\ at[r] = from /\ r \notin blocked
  /\ IF writer = Free
       THEN readers' = readers \cup {r} /\ Moves(r, to) /\ UNCHANGED blocked
       ELSE blocked' = blocked \cup {r} /\ UNCHANGED <<at, readers>>
  /\ UNCHANGED <<lock, writer>>

Granted(phase) == IF phase = "precheck" THEN "prechecking" ELSE "assemble"

\* Mutant: a switch does not wait for the requests that are running.
LockAtOnce(w) ==
  /\ switched[w] = "lock" /\ switched' = [switched EXCEPT ![w] = "config"]
  /\ UNCHANGED <<at, lock, readers, blocked, writer, model, router, inside>>

Announce(w) ==
  /\ switched[w] = "new" /\ writer = Free
  /\ writer' = w
  /\ switched' = [switched EXCEPT ![w] = "lock"]
  /\ UNCHANGED <<at, lock, readers, blocked, model, router, inside>>

Lock(w) ==
  /\ switched[w] = "lock" /\ readers = {}
  /\ switched' = [switched EXCEPT ![w] = "config"]
  /\ UNCHANGED <<at, lock, readers, blocked, writer, model, router, inside>>

\* SwitchModelLocked: the configuration first, then the router's client.
SetActiveModel(w) ==
  /\ switched[w] = "config"
  /\ \/ \E m \in Models : model' = m /\ switched' = [switched EXCEPT ![w] = "router"]
     \/ UNCHANGED model /\ switched' = [switched EXCEPT ![w] = "unlock"]
  /\ UNCHANGED <<at, lock, readers, blocked, writer, router, inside>>

ReplaceClient(w) ==
  /\ switched[w] = "router"
  /\ router' = model
  /\ switched' = [switched EXCEPT ![w] = "unlock"]
  /\ UNCHANGED <<at, lock, readers, blocked, writer, model, inside>>

\* The readers that waited are let in before another writer.
Unlock(w) ==
  /\ switched[w] = "unlock"
  /\ writer' = Free
  /\ readers' = blocked /\ blocked' = {}
  /\ at' = [r \in Requests |-> IF r \in blocked THEN Granted(at[r]) ELSE at[r]]
  /\ switched' = [switched EXCEPT ![w] = "end"]
  /\ UNCHANGED <<lock, model, router, inside>>

-----------------------------------------------------------------------------
(* A chat or resume request.                                               *)

\* TryLock, or 409.
TryLock(r) ==
  /\ at[r] = "new"
  /\ IF lock[SessionOf[r]] = Free
       THEN lock' = [lock EXCEPT ![SessionOf[r]] = r] /\ Moves(r, "precheck")
       ELSE UNCHANGED lock /\ Moves(r, "end")
  /\ UNCHANGED <<readers, blocked, writer, switching, inside>>

\* modelMissing looks under a read lock of its own.
Precheck(r) ==
  /\ RLock(r, "precheck", "prechecking")
  /\ UNCHANGED <<switching, inside>>

Prechecked(r) ==
  /\ at[r] = "prechecking"
  /\ readers' = readers \ {r}
  /\ Moves(r, IF model = NoModel THEN "unlock" ELSE "read")
  /\ UNCHANGED <<lock, blocked, writer, switching, inside>>

Read(r) ==
  /\ RLock(r, "read", "assemble")
  /\ UNCHANGED <<switching, inside>>

\* configureBudget: the checkpoint of the session, or a new budget.
BudgetFor(s) ==
  IF budgets[s] = NoBudget THEN SetTokenBudget(Budget, used[s]) ELSE budgets[s]

Assemble(r) ==
  /\ at[r] = "assemble"
  /\ \/ /\ modelOf' = [modelOf EXCEPT ![r] = model]
        /\ service' = [service EXCEPT ![r] = BudgetFor(SessionOf[r])]
        /\ Moves(r, "run")
     \/ UNCHANGED <<modelOf, service>> /\ Moves(r, "runlock")
  /\ UNCHANGED <<locks, switching, used, budgets, asking, gone>>

\* A refused budget is checked before anything else, a due one is asked about.
MayGo(r) == ~service[r].declined /\ ~Due(service[r], used[SessionOf[r]])

\* One model call, whose tokens are stored with its answer.
Generate(r) ==
  /\ at[r] = "run" /\ MayGo(r)
  /\ \E n \in 1 .. MaxUsed :
       /\ used[SessionOf[r]] + n <= MaxUsed
       /\ used' = [used EXCEPT ![SessionOf[r]] = @ + n]
  /\ UNCHANGED <<at, locks, switching, modelOf, budgets, service, asking, gone>>

Approval(r, n) == [session |-> SessionOf[r], request |-> r, number |-> n]

\* The question is registered under a new number, with a new channel.
Asks(r, what) ==
  /\ asked[r] < MaxAsked
  /\ asked' = [asked EXCEPT ![r] = @ + 1]
  /\ about' = [about EXCEPT ![r] = what]
  /\ channel' = [channel EXCEPT ![r] = "empty"]
  /\ pending' = pending \cup {Approval(r, asked[r] + 1)}
  /\ Moves(r, "ask")

AskBudget(r) ==
  /\ at[r] = "run" /\ ~service[r].declined /\ Due(service[r], used[SessionOf[r]])
  /\ Asks(r, "budget")
  /\ UNCHANGED <<locks, switching, modelOf, used, budgets, service, replies, gone>>

AskCommand(r) ==
  /\ at[r] = "run" /\ MayGo(r)
  /\ Asks(r, "command")
  /\ UNCHANGED <<locks, switching, modelOf, used, budgets, service, replies, gone>>

\* Mutant: the session is unlocked before its budget is saved.
UnlockFirst == <<"unlock", "save", "runlock", "clear", "end">>

\* The deferred calls, the last deferred first.
Deferred == <<"save", "runlock", "clear", "unlock", "end">>

\* A request that was assembled returns through all of them.
Returns(r) == Moves(r, Deferred[1])

\* What follows a deferred call; a request that fails early enters further down.
After(phase) == Deferred[1 + CHOOSE k \in 1 .. 4 : Deferred[k] = phase]

\* The answer arrives.  Only yes goes on, and a refused budget stays refused.
Receive(r) ==
  LET yes == channel[r] = "yes"
      b   == service[r]
  IN  /\ at[r] = "ask" /\ channel[r] # "empty"
      /\ channel' = [channel EXCEPT ![r] = "empty"]
      /\ service' = [service EXCEPT ![r] =
           IF about[r] = "command" THEN b
           ELSE IF yes THEN Confirmed(b, used[SessionOf[r]]) ELSE Refused(b)]
      /\ IF yes THEN Moves(r, "run") ELSE Returns(r)
      /\ UNCHANGED <<locks, switching, modelOf, used, budgets, asked, about, pending,
                     replies, gone>>

\* Mutant: the question waits for its answer alone.
NeverCancelled(r) == FALSE

\* The context is cancelled while the question waits.
Cancelled(r) ==
  /\ at[r] = "ask" /\ r \in gone
  /\ Returns(r)
  /\ UNCHANGED <<locks, switching, inside>>

\* Chat or Resume returns, with a result or an error.
Finish(r) ==
  /\ at[r] = "run"
  /\ Returns(r)
  /\ UNCHANGED <<locks, switching, inside>>

SaveBudget(r) ==
  /\ at[r] = "save"
  /\ budgets' = [budgets EXCEPT ![SessionOf[r]] = service[r]]
  /\ Moves(r, After("save"))
  /\ UNCHANGED <<locks, switching, modelOf, used, service, asking, gone>>

RUnlock(r) ==
  /\ at[r] = "runlock"
  /\ readers' = readers \ {r}
  /\ Moves(r, After("runlock"))
  /\ UNCHANGED <<lock, blocked, writer, switching, inside>>

\* Mutant: only an answered question is removed.
ClearNothing(r) == pending

Cleared(r) == {a \in pending : a.request # r}

ClearRequest(r) ==
  /\ at[r] = "clear"
  /\ pending' = Cleared(r)
  /\ Moves(r, After("clear"))
  /\ UNCHANGED <<locks, switching, modelOf, used, budgets, service, asked, about,
                 channel, replies, gone>>

UnlockSession(r) ==
  /\ at[r] = "unlock"
  /\ lock' = [lock EXCEPT ![SessionOf[r]] = Free]
  /\ Moves(r, After("unlock"))
  /\ UNCHANGED <<readers, blocked, writer, switching, inside>>

-----------------------------------------------------------------------------
(* The client.                                                             *)

Disconnect(r) ==
  /\ at[r] \notin {"new", "end"}
  /\ gone' = gone \cup {r}
  /\ UNCHANGED <<at, locks, switching, modelOf, used, budgets, service, asking>>

\* A reply takes the question out of the broker; a second one finds nothing.
Resolve(a, answer) ==
  /\ a \in pending
  /\ pending' = pending \ {a}
  /\ replies' = replies \cup {[to |-> a, answer |-> answer]}
  /\ UNCHANGED <<at, locks, switching, modelOf, used, budgets, service, asked, about,
                 channel, gone>>

\* It is sent without blocking.  The channel of a question that nobody waits
\* for any more takes it as well.
Deliver(reply) ==
  LET r == reply.to.request
  IN  /\ reply \in replies
      /\ replies' = replies \ {reply}
      /\ channel' = IF reply.to.number = asked[r] /\ channel[r] = "empty"
                      THEN [channel EXCEPT ![r] = reply.answer] ELSE channel
      /\ UNCHANGED <<at, locks, switching, modelOf, used, budgets, service, asked,
                     about, pending, gone>>

-----------------------------------------------------------------------------
Step(r) ==
  \/ TryLock(r) \/ Precheck(r) \/ Prechecked(r) \/ Read(r) \/ Assemble(r)
  \/ Generate(r) \/ AskBudget(r) \/ AskCommand(r) \/ Receive(r) \/ Cancelled(r)
  \/ Finish(r) \/ SaveBudget(r) \/ RUnlock(r) \/ ClearRequest(r) \/ UnlockSession(r)

SwitchStep(w) ==
  Announce(w) \/ Lock(w) \/ SetActiveModel(w) \/ ReplaceClient(w) \/ Unlock(w)

Answers(r) ==
  \/ Disconnect(r)
  \/ \E a \in pending, answer \in {"yes", "no"} : a.request = r /\ Resolve(a, answer)

Next ==
  \/ \E r \in Requests : Step(r) \/ Answers(r)
  \/ \E w \in Switches : SwitchStep(w)
  \/ \E reply \in replies : Deliver(reply)

Spec == Init /\ [][Next]_vars

-----------------------------------------------------------------------------
(* Properties.                                                             *)

\* A request keeps the model it was assembled with: while it runs, also while
\* it waits for an answer, neither the configuration nor the router's client
\* changes under it, and the model it was found to have is not lost between
\* the two read locks.
ModelSteady ==
  \A r \in Requests : at[r] \in {"run", "ask"} =>
    modelOf[r] = model /\ router = model /\ model # NoModel

\* Whatever thresholds one model call passed and however many requests shared
\* the checkpoint, the next threshold is the budget's half times the units
\* shown to the user, rounded up, and not the tokens of an earlier server run.
BudgetExact ==
  \A r \in Requests : service[r] # NoBudget =>
    LET b == service[r]
    IN  /\ b.next = (b.halfUnits * Budget + 1) \div 2
        /\ b.halfStep <=> b.halfUnits % 2 = 0
        /\ b.baseline = History

\* What the broker still holds belongs to a stream that can still end or answer
\* it, and is that stream's last question.
PendingIsLive ==
  \A a \in pending :
    /\ at[a.request] \in {"ask", "save", "runlock", "clear"}
    /\ asked[a.request] = a.number

\* The checkpoint of a session never goes back: no request overwrites what a
\* later one saved, and a refusal is not taken back.
CheckpointAdvances ==
  [][\A s \in Sessions : budgets[s] # NoBudget =>
       /\ budgets'[s].next >= budgets[s].next
       /\ budgets[s].declined => budgets'[s].declined]_vars

\* A session whose budget the user refused to exceed spends no token in any
\* later request to this server.
RefusalOutlivesRequest ==
  [][\A s \in Sessions :
       budgets[s] # NoBudget /\ budgets[s].declined => used'[s] = used[s]]_vars

\* What one request of a session leaves of its budget holds for the next.
BudgetCarriesOver == CheckpointAdvances /\ RefusalOutlivesRequest
=============================================================================
