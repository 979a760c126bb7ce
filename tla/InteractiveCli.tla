--------------------------- MODULE InteractiveCli ---------------------------
(***************************************************************************)
(* The interactive mode: the terminal's event loop (cliprinter.go), the    *)
(* goroutines of the commands it returns, the consumer goroutine that runs *)
(* Chat (run_cli.go) and the main goroutine that stops them.               *)
(*                                                                         *)
(* outChan and inChan are unbuffered: a hand-over is one step of both      *)
(* sides, and the message that tells the event loop about it is a later    *)
(* one.  A command is a goroutine: a sequence of operations, printing      *)
(* among them, which it carries out one after the other.  Once the program *)
(* has quit its event loop takes no message, and what a goroutine wants to *)
(* tell it is dropped.                                                     *)
(*                                                                         *)
(* A text is a sequence of pieces <<k, n>>, the n-th one of the turn that  *)
(* input k began (its echo is the piece 0), and of line ends NL.           *)
(***************************************************************************)
EXTENDS Naturals, Sequences, SequencesExt

CONSTANTS
  MaxInputs,   \* bound: the inputs of a behaviour
  MaxEvents    \* bound: the events of Chat in a behaviour

VARIABLES
  phase,       \* model.phase
  confirm,     \* whether humanConfirmChan is set
  buf,         \* streamBuf, the half line that the view shows
  thinking,    \* whether the thinking line is shown
  commands,    \* the goroutines of the commands, in the order they started
  screen,      \* the pieces printed to the scrollback
  consumer,    \* where the consumer goroutine is
  offer,       \* the event it is blocked on in sendIn
  reply,       \* whether the channel of the last approval holds its reply
  said,        \* said[k]: the pieces produced since input k
  left,        \* the events Chat may still send
  main         \* how far the main goroutine is

terminal == <<phase, confirm, buf, thinking, screen>>
vars == <<terminal, commands, consumer, offer, reply, said, left, main>>

NL == <<0, 0>>
Nothing == [kind |-> "nothing"]
Idle == [event |-> Nothing, then |-> "waiting"]

\* The texts of the events newEventConsumer sends, P standing for a piece:
\* a prefix or a delta, a delta with a line end, the end of a text.
P == <<1, 0>>
Shapes == {<<P>>, <<P, NL, P>>, <<NL>>}

Pieces(text) == SelectSeq(text, LAMBDA t : t # NL)

\* shape with the next pieces of this turn for its P's.
Written(shape) ==
  LET k == Len(said)
      Count(i) == Len(Pieces(SubSeq(shape, 1, i))) IN
  [i \in DOMAIN shape |->
    IF shape[i] = NL THEN NL ELSE <<k, said[k] + Count(i)>>]

-----------------------------------------------------------------------------
(* The goroutines of the commands *)

Println(line) == [op |-> "print", line |-> line]
Send(to, input) == [op |-> "send", to |-> to, input |-> input]
Read == [op |-> "read"]
Flushed == [op |-> "flushed"]
Arrived(event) == [op |-> "arrived", event |-> event]

\* Goroutine i after its first operation.
Done(i) ==
  IF Len(commands[i]) = 1 THEN RemoveAt(commands, i)
  ELSE [commands EXCEPT ![i] = Tail(@)]

\* A command without operations (nil) starts no goroutine.
Start(running, ops) == IF ops = <<>> THEN running ELSE Append(running, ops)

Turns(i, message) == [commands EXCEPT ![i][1] = message]

At(i, op) == commands[i][1].op = op

-----------------------------------------------------------------------------
(* The texts of a turn on the terminal *)

\* appendStream: the lines that text completes, the empty ones left out,
\* and the half line that is left.
Cut(text) ==
  FoldLeft(LAMBDA acc, t :
      IF t # NL THEN [acc EXCEPT !.rest = Append(@, t)]
      ELSE [lines |-> IF acc.rest = <<>> THEN acc.lines
                      ELSE Append(acc.lines, Println(acc.rest)),
            rest |-> <<>>],
    [lines |-> <<>>, rest |-> <<>>], text)

\* flushStream: what prints the half line.
Residue(text) == IF text = <<>> THEN <<>> ELSE <<Println(text)>>

-----------------------------------------------------------------------------
Init ==
  /\ phase = "input" /\ confirm = FALSE /\ buf = <<>> /\ thinking = FALSE
  /\ commands = <<>> /\ screen = <<>> /\ said = <<>>
  /\ consumer = "waiting" /\ offer = Idle /\ reply = FALSE
  /\ left = MaxEvents /\ main = "tui"

Cancelled == main \in {"cancelled", "cleaned"}

(* The user *)

\* takeInputTarget: an approval is answered once, other inputs go to Chat.
InputTarget == IF confirm THEN "reply" ELSE "out"

\* submitInput: the echo, then the input, by one goroutine.
SubmitInput(input) ==
  /\ main = "tui" /\ phase = "input" /\ Len(said) < MaxInputs
  /\ phase' = "sending" /\ confirm' = FALSE
  /\ said' = Append(said, 0)
  /\ commands' = Append(commands, <<Println(<< <<Len(said'), 0>> >>), Send(InputTarget, input)>>)
  /\ UNCHANGED <<buf, thinking, screen, consumer, offer, reply, left, main>>

\* Ctrl+c, or a signal, in any phase: what the terminal shows is history.
Quit ==
  /\ main = "tui" /\ main' = "quit"
  /\ buf' = <<>> /\ screen' = <<>> /\ thinking' = FALSE
  /\ UNCHANGED <<phase, confirm, commands, consumer, offer, reply, said, left>>

(* The event loop: what Update does with a message *)

PrintLine(i) ==
  /\ At(i, "print")
  /\ screen' = screen \o commands[i][1].line
  /\ commands' = Done(i)
  /\ UNCHANGED <<phase, confirm, buf, thinking>>

OutFlushed(i) ==
  /\ At(i, "flushed")
  /\ phase' = "streaming"
  /\ commands' = Append(Done(i), <<Read>>)
  /\ UNCHANGED <<confirm, buf, thinking, screen>>

\* StreamEnd: the half line is printed by a goroutine of its own.
StreamEnd(i) ==
  /\ commands' = Start(Done(i), Residue(buf))
  /\ buf' = <<>> /\ thinking' = FALSE /\ phase' = "input"
  /\ UNCHANGED <<confirm, screen>>

\* HumanInTheLoop: nothing is read until the reply was sent.
HumanInTheLoop(i, text) ==
  LET cut == Cut(buf \o text) IN
  /\ commands' = Start(Done(i), cut.lines \o Residue(cut.rest))
  /\ buf' = <<>> /\ thinking' = FALSE /\ phase' = "input" /\ confirm' = TRUE
  /\ UNCHANGED screen

\* As if lines were printed and events read at the same time (Batch).
ReadsAhead(i, text) ==
  LET cut == Cut(buf \o text) IN
  /\ commands' = Append(Start(Done(i), cut.lines), <<Read>>)
  /\ buf' = cut.rest /\ thinking' = FALSE
  /\ UNCHANGED <<phase, confirm, screen>>

StreamText(i, text) ==
  LET cut == Cut(buf \o text) IN
  /\ commands' = Append(Done(i), Append(cut.lines, Read))
  /\ buf' = cut.rest /\ thinking' = FALSE
  /\ UNCHANGED <<phase, confirm, screen>>

\* The done line of a thinking state has no piece.
Thinking(i, shown) ==
  /\ commands' = Append(Done(i), IF thinking /\ ~shown THEN <<Println(<<>>), Read>> ELSE <<Read>>)
  /\ thinking' = shown
  /\ UNCHANGED <<phase, confirm, buf, screen>>

InChunk(i) ==
  /\ At(i, "arrived")
  /\ LET event == commands[i][1].event IN
     \/ event.kind = "end" /\ StreamEnd(i)
     \/ event.kind = "human" /\ HumanInTheLoop(i, event.text)
     \/ event.kind = "text" /\ StreamText(i, event.text)
     \/ event.kind = "thinking" /\ Thinking(i, event.shown)

Update(i) ==
  /\ main = "tui"
  /\ PrintLine(i) \/ OutFlushed(i) \/ InChunk(i)
  /\ UNCHANGED <<consumer, offer, reply, said, left, main>>

(* The commands *)

\* sendOut: an input of Chat meets the consumer in its select; the channel
\* of an approval has room for its one reply.
SendOut(i) ==
  /\ At(i, "send") /\ main # "exited"
  /\ \/ /\ commands[i][1].to = "out" /\ consumer = "waiting" /\ offer = Idle
        /\ consumer' = commands[i][1].input
        /\ UNCHANGED reply
     \/ /\ commands[i][1].to = "reply"
        /\ reply' = TRUE
        /\ UNCHANGED consumer
  /\ commands' = Turns(i, Flushed)
  /\ UNCHANGED <<terminal, offer, said, left, main>>

ReadIn(i) ==
  /\ At(i, "read") /\ main # "exited" /\ offer # Idle
  /\ commands' = Turns(i, Arrived(offer.event))
  /\ consumer' = offer.then /\ offer' = Idle
  /\ UNCHANGED <<terminal, reply, said, left, main>>

\* A message to a program that has quit is dropped; its sender goes on.
Drop(i) ==
  /\ main \notin {"tui", "exited"}
  /\ commands[i][1].op \in {"print", "flushed", "arrived"}
  /\ commands' = Done(i)
  /\ UNCHANGED <<terminal, consumer, offer, reply, said, left, main>>

(* The consumer goroutine *)

\* sendIn blocks until the event is read; then says where to go on.  Texts
\* have a shape, which is filled with the next pieces.
SendIn(event, then) ==
  /\ offer' = [event |-> event, then |-> then]
  /\ UNCHANGED <<said, consumer>>

SendText(kind, shape, then) ==
  /\ offer' = [event |-> [kind |-> kind, text |-> Written(shape)], then |-> then]
  /\ said' = [said EXCEPT ![Len(said)] = @ + Len(Pieces(shape))]
  /\ UNCHANGED consumer

\* ... or until the context is cancelled.
Abandon ==
  /\ Cancelled /\ offer # Idle
  /\ consumer' = offer.then /\ offer' = Idle
  /\ UNCHANGED <<terminal, commands, reply, said, left, main>>

\* Chat has its events presented: reasoning and text, the line of a tool,
\* and approvals, which it then waits for.
Chat ==
  /\ consumer = "chat" /\ offer = Idle
  /\ left > 0 /\ left' = left - 1
  /\ \/ \E shape \in Shapes : SendText("text", shape, "chat")
     \/ \E shown \in BOOLEAN : SendIn([kind |-> "thinking", shown |-> shown], "chat")
     \/ SendText("human", <<P, NL>>, "asking")
  /\ UNCHANGED <<terminal, commands, reply, main>>

\* requestHumanConfirmation: the reply, or the end of the context.
Confirmed ==
  /\ consumer = "asking" /\ offer = Idle
  /\ reply \/ Cancelled
  /\ consumer' = "chat" /\ reply' = FALSE
  /\ UNCHANGED <<terminal, commands, offer, said, left, main>>

\* Chat is over, with an error that is shown or without one; so is a model
\* command, with a message in either case.
ChatReturns ==
  /\ consumer = "chat" /\ offer = Idle
  /\ \/ SendText("text", <<NL, P, NL>>, "ending")
     \/ consumer' = "ending" /\ UNCHANGED <<offer, said>>
  /\ UNCHANGED <<terminal, commands, reply, left, main>>

SwitchModel ==
  /\ consumer = "model" /\ offer = Idle
  /\ SendText("text", <<P, NL>>, "ending")
  /\ UNCHANGED <<terminal, commands, reply, left, main>>

EndTurn ==
  /\ consumer = "ending" /\ offer = Idle
  /\ SendIn([kind |-> "end"], "waiting")
  /\ UNCHANGED <<terminal, commands, reply, left, main>>

\* The consumer's select, once the context is cancelled.
Leave ==
  /\ consumer = "waiting" /\ offer = Idle /\ Cancelled
  /\ consumer' = "gone"
  /\ UNCHANGED <<terminal, commands, offer, reply, said, left, main>>

(* The main goroutine, once the program has returned *)

Goes(from, to) ==
  /\ main = from /\ main' = to
  /\ UNCHANGED <<terminal, commands, consumer, offer, reply, said, left>>

Cancel == Goes("quit", "cancelled")
Cleanup == Goes("cancelled", "cleaned")
Exit == Goes("cleaned", "exited")

-----------------------------------------------------------------------------
User == (\E input \in {"chat", "model"} : SubmitInput(input)) \/ Quit

Goroutines ==
  /\ main # "exited"
  /\ \/ \E i \in DOMAIN commands : Update(i) \/ SendOut(i) \/ ReadIn(i) \/ Drop(i)
     \/ Abandon \/ Chat \/ Confirmed \/ ChatReturns \/ SwitchModel \/ EndTurn \/ Leave

Main == Cancel \/ Cleanup \/ Exit

\* The process has ended.
Ended == main = "exited" /\ UNCHANGED vars

Next == User \/ Goroutines \/ Main \/ Ended

Spec == Init /\ [][Next]_vars

\* The scheduler runs every goroutine that can go on: Chat is bounded, so
\* that between two inputs one of them does.  Nobody has to type.
FairSpec == Spec /\ WF_vars(Goroutines) /\ WF_vars(Main)

-----------------------------------------------------------------------------
(* Properties *)

\* What was said since input k, wherever it is: printed, about to be, in
\* the half line, in a message to the event loop, or waiting to be read.
Trace(k) ==
  LET all == FlattenSeq(commands)
      Lines(i) == IF all[i].op = "print" THEN all[i].line ELSE <<>>
      TextOf(event) == IF event.kind \in {"text", "human"} THEN event.text ELSE <<>>
      Fresh(i) == IF all[i].op = "arrived" THEN TextOf(all[i].event) ELSE <<>> IN
  SelectSeq(screen \o FlattenSeq([i \in DOMAIN all |-> Lines(i)]) \o buf
              \o FlattenSeq([i \in DOMAIN all |-> Fresh(i)]) \o TextOf(offer.event),
            LAMBDA t : t[1] = k /\ t # NL)

\* Nothing of a turn is lost, shown twice or out of order: the echo and
\* then all that was said since are on the screen or on their way to it, in
\* that order, although lines are printed by goroutines, half lines stay
\* behind, approvals interrupt the turn and its end is flushed by yet
\* another goroutine (readIn, appendStream, flushStream).
EveryPieceOnce ==
  main = "tui" =>
    \A k \in DOMAIN said : Trace(k) = [n \in 1..(said[k] + 1) |-> <<k, n - 1>>]

\* The prompt takes an input only when the one it goes to waits for it: the
\* consumer, or the call that asked for an approval, with no event left
\* unread, no half or thinking line in the frame and no older reply
\* (takeInputTarget, InChunk).
InputIsExpected ==
  main = "tui" /\ phase = "input" =>
    /\ consumer = IF confirm THEN "asking" ELSE "waiting"
    /\ offer = Idle /\ buf = <<>> /\ ~thinking /\ ~reply

\* One goroutine at a time sends, reads or reports to the event loop, and
\* none while the prompt is open: two readers would deliver events out of
\* order, no reader would end the conversation (the comment on readIn).
OneHandOff ==
  LET Busy(ops) == \E j \in DOMAIN ops : ops[j].op # "print" IN
  main = "tui" =>
    Len(SelectSeq(commands, Busy)) = IF phase = "input" THEN 0 ELSE 1

\* Every input comes back to the prompt, whatever Chat does with it, unless
\* the user quits, and who quits gets his shell back.
TurnsEnd ==
  /\ (main = "tui" /\ phase # "input") ~> (phase = "input" \/ main # "tui")
  /\ main = "quit" ~> main = "exited"

\* The comment in run_cli.Run: its cancel lets the Chat in flight converge
\* before the deferred Cleanup closes the tools and the repository.
ConvergesBeforeCleanup ==
  main \in {"cleaned", "exited"} => consumer \notin {"chat", "asking"}
=============================================================================
