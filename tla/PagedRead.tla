------------------------------ MODULE PagedRead ------------------------------
(***************************************************************************)
(* The read_file tool read page by page (domain/tools/read_file.go,        *)
(* pagedread.go) as its footer says to continue.                           *)
(*                                                                         *)
(* A file is given by the lengths of its lines; the bytes of a line are    *)
(* numbered, and so are all bytes different.  Carriage returns are left    *)
(* out.                                                                    *)
(***************************************************************************)
EXTENDS Integers, Sequences, SequencesExt

CONSTANTS
  Files,       \* records [lines: lengths of the lines, terminated: BOOLEAN]
  BufferSize,  \* bytes that bufio reads at once
  PageSizes,   \* readFileToolMaxReadBytes
  LineCounts   \* what a call may ask for, 0 for no limit

VARIABLES
  file,
  maxBytes,
  next,        \* where the next call starts: [line, byte]
  got,         \* what the calls have returned so far
  page         \* the last result

vars == <<file, maxBytes, next, got, page>>

Newline == <<0, 0>>

Bytes(line) == [b \in 1 .. file.lines[line] |-> <<line, b>>]

-----------------------------------------------------------------------------
(* bufio.Reader.ReadLine: the chunks of a line.                            *)

\* A buffer that fills up without a newline is a chunk of its own; what follows
\* ends the line, be it empty.  At the end of a file without a last newline
\* nothing may follow.
Chunks(line) ==
  LET full == file.lines[line] \div BufferSize
      rest == SubSeq(Bytes(line), full * BufferSize + 1, file.lines[line])
      ends == line < Len(file.lines) \/ file.terminated \/ rest # <<>>
  IN  [k \in 1 .. full |->
         [line |-> line, prefix |-> TRUE,
          text |-> SubSeq(Bytes(line), (k - 1) * BufferSize + 1, k * BufferSize)]]
        \o (IF ends THEN <<[line |-> line, prefix |-> FALSE, text |-> rest]>> ELSE <<>>)

AllChunks == FlattenSeq([l \in DOMAIN file.lines |-> Chunks(l)])

-----------------------------------------------------------------------------
(* ReadPaged.                                                              *)

NoPage ==
  [content |-> <<>>, linesRead |-> 0, endLine |-> 0, skipped |-> 0, consumed |-> 0,
   truncated |-> FALSE, truncatedBytes |-> 0, finished |-> FALSE]

Spent(p, maxLines) ==
  Len(p.content) >= maxBytes \/ (maxLines > 0 /\ p.linesRead >= maxLines)

Least(a, b) == IF a < b THEN a ELSE b

\* One turn of the loop, for a chunk at or after the start: the bytes before the
\* start are skipped, what the page has room for is kept, and the line is read
\* only if its newline fits too.
Taken(p, chunk, start) ==
  LET before == IF chunk.line = p.endLine THEN p.consumed ELSE 0
      skip   == IF chunk.line = start.line
                  THEN Least(Len(chunk.text), start.byte - 1 - p.skipped) ELSE 0
      rest   == SubSeq(chunk.text, skip + 1, Len(chunk.text))
      kept   == SubSeq(rest, 1, Least(Len(rest), maxBytes - Len(p.content)))
      whole  == ~chunk.prefix /\ Len(kept) = Len(rest) /\ Len(p.content) + Len(kept) < maxBytes
  IN  [p EXCEPT !.content        = @ \o kept \o (IF whole THEN <<Newline>> ELSE <<>>),
                !.linesRead      = @ + (IF whole THEN 1 ELSE 0),
                !.endLine        = chunk.line,
                !.skipped        = @ + skip,
                !.consumed       = before + skip + Len(kept),
                !.truncated      = ~whole,
                !.truncatedBytes = IF whole THEN 0 ELSE before + skip + Len(kept)]

Step(p, chunk, start) ==
  IF chunk.line < start.line THEN [p EXCEPT !.endLine = chunk.line] ELSE Taken(p, chunk, start)

\* The file is finished if there was still room when its end was reached.
ReadPaged(start, maxLines) ==
  LET p == FoldLeft(LAMBDA acc, chunk :
                      IF Spent(acc, maxLines) THEN acc ELSE Step(acc, chunk, start),
                    NoPage, AllChunks)
  IN  [p EXCEPT !.finished = ~Spent(p, maxLines)]

\* readFooter: where it says to go on.
Continuation(p) ==
  IF p.truncated THEN [line |-> p.endLine, byte |-> p.truncatedBytes + 1]
  ELSE [line |-> p.endLine + 1, byte |-> 1]

-----------------------------------------------------------------------------

Init ==
  /\ file \in Files
  /\ maxBytes \in PageSizes
  /\ next = [line |-> 1, byte |-> 1]
  /\ got = <<>>
  /\ page = NoPage

\* Execute, called as the last footer said.
ReadFile ==
  /\ ~page.finished
  /\ \E maxLines \in LineCounts :
       LET p == ReadPaged(next, maxLines)
       IN  /\ page' = p
           /\ got' = got \o p.content
           /\ next' = IF p.finished /\ ~p.truncated THEN next ELSE Continuation(p)
  /\ UNCHANGED <<file, maxBytes>>

Done == page.finished /\ UNCHANGED vars

Next == ReadFile \/ Done

Spec == Init /\ [][Next]_vars

-----------------------------------------------------------------------------
(* Properties.                                                             *)

\* The file with a newline after every line, a last line without one included.
Whole == FlattenSeq([l \in DOMAIN file.lines |-> Append(Bytes(l), Newline)])

\* A last line without a newline whose last bytes filled the buffer: ReadLine gives
\* them as the beginning of a line, and then nothing.
EndsFull ==
  /\ ~file.terminated
  /\ Last(file.lines) > 0 /\ Last(file.lines) % BufferSize = 0

\* Whatever the sizes of lines, buffers and pages: the pages, read as the footers
\* say, are the file without a byte twice or missing, none is larger than it may
\* be, and every one that does not end the file has something.  The newline that is
\* added to a last line (pagedread.go:41) is missing exactly if that line ended with
\* a full buffer.
PagesTile ==
  /\ IsPrefix(got, Whole)
  /\ Len(page.content) <= maxBytes
  /\ page # NoPage /\ ~page.finished => page.content # <<>>
  /\ page.finished => (IF EndsFull THEN Append(got, Newline) ELSE got) = Whole
=============================================================================
