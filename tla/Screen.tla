------------------------------- MODULE Screen -------------------------------
(***************************************************************************)
(* What the user sees of the terminal (cli.py): TuiOutput, the buffer that    *)
(* the threads of turns write under a lock; the refresh before each frame,     *)
(* which takes the lock twice; and the notices that are put between.          *)
(*                                                                         *)
(* A text is the sequence of the lines, pieces of streamed text and notices    *)
(* it is made of; line breaks are left out.                                  *)
(***************************************************************************)
EXTENDS Integers, Subsequences, SequencesExt

CONSTANTS MaxWrites    \* bound: lines, pieces and notices together

VARIABLES
    lines,      \* TuiOutput._lines
    streaming,  \* TuiOutput._streaming
    refresh,    \* where _refresh_ui is
    completed,  \* what its flush has returned
    text,       \* output_buffer.text
    pos,        \* _streaming_pos
    notices,    \* AsyncNoticeBuffer: enqueued, not pulled
    written     \* all that was written, in order: observation

vars == <<lines, streaming, refresh, completed, text, pos, notices, written>>

Init ==
    /\ lines = <<>> /\ streaming = <<>> /\ text = <<>> /\ pos = -1
    /\ refresh = "no" /\ completed = <<>> /\ notices = <<>> /\ written = <<>>

New(kind) == [kind |-> kind, number |-> Len(written) + 1]
Log(kind) == Len(written) < MaxWrites /\ written' = Append(written, New(kind))

Screen == <<refresh, completed, text, pos>>

\* A delta of the model's answer.
WritePiece ==
    /\ Log("piece")
    /\ streaming' = Append(streaming, New("piece"))
    /\ UNCHANGED <<lines, notices, Screen>>

\* Progress, an approval, the answer to a command: what was streamed before it
\* becomes a line of its own.
WriteLine ==
    /\ Log("line")
    /\ lines' = lines \o streaming \o <<New("line")>>
    /\ streaming' = <<>>
    /\ UNCHANGED <<notices, Screen>>

\* The turn is over.
CompleteStreaming ==
    /\ streaming # <<>>
    /\ lines' = lines \o streaming /\ streaming' = <<>>
    /\ UNCHANGED <<notices, written, Screen>>

Enqueue ==
    /\ Log("notice")
    /\ notices' = Append(notices, New("notice"))
    /\ UNCHANGED <<lines, streaming, Screen>>

\* The first half of _refresh_ui: flush.
Flush ==
    /\ refresh = "no"
    /\ refresh' = "flushed" /\ completed' = lines /\ lines' = <<>>
    /\ UNCHANGED <<streaming, text, pos, notices, written>>

\* Where the text ends that is not streamed, when pos says where that starts.
Before(shown, at) == IF at >= 0 THEN SubSeq(shown, 1, at) ELSE shown

\* Mutant: the completed text is put where streaming started, and that is kept.
AppendKeepingPos(shown, at, more) ==
    IF more = <<>> THEN [text |-> shown, pos |-> at]
    ELSE [text |-> Before(shown, at) \o more, pos |-> at]

AppendCompleted(shown, at, more) ==
    IF more = <<>> THEN [text |-> shown, pos |-> at]
    ELSE [text |-> Before(shown, at) \o more, pos |-> -1]

ShowStreaming(shown, at, more) ==
    IF more = <<>> THEN [text |-> shown, pos |-> at]
    ELSE [text |-> Before(shown, at) \o more, pos |-> Len(Before(shown, at))]

ShowNotices(shown, at, more) ==
    IF more = <<>> THEN [text |-> shown, pos |-> at]
    ELSE [text |-> shown \o more, pos |-> -1]

\* The second half: peek_streaming, and what _refresh_ui does with both.
Show ==
    /\ refresh = "flushed"
    /\ LET first == AppendCompleted(text, pos, completed)
           then  == ShowStreaming(first.text, first.pos, streaming)
           last  == ShowNotices(then.text, then.pos, notices)
       IN text' = last.text /\ pos' = last.pos
    /\ refresh' = "no" /\ completed' = <<>> /\ notices' = <<>>
    /\ UNCHANGED <<lines, streaming, written>>

Next == WritePiece \/ WriteLine \/ CompleteStreaming \/ Enqueue \/ Flush \/ Show

Spec == Init /\ [][Next]_vars

---------------------------------------------------------------------------
(* Properties *)

\* All that is on the screen or on its way there.
Everywhere == text \o completed \o lines \o streaming \o notices

Of(kind, shown) == Filter(shown, LAMBDA item : item.kind = kind)

\* Without a notice in between, and when no streamed text waits to be completed,
\* the screen and the buffers are what was written.
StreamedOnce ==
    refresh = "no" /\ pos = -1 /\ Of("notice", written) = <<>>
      => text \o lines \o streaming = written

\* The refresh overwrites the streamed text at the end of the screen again and
\* again, while other threads write: what it overwrites is in a buffer that is
\* shown later.  No line, piece or notice is lost, lines and notices each stay in
\* the order they were written, and once; streamed text as well, but for notices.
NothingIsOverwritten ==
    /\ Of("line", Everywhere) = Of("line", written)
    /\ Of("notice", Everywhere) = Of("notice", written)
    /\ ToSet(written) = ToSet(Everywhere)
    /\ StreamedOnce
=============================================================================
