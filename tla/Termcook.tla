------------------------------ MODULE Termcook ------------------------------
(***************************************************************************)
(* The line editor of the terminal, src/cmd/init/driver/termcook.c: keys   *)
(* come one by one, lines go into a pipe whose reader may take them in     *)
(* pieces or close its end.                                                *)
(***************************************************************************)
EXTENDS Naturals, Sequences, SequencesExt

CONSTANTS
    LineCap,        \* the size of linebuf
    MaxKeys         \* bound: keys that are pressed

ASSUME TermcookAssumption == LineCap \in Nat \ {0} /\ MaxKeys \in Nat

VARIABLES
    linebuf,        \* the line so far, linepos is its length
    tstate,         \* "Normal", "Esc" or "CSI"; "Exited" after C-c
    sending,        \* what w_output has still to write
    typed,          \* the keys that were read
    screen,         \* what the current line of the terminal shows
    taken,          \* what the reader has got; "EOF" is an empty write
    reader          \* the other end of the pipe is open

termcook_vars == <<linebuf, tstate, sending, typed, screen, taken, reader>>

\* A letter, which also ends a CSI sequence, "[", backspace, C-c, C-d, enter,
\* escape and tab.
Key == {"x", "[", "bs", "etx", "eot", "nl", "esc", "tab"}
Printed == {"x", "["}

TermcookTypeOK ==
    /\ tstate \in {"Normal", "Esc", "CSI", "Exited"} /\ reader \in BOOLEAN
    /\ Len(linebuf) <= LineCap /\ Range(linebuf) \subseteq Printed
    /\ \A i \in DOMAIN sending : sending[i] \in Printed \cup {"nl", "EOF"}

stored(c) == IF Len(linebuf) < LineCap THEN Append(linebuf, c) ELSE linebuf
echo(c) == IF Len(linebuf) < LineCap THEN Append(screen, c) ELSE screen

\* A full line has no room for its newline.
ended(l) == IF Len(l) < LineCap THEN Append(l, "nl") ELSE l

after_esc(c) == IF c = "[" THEN "CSI" ELSE "Normal"

Typed(c) == typed' = Append(typed, c)
\* w_output gives up if nobody can read.
Output(out) == sending' = IF reader THEN out ELSE <<>>

KeyNormal(c) ==
    /\ tstate = "Normal"
    /\ \/ /\ c = "bs"
          /\ linebuf' = IF linebuf = <<>> THEN <<>> ELSE Front(linebuf)
          /\ screen' = IF linebuf = <<>> THEN screen ELSE Front(screen)
          /\ UNCHANGED <<tstate, sending>>
       \/ /\ c = "eot"
          /\ Output(IF linebuf = <<>> THEN <<"EOF">> ELSE linebuf)
          /\ linebuf' = <<>>
          /\ UNCHANGED <<tstate, screen>>
       \/ /\ c = "etx" /\ tstate' = "Exited"
          /\ UNCHANGED <<linebuf, sending, screen>>
       \/ /\ c = "nl"
          /\ Output(ended(linebuf))
          /\ linebuf' = <<>> /\ screen' = <<>>
          /\ UNCHANGED tstate
       \/ /\ c = "esc" /\ tstate' = "Esc"
          /\ UNCHANGED <<linebuf, sending, screen>>
       \/ /\ c = "tab"
          /\ UNCHANGED <<linebuf, tstate, sending, screen>>
       \/ /\ c \in Printed
          /\ linebuf' = stored(c)
          /\ screen' = echo(c)
          /\ UNCHANGED <<tstate, sending>>

\* The bytes from 0x40 to 0x7E end a CSI sequence, "[" is one of them.
KeyEscaped(c) ==
    /\ \/ tstate = "Esc" /\ tstate' = after_esc(c)
       \/ tstate = "CSI" /\ tstate' = IF c \in Printed THEN "Normal" ELSE "CSI"
    /\ UNCHANGED <<linebuf, sending, screen>>

Press(c) ==
    /\ sending = <<>> /\ Len(typed) < MaxKeys
    /\ Typed(c) /\ (KeyNormal(c) \/ KeyEscaped(c))
    /\ UNCHANGED <<taken, reader>>

\* Bug: after a short write the rest of the line is dropped.
w_output_short(n) == <<>>
w_output(n) == SubSeq(sending, n + 1, Len(sending))

ReaderTakes(n) ==
    /\ reader /\ n \in 1..Len(sending)
    /\ taken' = taken \o SubSeq(sending, 1, n)
    /\ sending' = w_output(n)
    /\ UNCHANGED <<linebuf, tstate, typed, screen, reader>>

ReaderCloses ==
    /\ reader /\ reader' = FALSE /\ sending' = <<>>
    /\ UNCHANGED <<linebuf, tstate, typed, screen, taken>>

TermcookInit ==
    /\ linebuf = <<>> /\ tstate = "Normal" /\ sending = <<>> /\ typed = <<>>
    /\ screen = <<>> /\ taken = <<>> /\ reader = TRUE

TermcookNext ==
    \/ \E c \in Key : Press(c)
    \/ \E n \in 1..(LineCap + 1) : ReaderTakes(n)
    \/ ReaderCloses

TermcookSpec == TermcookInit /\ [][TermcookNext]_termcook_vars
TermcookFairness == WF_termcook_vars(\E n \in 1..(LineCap + 1) : ReaderTakes(n))

-----------------------------------------------------------------------------
(* Properties. *)

\* The user sees the line that will be sent: the screen ends in it, and
\* nothing else is shown unless C-d has sent the start of the line.
EchoTrue == IsSuffix(linebuf, screen) /\ ("eot" \notin Range(typed) => linebuf = screen)

\* The i-th key is among the first LineCap of its line, enter included.
fits(i) == i <= LineCap \/ \E j \in (i - LineCap)..(i - 1) : typed[j] = "nl"

\* If no key edits, what the reader gets, in whatever pieces, are the keys in
\* order, of every line as many as fit: at is where each was typed.
LinesDelivered ==
    reader /\ Range(typed) \subseteq Printed \cup {"nl"} =>
        LET all == taken \o sending \o linebuf IN
        \E at \in [1..Len(all) -> {i \in DOMAIN typed : fits(i)}] :
            /\ Range(at) = {i \in DOMAIN typed : fits(i)}
            /\ \A k, m \in 1..Len(all) : k < m => at[k] < at[m]
            /\ \A k \in 1..Len(all) : all[k] = typed[at[k]]

\* An escape sequence leaves no trace: keys after "esc", "[" up to a letter
\* change nothing but the state.
EscapesVanish ==
    LET n == Len(typed) IN
    /\ n >= 2 /\ typed[n - 1] = "esc" /\ typed[n] = "[" /\ "esc" \notin Range(SubSeq(typed, 1, n - 2)) => tstate = "CSI"
    /\ n >= 1 /\ tstate = "Normal" /\ "esc" \in Range(typed) /\ Range(typed) \subseteq {"esc", "[", "x"} =>
        Len(linebuf) + 2 <= n

\* A line that was entered arrives, or the reader has gone.
LineArrives == []<>(sending = <<>>)

\* The user sees what will be sent, the reader gets what the user typed, and
\* escape sequences leave no trace.
TermcookSound == TermcookTypeOK /\ EchoTrue /\ LinesDelivered /\ EscapesVanish
=============================================================================
