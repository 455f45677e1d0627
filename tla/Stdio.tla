------------------------------- MODULE Stdio -------------------------------
(***************************************************************************)
(* Streams of the C library, src/libc/stdio/file.c: a position that may be *)
(* relative to the end of the file, a read buffer, a pushed back byte, and *)
(* the loops of fread and fwrite over system calls that transfer less than *)
(* they are asked to or fail.  Nobody else writes to the file.             *)
(***************************************************************************)
EXTENDS Integers, Sequences, SequencesExt

CONSTANTS
    Octet,          \* the bytes of the file
    Gap,            \* what is in a hole that nobody wrote
    RbCap,          \* BUFSIZ, the capacity of the read buffer
    Sizes,          \* the lengths of the reads and writes
    Offsets,        \* the arguments of fseek
    MaxFile         \* bound: the length of the file

ASSUME StdioAssumption ==
    /\ RbCap \in Nat \ {0} /\ MaxFile \in Nat
    /\ Sizes \subseteq Nat /\ Offsets \subseteq Int

VARIABLES
    file,           \* the file
    f,              \* struct _LIBC_FILE, with the bytes in readbuf as rb
    call            \* the call that runs or ran last: op, total, done, and the
                    \* file and the stream as they were when it began

stdio_vars == <<file, f, call>>

StdioTypeOK ==
    /\ Len(file) <= MaxFile /\ f.pos \in -(MaxFile + 1)..(2 * MaxFile)
    /\ Len(f.rb) <= RbCap /\ Len(f.pb) <= 1
    /\ call.op \in {"idle", "fread", "fwrite"} /\ Len(call.done) <= call.total
    \* once relative to the end, a position stays so until fseek
    /\ call.at < 0 => f.pos < 0

-----------------------------------------------------------------------------
(* External: a file system that serves the file, cf. fs_normslice. *)

\* The index of the byte at a position; 0 is the first.
norm(pos) == IF pos >= 0 THEN pos ELSE Len(file) + 1 + pos

\* What read may return of n bytes at pos: anything, but nothing at the end only.
reads(n, pos) ==
    LET rest == IF norm(pos) < 0 THEN <<>> ELSE SubSeq(file, norm(pos) + 1, Len(file))
        most == IF n < Len(rest) THEN n ELSE Len(rest)
    IN IF most = 0 THEN {<<>>} ELSE {SubSeq(rest, 1, k) : k \in 1..most}

\* The file g after s was written at index i.
spliced(g, i, s) ==
    [k \in 1..(IF i + Len(s) > Len(g) THEN i + Len(s) ELSE Len(g)) |->
        IF k > i /\ k <= i + Len(s) THEN s[k - i] ELSE IF k <= Len(g) THEN g[k] ELSE Gap]

-----------------------------------------------------------------------------
fadvance(amt, x) == [x EXCEPT !.pos = IF @ < 0 /\ @ + amt >= 0 THEN -1 ELSE @ + amt]

Idle == call.op = "idle"
left == call.total - Len(call.done)
Begin(op, n, data) ==
    call' = [op |-> op, total |-> n, done |-> <<>>, data |-> data, was |-> file, at |-> f.pos, pb |-> f.pb]
\* A call without a loop.
Quick == call' = [op |-> "idle", total |-> 0, done |-> <<>>, data |-> <<>>, was |-> file', at |-> f'.pos, pb |-> f'.pb]
Return == [call EXCEPT !.op = "idle"]
More(s) == IF Len(call.done) + Len(s) >= call.total \/ f.nofill
           THEN [Return EXCEPT !.done = @ \o s] ELSE [call EXCEPT !.done = @ \o s]

Fread(n) ==
    /\ Idle /\ Begin(IF n = 0 THEN "idle" ELSE "fread", n, <<>>)
    /\ UNCHANGED <<file, f>>

FreadPushback ==
    /\ call.op = "fread" /\ f.pb # <<>>
    /\ f' = [f EXCEPT !.pb = <<>>]
    /\ call' = [call EXCEPT !.done = @ \o f.pb, !.op = IF left = 1 THEN "idle" ELSE "fread"]
    /\ UNCHANGED file

\* A read fails or finds the end of the file, and the loop ends.
FreadBreak(err) ==
    /\ f' = IF err THEN [f EXCEPT !.error = TRUE] ELSE [f EXCEPT !.eof = TRUE]
    /\ call' = Return
    /\ UNCHANGED file

\* Bug: what is left in the buffer is not moved to its start.
unbuffered_keep(rb, n) == SubSeq(rb, 1, Len(rb) - n)
\* The memmove after n bytes were taken from the buffer.
unbuffered(rb, n) == SubSeq(rb, n + 1, Len(rb))

\* Take from the buffer, which is filled first if it is empty and the rest of
\* the request is small.
FreadBuffered ==
    /\ call.op = "fread" /\ f.pb = <<>> /\ f.buffered
    /\ f.rb # <<>> \/ left < RbCap \div 2
    /\ \E rb \in IF f.rb = <<>> THEN reads(RbCap, f.pos) ELSE {f.rb} :
        LET n == IF left < Len(rb) THEN left ELSE Len(rb) IN
        IF rb = <<>> THEN FreadBreak(FALSE)
        ELSE /\ f' = fadvance(n, [f EXCEPT !.rb = unbuffered(rb, n)])
             /\ call' = More(SubSeq(rb, 1, n))
             /\ UNCHANGED file

FreadDirect ==
    /\ call.op = "fread" /\ f.pb = <<>>
    /\ f.buffered => f.rb = <<>> /\ left >= RbCap \div 2
    /\ \E s \in reads(left, f.pos) :
        IF s = <<>> THEN FreadBreak(FALSE)
        ELSE f' = fadvance(Len(s), f) /\ call' = More(s) /\ UNCHANGED file

FreadError == call.op = "fread" /\ f.pb = <<>> /\ f.rb = <<>> /\ FreadBreak(TRUE)

\* A write follows a read only after fseek, as ISO C asks: fwrite does not
\* look at the buffer.
Fwrite(s) ==
    /\ Idle /\ f.rb = <<>> /\ f.pb = <<>>
    /\ norm(f.pos) \in 0..(MaxFile - Len(s))
    /\ Begin(IF s = <<>> THEN "idle" ELSE "fwrite", Len(s), s)
    /\ UNCHANGED <<file, f>>

FwriteStep ==
    /\ call.op = "fwrite"
    /\ \E k \in 1..left :
        LET s == SubSeq(call.data, Len(call.done) + 1, Len(call.done) + k) IN
        /\ file' = spliced(file, norm(f.pos), s)
        /\ f' = fadvance(k, f)
        /\ call' = [call EXCEPT !.done = @ \o s, !.op = IF k = left THEN "idle" ELSE "fwrite"]

FwriteFail ==
    /\ call.op = "fwrite"
    /\ \E err \in BOOLEAN : FreadBreak(err)

ungetc(b) ==
    /\ Idle /\ f.pb = <<>>
    /\ f' = [f EXCEPT !.pb = <<b>>]
    /\ UNCHANGED file /\ Quick

\* The buffer and the pushed back byte are dropped, even if fseek then fails.
seeked(x) == [x EXCEPT !.rb = <<>>, !.pb = <<>>]

\* getsize is TRUE if the file system supports it.
fseeko(offset, whence, getsize) ==
    LET base == CASE whence = "SET" -> 0 [] whence = "CUR" -> f.pos
                  [] whence = "END" -> IF getsize THEN Len(file) ELSE -1
        bad == (base >= 0 /\ base + offset < 0) \/ (base < 0 /\ base + offset >= 0)
    IN
    /\ Idle /\ norm(base + offset) \in 0..MaxFile
    /\ f' = IF bad THEN seeked(f) ELSE [seeked(f) EXCEPT !.pos = base + offset, !.eof = FALSE]
    /\ UNCHANGED file /\ Quick

clearerr ==
    /\ Idle /\ f' = [f EXCEPT !.error = FALSE, !.eof = FALSE]
    /\ UNCHANGED file /\ Quick

Open(pos, trunc, buffered) ==
    /\ file' = IF trunc THEN <<>> ELSE file
    /\ f' = [pos |-> pos, rb |-> <<>>, pb |-> <<>>, eof |-> FALSE, error |-> FALSE,
             buffered |-> buffered, nofill |-> f.nofill]
    /\ Quick

\* fclose, and fopen with mode "r", "w" or "a"; fdopen makes no buffer.
fopen(mode) == Idle /\ Open(IF mode = "a" THEN -1 ELSE 0, mode = "w", TRUE)
fdopen(mode) == Idle /\ Open(IF mode = "a" THEN -1 ELSE 0, FALSE, FALSE)

\* freopen of the file itself.  The buffer is not emptied: programs only use
\* it on the standard streams, which have none.
freopen ==
    /\ Idle /\ f.rb = <<>> /\ f.pb = <<>>
    /\ f' = [f EXCEPT !.pos = 0, !.eof = FALSE]
    /\ UNCHANGED file /\ Quick

fextflags ==
    /\ Idle /\ f' = [f EXCEPT !.nofill = ~@]
    /\ UNCHANGED file /\ Quick

-----------------------------------------------------------------------------
StdioInit ==
    /\ file \in BoundedSeq(Octet, MaxFile)
    /\ f = [pos |-> 0, rb |-> <<>>, pb |-> <<>>, eof |-> FALSE, error |-> FALSE, buffered |-> TRUE, nofill |-> FALSE]
    /\ call = [op |-> "idle", total |-> 0, done |-> <<>>, data |-> <<>>, was |-> file, at |-> 0, pb |-> <<>>]

StdioNext ==
    \/ \E n \in Sizes : Fread(n) \/ \E s \in [1..n -> Octet] : Fwrite(s)
    \/ FreadPushback \/ FreadBuffered \/ FreadDirect \/ FreadError
    \/ FwriteStep \/ FwriteFail \/ clearerr \/ freopen \/ fextflags
    \/ \E b \in Octet : ungetc(b)
    \/ \E o \in Offsets, w \in {"SET", "CUR", "END"}, g \in BOOLEAN : fseeko(o, w, g)
    \/ \E mode \in {"r", "w", "a"} : fopen(mode) \/ fdopen(mode)

StdioSpec == StdioInit /\ [][StdioNext]_stdio_vars

StdioFairness == WF_stdio_vars(FreadPushback \/ FreadBuffered \/ FreadDirect \/ FwriteStep)

-----------------------------------------------------------------------------
(* Properties. *)

\* The stream that a reader sees from the start of the call on.
Start0 == IF call.at < 0 THEN Len(call.was) + 1 + call.at ELSE call.at
Ahead == call.pb \o (IF Start0 < 0 THEN <<>> ELSE SubSeq(call.was, Start0 + 1, Len(call.was)))

\* The read buffer always holds the bytes of the file at the position of the
\* stream, although it was filled for another one.
BufferCoherent ==
    f.rb # <<>> => f.rb = SubSeq(file, norm(f.pos) + 1, norm(f.pos) + Len(f.rb))

\* fread returns what follows in the file after a byte that was pushed back,
\* however the system calls cut it up; and the bytes end early only if the
\* file does, after an error, or by FEXT_NOFILL.
FreadExact ==
    call.data = <<>> =>
        /\ IsPrefix(call.done, Ahead)
        /\ Idle /\ Len(call.done) < call.total => f.error \/ f.nofill \/ (f.eof /\ call.done = Ahead)

\* fwrite puts its bytes one after the other into the file, from the position
\* at the start, and touches nothing else.
FwriteExact ==
    call.data # <<>> =>
        /\ IsPrefix(call.done, call.data)
        /\ file = IF call.done = <<>> THEN call.was ELSE spliced(call.was, Start0, call.done)

\* The loops end.
CallsReturn == []<>(call.op = "idle")

\* The buffers of a stream never show: reads and writes return and change what
\* they would without them.
StdioSound == StdioTypeOK /\ BufferCoherent /\ FreadExact /\ FwriteExact
=============================================================================
