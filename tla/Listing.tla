------------------------------ MODULE Listing ------------------------------
(***************************************************************************)
(* The file systems of src/libc/fs that restrict, extend or merge others:  *)
(* fs_whitelist, fs_dirinject2, fs_union, and the listings of directories  *)
(* they build (dir.c), which a program reads piece by piece.  A path is a  *)
(* sequence of characters, a listing the names, each with a null byte.     *)
(***************************************************************************)
EXTENDS Naturals, Sequences, SequencesExt

CONSTANTS
    EntrySets,      \* the lists of entries to check: sequences of [path, ro]
    UnderSets,      \* sequences of listings of the directories underneath
    Opened,         \* the paths that are opened
    Caps            \* the sizes of the reader's buffer

VARIABLES
    server,         \* "whitelist", "dirinject" or "union"
    entries, under, \* its arguments: paths with ":ro" or without, and what it reads from
    dir,            \* the open directory: how open ended, and its path
    listed, eof     \* what the reader has read; it saw the end

listing_vars == <<server, entries, under, dir, listed, eof>>

Nul == <<"0">>
Closed == [how |-> "closed", path |-> <<>>, write |-> FALSE]

ListingTypeOK ==
    /\ server \in {"whitelist", "dirinject", "union"}
    /\ dir.how \in {"closed", "none", "error", "forwarded", "own"}
    \* only directories are opened by the servers themselves
    /\ dir.how = "own" /\ server # "union" => Last(dir.path) = "/"
    /\ dir.how = "closed" => listed = <<>> /\ ~eof

-----------------------------------------------------------------------------
(* dir.c.  offset is what is still to be skipped. *)

\* What read returns of a directory: not less than there is.
slice(s, offset, n) == SubSeq(s, offset + 1, IF offset + n < Len(s) THEN offset + n ELSE Len(s))

dir_start(offset) == [offset |-> offset, buf |-> <<>>]

\* The null byte counts; the size of the buffer is not looked at.
dir_appendl(db, name) ==
    LET s == name \o Nul IN
    IF db.offset < Len(s) THEN [offset |-> 0, buf |-> db.buf \o SubSeq(s, db.offset + 1, Len(s))]
    ELSE [db EXCEPT !.offset = @ - Len(s)]

\* Bug: the end of one directory does not count for the next.
dir_append_from_stay(db, listing, cap) ==
    LET room == IF Len(db.buf) > cap THEN Len(listing) ELSE cap - Len(db.buf)
        s == slice(listing, db.offset, room)
    IN IF room = 0 \/ s = <<>> THEN db ELSE [offset |-> 0, buf |-> db.buf \o s]
\* A read that starts at the end needs getsize.  If names have filled more than
\* the buffer, blen - bpos wraps around and nothing limits the read.
dir_append_from(db, listing, cap) ==
    LET room == IF Len(db.buf) > cap THEN Len(listing) ELSE cap - Len(db.buf)
        s == slice(listing, db.offset, room)
    IN IF room = 0 THEN db
       ELSE IF s # <<>> THEN [offset |-> 0, buf |-> db.buf \o s]
       ELSE [db EXCEPT !.offset = @ - Len(listing)]

-----------------------------------------------------------------------------
prefix_match(prefix, full) ==
    IF Len(full) = Len(prefix) THEN full = prefix
    ELSE prefix # <<>> /\ Last(prefix) = "/" /\ IsPrefix(prefix, full)

\* dir_seglen, dir_seglen2: the first segment, with the slash after it.
dir_seglen(s) == LET i == SelectInSeq(s, LAMBDA c : c = "/") IN IF i = 0 THEN s ELSE SubSeq(s, 1, i)

\* The first entry that covers the path decides.
whitelist_open(p, write) ==
    LET at == SelectInSeq(entries, LAMBDA e : prefix_match(e.path, p)) IN
    IF at > 0 THEN IF entries[at].ro /\ write THEN "error" ELSE "forwarded"
    ELSE IF \E i \in DOMAIN entries : prefix_match(p, entries[i].path) THEN "own" ELSE "none"

\* The entries below a directory, in fs_whitelist and find_injects.
inside(p, e) == Len(p) < Len(e) /\ IsPrefix(p, e)

Names(p) == LET below == SelectSeq(entries, LAMBDA e : inside(p, e.path))
            IN [i \in DOMAIN below |-> dir_seglen(SubSeq(below[i].path, Len(p) + 1, Len(below[i].path)))]

\* What a server replies to a read at offset: its own names, then what the
\* directories underneath list.
reply(p, offset, cap) ==
    FoldLeft(LAMBDA db, l : dir_append_from(db, l, cap),
             FoldLeft(dir_appendl, dir_start(offset), IF server = "union" THEN <<>> ELSE Names(p)),
             IF server = "whitelist" THEN <<>> ELSE under).buf

-----------------------------------------------------------------------------
Open(how, p, write) ==
    /\ dir.how = "closed"
    /\ dir' = [how |-> how, path |-> p, write |-> write]
    /\ UNCHANGED <<server, entries, under, listed, eof>>

WhitelistOpen(p, write) == server = "whitelist" /\ Open(whitelist_open(p, write), p, write)

InjectOpen(p, write) ==
    /\ server = "dirinject"
    /\ Open(IF Last(p) = "/" /\ Names(p) # <<>> THEN "own" ELSE "forwarded", p, write)

\* Any but the root is looked for in one directory after the other.
UnionOpen(p, write) ==
    /\ server = "union"
    /\ IF Len(p) = 1 THEN Open("own", p, write) ELSE \E how \in {"forwarded", "error"} : Open(how, p, write)

\* The kernel hands over as much as the reader has room for.
ReadDir(cap) ==
    LET s == reply(dir.path, Len(listed), cap) IN
    /\ dir.how = "own" /\ ~eof
    /\ listed' = listed \o slice(s, 0, cap)
    /\ eof' = (s = <<>>)
    /\ UNCHANGED <<server, entries, under, dir>>

CloseDir ==
    /\ dir # Closed
    /\ dir' = Closed /\ listed' = <<>> /\ eof' = FALSE
    /\ UNCHANGED <<server, entries, under>>

ListingInit ==
    /\ server \in {"whitelist", "dirinject", "union"}
    /\ entries \in EntrySets /\ under \in UnderSets
    \* one directory, if it could be opened, is under a dirinject
    /\ server = "dirinject" => Len(under) <= 1
    /\ dir = Closed /\ listed = <<>> /\ eof = FALSE

ListingNext ==
    \/ \E p \in Opened, w \in BOOLEAN : WhitelistOpen(p, w) \/ InjectOpen(p, w) \/ UnionOpen(p, w)
    \/ \E cap \in Caps : ReadDir(cap)
    \/ CloseDir

-----------------------------------------------------------------------------
(* Properties. *)

\* All that a directory lists.
Whole == (IF server = "union" THEN <<>> ELSE FlattenSeq([i \in DOMAIN Names(dir.path) |-> Names(dir.path)[i] \o Nul]))
         \o (IF server = "whitelist" THEN <<>> ELSE FlattenSeq(under))

\* However a program reads a directory, in pieces that end within a name or
\* between the directories of a union, it gets the whole listing once.
ListingExact == dir.how = "own" => IsPrefix(listed, Whole) /\ (eof => listed = Whole)

\* A whitelist forwards a path only if it is an entry, or lies in a directory
\* that is one; and only opens for writing what an entry without ":ro" covers
\* and no entry before it protects.
Confined ==
    server = "whitelist" /\ dir.how = "forwarded" =>
        \E i \in DOMAIN entries :
            /\ entries[i].path = dir.path \/ (IsPrefix(entries[i].path, dir.path) /\ Last(entries[i].path) = "/")
            /\ dir.write => ~entries[i].ro
            /\ \A j \in 1..(i - 1) : dir.write /\ entries[j].ro => ~prefix_match(entries[j].path, dir.path)

\* From the root, one directory after the other leads to every entry: each can
\* be opened, and lists the next.
Discoverable ==
    server \in {"whitelist", "dirinject"} => \A i \in DOMAIN entries :
        \A n \in {k \in 1..(Len(entries[i].path) - 1) : entries[i].path[k] = "/"} :
            LET p == SubSeq(entries[i].path, 1, n)
                name == dir_seglen(SubSeq(entries[i].path, n + 1, Len(entries[i].path)))
            IN IF server = "whitelist" /\ whitelist_open(p, FALSE) # "own" THEN whitelist_open(p, FALSE) = "forwarded"
               ELSE name \in Range(Names(p)) /\ name # <<>>

\* The file systems that restrict or merge others list all they should, and
\* forward no more than they should.
ListingSound == ListingTypeOK /\ ListingExact /\ Confined /\ Discoverable
=============================================================================
