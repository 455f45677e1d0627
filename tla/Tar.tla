-------------------------------- MODULE Tar ---------------------------------
(***************************************************************************)
(* The archive that bootstrap serves as the first file system,             *)
(* src/bootstrap/tar.c.  Memory is a sequence of sectors: a header, then   *)
(* the data of its file, which may itself be an archive.                   *)
(***************************************************************************)
EXTENDS Files, Listing

CONSTANTS
    Archives,       \* the archives: sequences of [name, type, link, size, inner]
    TarPaths,       \* the paths that are opened
    Block           \* bytes in a sector (512)

VARIABLES
    archive,        \* the files that were packed
    image,          \* the memory at base
    meta,           \* the id of the open file: index of its header, 0 if none
    told            \* the last request and its reply

tar_vars == <<archive, image, meta, told>>

root_fakemeta == -1
NoReply == [op |-> "none", path |-> <<>>, off |-> 0, len |-> 0, data |-> <<>>]

\* How tar packs: byte i of a file is <<name, i>>; a file with inner # <<>>
\* contains an archive with that name in it, each of its sectors a header.
Header(e) == [ustar |-> TRUE, name |-> e.name, type |-> e.type, link |-> e.link, size |-> e.size, bytes |-> <<>>]
Blocks(n) == (n + Block - 1) \div Block
Data(e, j) == [ustar |-> e.inner # <<>>, name |-> e.inner, type |-> "0", link |-> <<>>, size |-> 0,
               bytes |-> [b \in 1..Block |-> <<e.name, (j - 1) * Block + b>>]]
Zeros == [ustar |-> FALSE, name |-> <<>>, type |-> "0", link |-> <<>>, size |-> 0, bytes |-> <<>>]
Packed(es) == FlattenSeq([i \in DOMAIN es |-> <<Header(es[i])>> \o [j \in 1..Blocks(es[i].size) |-> Data(es[i], j)]])

-----------------------------------------------------------------------------
\* Bug: the data of a file is looked through as well.
tar_next_data(at) == at + 1
tar_next(at) == at + 1 + Blocks(image[at].size)

\* The headers that tar_find and tar_dirbuild come by.
Metas ==
    LET from[at \in 1..(Len(image) + 1)] ==
            IF at > Len(image) \/ ~image[at].ustar THEN <<>> ELSE <<at>> \o from[tar_next(at)]
    IN from[1]

tar_find(path) ==
    LET hits == SelectSeq(Metas, LAMBDA at : image[at].name = path) IN IF hits = <<>> THEN 0 ELSE Head(hits)

tar_type(at) == IF at = root_fakemeta THEN "5" ELSE image[at].type

tar_open(path) ==
    LET p == IF Head(path) = "/" THEN Tail(path) ELSE path
        found == tar_find(p)
    IN IF p = <<>> THEN root_fakemeta
       ELSE IF found # 0 /\ tar_type(found) = "1" THEN tar_find(image[found].link) ELSE found

\* The names directly below: no slash in the rest but at its end.
tar_child(prefix, name) ==
    /\ IsPrefix(prefix, name) /\ Len(name) > Len(prefix)
    /\ \A i \in (Len(prefix) + 1)..(Len(name) - 1) : name[i] # "/"

tar_dirbuild(offset) ==
    LET prefix == IF meta = root_fakemeta THEN <<>> ELSE image[meta].name
        below == SelectSeq(Metas, LAMBDA at : tar_child(prefix, image[at].name))
    IN FoldLeft(LAMBDA db, at : dir_appendl(db, SubSeq(image[at].name, Len(prefix) + 1, Len(image[at].name))),
                dir_start(offset), below).buf

-----------------------------------------------------------------------------
Tell(op, path, off, len, data) == told' = [op |-> op, path |-> path, off |-> off, len |-> len, data |-> data]

TarOpen(path) ==
    /\ meta = 0
    /\ meta' = tar_open(path) /\ Tell("open", path, 0, 0, <<>>)
    /\ UNCHANGED <<archive, image>>

\* The data begins in the sector after the header.
TarReadFile(off, len) ==
    LET s == fs_normslice(off, len, image[meta].size, FALSE)
        bytes == FlattenSeq([j \in 1..Blocks(image[meta].size) |-> image[meta + j].bytes])
    IN
    /\ meta > 0 /\ tar_type(meta) = "0" /\ told.op = "open"
    /\ Tell("read", told.path, off, len, SubSeq(bytes, s.off + 1, s.off + s.len))
    /\ UNCHANGED <<archive, image, meta>>

TarReadDir(off) ==
    /\ meta # 0 /\ tar_type(meta) = "5" /\ told.op = "open"
    /\ Tell("list", told.path, off, 0, tar_dirbuild(off))
    /\ UNCHANGED <<archive, image, meta>>

TarGetSize ==
    /\ meta # 0 /\ told.op = "open"
    /\ Tell("getsize", told.path, 0, IF tar_type(meta) = "5" THEN Len(tar_dirbuild(0)) ELSE image[meta].size, <<>>)
    /\ UNCHANGED <<archive, image, meta>>

\* The caller is done with the reply, or closes the file; other requests fail.
TarClose ==
    /\ told.op # "none"
    /\ meta' = 0 /\ told' = NoReply
    /\ UNCHANGED <<archive, image>>

TarInit ==
    /\ archive \in Archives /\ image = Append(Packed(archive), Zeros)
    /\ meta = 0 /\ told = NoReply

TarNext ==
    \/ \E path \in TarPaths : TarOpen(path)
    \/ \E off \in -2..3, len \in 0..3 : TarReadFile(off, len)
    \/ \E off \in 0..3 : TarReadDir(off)
    \/ TarGetSize \/ TarClose

-----------------------------------------------------------------------------
(* Properties. *)

\* Where the header of file i is, and the first file of a name.
Place(i) == Len(Packed(SubSeq(archive, 1, i - 1))) + 1
First(name) == SelectInSeq(archive, LAMBDA e : e.name = name)
Named(path) == First(IF Head(path) = "/" THEN Tail(path) ELSE path)

\* Requests are served from headers of the archive, never from the data of a
\* file that looks like one.
TarTypeOK == meta \in {0, root_fakemeta} \cup {Place(i) : i \in DOMAIN archive}

\* Open finds exactly the files of the archive, the first one of a name, and
\* for a hard link the file it stands for.
TarFinds ==
    told.op = "open" /\ told.path \notin {<<"/">>} =>
        LET i == Named(told.path)
            target == IF i # 0 /\ archive[i].type = "1" THEN First(archive[i].link) ELSE i
        IN meta = IF target = 0 THEN 0 ELSE Place(target)

\* A read returns the bytes of the file from the offset, counted from behind
\* if it is negative, and getsize their number.
TarReads ==
    LET i == Named(told.path)
        e == archive[IF archive[i].type = "1" THEN First(archive[i].link) ELSE i]
        from == IF told.off < 0 THEN e.size + told.off + 1 ELSE told.off
    IN /\ told.op = "read" =>
            LET n == IF from < 0 \/ from > e.size THEN 0 ELSE min(told.len, e.size - from)
            IN told.data = [k \in 1..n |-> <<e.name, from + k>>]
       /\ told.op = "getsize" /\ meta > 0 /\ tar_type(meta) = "0" => told.len = e.size

\* A directory lists each file that lies directly in it once, and nothing else.
TarLists ==
    LET prefix == IF told.path = <<"/">> THEN <<>> ELSE archive[Named(told.path)].name
        in == SelectSeq(archive, LAMBDA e :
                    \E s \in {SubSeq(e.name, Len(prefix) + 1, Len(e.name))} :
                        IsPrefix(prefix, e.name) /\ s # <<>> /\ Len(dir_seglen(s)) = Len(s))
        whole == FlattenSeq([i \in DOMAIN in |-> SubSeq(in[i].name, Len(prefix) + 1, Len(in[i].name)) \o Nul])
    IN /\ told.op = "list" => told.data = SubSeq(whole, told.off + 1, Len(whole))
       /\ told.op = "getsize" /\ tar_type(meta) = "5" => told.len = Len(whole)

\* The archive is served as it was packed.
TarSound == TarTypeOK /\ TarFinds /\ TarReads /\ TarLists
=============================================================================
