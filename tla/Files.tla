------------------------------- MODULE Files -------------------------------
(***************************************************************************)
(* How reads and writes at an offset reach the bytes of a file:            *)
(* fs_normslice (src/libk/fsutil.c) and the servers that use it.  Kinds of *)
(* files: "list", served by req_readcopy; "fb", the frame buffer of        *)
(* driver/video.c; "disk", driver/pata.c over ata.c; "tmpfs".              *)
(***************************************************************************)
EXTENDS Integers, Sequences

CONSTANTS
    Datum, Uninit,      \* bytes, and memory that nobody has written
    Sec, Sectors,       \* bytes in a sector (512), sectors of the disk
    WBuf,               \* the size of wbuf in pata.c
    Round,              \* what tmpfs rounds a capacity to (512)
    MemLen,             \* the length of a file in memory that has a fixed one
    MaxIo, MaxOff       \* bounds: the length and the offset of a request

ASSUME FilesAssumption ==
    /\ Sec \in Nat \ {0} /\ Round \in Nat \ {0}
    /\ Sectors \in Nat /\ WBuf \in Nat /\ MemLen \in Nat /\ MaxIo \in Nat /\ MaxOff \in Nat

VARIABLES
    kind,
    store,              \* the memory, or the disk, that holds the file
    size,
    io                  \* the request that was served, and its result

files_vars == <<kind, store, size, io>>

min(a, b) == IF a < b THEN a ELSE b

FilesTypeOK ==
    /\ kind \in {"list", "fb", "disk", "tmpfs"}
    /\ \A i \in DOMAIN store : store[i] \in Datum \cup {Uninit}
    \* the file fits into its memory
    /\ size \in 0..Len(store) /\ (kind = "tmpfs" => Len(store) % Round = 0)

-----------------------------------------------------------------------------
\* Bug: the end of the file is -1.
fs_normslice_end(offset, length, max, expand) ==
    LET off == IF offset < 0 THEN offset + max ELSE offset IN
    IF off < 0 \/ (~expand /\ off > max) THEN [off |-> max, len |-> 0]
    ELSE [off |-> off, len |-> IF expand THEN length ELSE min(length, max - off)]
fs_normslice(offset, length, max, expand) ==
    LET off == IF offset < 0 THEN offset + max + 1 ELSE offset IN
    IF off < 0 \/ (~expand /\ off > max) THEN [off |-> max, len |-> 0]
    ELSE [off |-> off, len |-> IF expand THEN length ELSE min(length, max - off)]

\* The bytes b, with s put at index off.
put(b, s, off) == [i \in 1..Len(b) |-> IF i > off /\ i <= off + Len(s) THEN s[i - off] ELSE b[i]]

\* Bug: a transfer that ends within a sector misses it.
ata_cnt_floor(len, skip) == len \div Sec
\* The sectors that ata_read asks for: too few if the slice goes on into one
\* more sector than an aligned one of its length.
ata_cnt(len, skip) == (len - skip + Sec - 1) \div Sec + (IF skip > 0 THEN 1 ELSE 0)

\* The buffer after ata_read: what the sectors did not fill is uninitialized.
ata_read(d, len, off) ==
    LET got == (ata_cnt(len, off % Sec) * Sec) - (off % Sec)
    IN [i \in 1..len |-> IF i <= got /\ off + i <= Len(d) THEN d[off + i] ELSE Uninit]

ata_rawwrite(d, s, lba) == put(d, s, lba * Sec)

\* The bytes s put at index at into sector number lba: the rest of the sector
\* is read from the byte, not the sector, of that number.
ata_patch(d, s, lba, at) == ata_rawwrite(d, put(ata_read(d, Sec, lba), s, at), lba)

ata_write(d, s, off) ==
    LET clen == IF off % Sec = 0 THEN 0 ELSE min(Len(s), Sec - (off % Sec))
        head == IF off % Sec = 0 THEN d ELSE ata_patch(d, SubSeq(s, 1, clen), off \div Sec, off % Sec)
        rest == SubSeq(s, clen + 1, Len(s))
        whole == Len(rest) - (Len(rest) % Sec)
        mid == ata_rawwrite(head, SubSeq(rest, 1, whole), (off + clen) \div Sec)
    IN IF Len(rest) % Sec = 0 THEN mid
       ELSE ata_patch(mid, SubSeq(rest, whole + 1, Len(rest)), (off + clen + whole) \div Sec, 0)

-----------------------------------------------------------------------------
NoRequest == [op |-> "none", off |-> 0, len |-> 0, data |-> <<>>, ret |-> 0]
Reply(op, off, len, s, ret) == io' = [op |-> op, off |-> off, len |-> len, data |-> s, ret |-> ret]

\* req_readcopy, and the reads of pata.c and tmpfs.c.
ReadAt(off, len) ==
    LET s == fs_normslice(off, len, size, FALSE)
        n == IF kind = "disk" THEN min(s.len, WBuf) ELSE s.len
    IN /\ Reply("read", off, len, IF kind = "disk" THEN ata_read(store, n, s.off) ELSE SubSeq(store, s.off + 1, s.off + n), n)
       /\ UNCHANGED <<kind, store, size>>

\* k bytes of the caller's memory can be read; driver/video.c ignores that.
WriteFb(off, s, k) ==
    LET to == fs_normslice(off, Len(s), size, FALSE) IN
    /\ kind = "fb"
    /\ store' = put(store, SubSeq(s, 1, min(k, to.len)), to.off)
    /\ Reply("write", off, k, s, to.len)
    /\ UNCHANGED <<kind, size>>

WriteDisk(off, s, k) ==
    LET to == fs_normslice(off, Len(s), size, FALSE)
        n == min(k, min(to.len, WBuf))
    IN /\ kind = "disk"
       /\ store' = IF min(to.len, WBuf) = 0 THEN store ELSE ata_write(store, SubSeq(s, 1, n), to.off)
       /\ Reply("write", off, k, s, n)
       /\ UNCHANGED <<kind, size>>

\* realloc to a multiple of Round.
grown(b, end) ==
    IF Len(b) > end THEN b
    ELSE [i \in 1..((end + Round - 1) \div Round) * Round |-> IF i <= Len(b) THEN b[i] ELSE Uninit]

WriteTmpfs(off, s, truncate) ==
    LET to == fs_normslice(off, Len(s), size, TRUE)
        end == to.off + to.len
    IN /\ kind = "tmpfs" /\ end <= MaxOff
       /\ store' = put(grown(store, end), SubSeq(s, 1, to.len), to.off)
       /\ size' = IF truncate \/ size < end THEN end ELSE size
       /\ Reply(IF truncate THEN "truncate" ELSE "write", off, Len(s), s, to.len)
       /\ UNCHANGED kind

\* The caller goes on with the answer.
Answered == io.op # "none" /\ io' = NoRequest /\ UNCHANGED <<kind, store, size>>

GetSize == Reply("getsize", 0, 0, <<>>, size) /\ UNCHANGED <<kind, store, size>>

FilesInit ==
    /\ kind \in {"list", "fb", "disk", "tmpfs"}
    /\ store \in CASE kind = "tmpfs" -> {<<>>}
                 [] kind = "disk" -> [1..(Sec * Sectors) -> Datum]
                 [] OTHER -> [1..MemLen -> Datum]
    /\ size = Len(store)
    /\ io = NoRequest

FilesNext ==
    \/ Answered
    \/ /\ io = NoRequest
       /\ \/ GetSize
          \/ \E off \in -(MaxOff + 2)..MaxOff, len \in 0..MaxIo :
                \/ ReadAt(off, len)
                \/ \E s \in [1..len -> Datum] :
                    \/ \E truncate \in BOOLEAN : WriteTmpfs(off, s, truncate)
                    \/ \E k \in 0..len : WriteFb(off, s, k) \/ WriteDisk(off, s, k)

FilesSpec == FilesInit /\ [][FilesNext]_files_vars

-----------------------------------------------------------------------------
(* Properties.  Index off of a file of n bytes, as the comment in          *)
(* fs_normslice describes it: -1 is the end of the file, and what lies     *)
(* before the file is the end too.                                         *)

Index(off, n) == IF off >= 0 THEN off ELSE IF off + n + 1 >= 0 THEN off + n + 1 ELSE n
Before(off, n) == off < 0 /\ off + n + 1 < 0

\* A read returns the bytes of the file from its offset on, as many as were
\* asked for or as there are; a disk may return less, but only after WBuf,
\* and is only exact from the start of a sector.
ReadsExact ==
    io.op = "read" =>
        LET at == Index(io.off, size)
            n == IF Before(io.off, size) \/ at > size THEN 0 ELSE min(io.len, size - at)
        IN /\ io.ret = Len(io.data) /\ io.ret = (IF kind = "disk" THEN min(n, WBuf) ELSE n)
           /\ kind # "disk" \/ at % Sec = 0 => io.data = SubSeq(store, at + 1, at + io.ret)

\* A write to memory changes the bytes at its offset and no others: it is cut
\* at the end of a frame buffer, makes a file of tmpfs longer, and only with
\* WRITE_TRUNCATE shorter.
WritesExact ==
    [][(io'.op \in {"write", "truncate"} /\ kind # "disk") =>
        LET at == Index(io'.off, size)
            room == IF kind = "tmpfs" THEN io'.ret ELSE min(io'.len, io'.ret)
        IN /\ kind = "tmpfs" /\ ~Before(io'.off, size) => io'.ret = Len(io'.data)
           /\ size' = IF kind = "fb" THEN size ELSE IF io'.op = "truncate" \/ at + io'.ret > size THEN at + io'.ret ELSE size
           /\ \A i \in 1..size' :
                \/ i > at /\ i <= at + room /\ store'[i] = io'.data[i - at]
                \/ (i <= at \/ i > at + room) /\ (i <= size => store'[i] = store[i])]_files_vars

\* A write to a disk changes what it was asked to, and nothing outside the
\* sectors it begins and ends in; within these, nothing if it writes whole
\* sectors.
SectorsExact ==
    [][(io'.op = "write" /\ kind = "disk" /\ store' # store) =>
        LET at == Index(io'.off, size) IN
        \A i \in 1..size :
            /\ i > at /\ i <= at + io'.ret => store'[i] = io'.data[i - at]
            /\ (i - 1) \div Sec \notin (at \div Sec)..((at + io'.ret) \div Sec) => store'[i] = store[i]
            /\ at % Sec = 0 /\ io'.ret % Sec = 0 /\ (i <= at \/ i > at + io'.ret) => store'[i] = store[i]]_files_vars

\* Every read returns the bytes of the slice, from a file that fits its memory.
FilesSound == FilesTypeOK /\ ReadsExact

\* Every write changes the bytes of the slice, and no others that matter.
WritesSound == WritesExact /\ SectorsExact
=============================================================================
