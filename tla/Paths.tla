------------------------------- MODULE Paths -------------------------------
(***************************************************************************)
(* Paths: path_simplify (src/libk/path.c) against a definition by          *)
(* rewriting, mounts and their resolution (src/kernel/vfs/mount.c) and the *)
(* working directory (src/libc/unistd/cwd.c).  A path is a sequence of     *)
(* characters.  The state is either a path that is being rewritten, or the *)
(* mounts and the working directory of a process.                          *)
(***************************************************************************)
EXTENDS Naturals, Sequences, SequencesExt, FiniteSetsExt

CONSTANTS
    Letter,         \* characters besides "/" and "."
    KernelPrefix,   \* the prefixes of kernel mounts, e.g. "/dev/"
    MaxPath,        \* bound: the length of a path that is simplified
    MaxName,        \* bound: the length of a path that is mounted or entered
    MaxMounts       \* bound: mounts of the process

VARIABLES
    path, origin,   \* a path, and the one it was rewritten from
    cwd,            \* the working directory
    mnts            \* the prefixes of VfsMount, newest first

paths_vars == <<path, origin, cwd, mnts>>

Char == Letter \cup {"/", "."}
Slash == <<"/">>
Dot == <<".">>
DotDot == <<".", ".">>

\* The segments between slashes of a path that starts with one.
Segments(s) ==
    FoldLeft(LAMBDA acc, c : IF c = "/" THEN Append(acc, <<>>) ELSE [acc EXCEPT ![Len(acc)] = Append(@, c)],
             <<>>, s)
Joined(segs) == FlattenSeq([i \in DOMAIN segs |-> Slash \o segs[i]])

-----------------------------------------------------------------------------
\* "try to backtrack to the last slash"; "!" marks a path that is invalid.
backtrack(out, seg) ==
    LET slashes == {k \in DOMAIN out : out[k] = "/"}
    IN IF slashes = {} THEN <<"!">> ELSE SubSeq(out, 1, Max(slashes) - 1)

\* One turn of the loop.
simplify_segment(out, seg) ==
    CASE out = <<"!">> -> out
      [] seg \in {<<>>, Dot} -> out
      [] seg = DotDot -> backtrack(out, seg)
      [] OTHER -> out \o Slash \o seg

\* The simplified path, or <<>> if it is invalid.
path_simplify(in) ==
    IF in = <<>> \/ in[1] # "/" THEN <<>>
    ELSE LET out == FoldLeft(simplify_segment, <<>>, Segments(in))
             directory == Last(Segments(in)) \in {<<>>, Dot, DotDot}
         IN IF out = <<"!">> THEN <<>> ELSE IF directory THEN Append(out, "/") ELSE out

\* Bug: a prefix matches whatever follows it.
mount_matches_garbage(prefix, s) == IsPrefix(prefix, s)
mount_matches(prefix, s) ==
    /\ IsPrefix(prefix, s)
    /\ \/ Len(prefix) = Len(s)
       \/ s[Len(prefix) + 1] = "/"
       \/ Len(prefix) # 0 /\ Last(prefix) = "/"

\* The index of the mount that serves s, 0 if there is none.
vfs_mount_resolve(s) == SelectInSeq(mnts, LAMBDA m : mount_matches(m, s))

absolutepath(in) ==
    path_simplify(IF in # <<>> /\ in[1] = "/" THEN in
                  ELSE cwd \o (IF Last(cwd) = "/" THEN <<>> ELSE Slash) \o in)

-----------------------------------------------------------------------------
mount_prefix(s) == IF Last(s) = "/" THEN Front(s) ELSE s

\* _sys_mount of a front end, after a path that is valid.
Mount(in) ==
    /\ mnts # <<>> /\ Len(mnts) < MaxMounts
    /\ path_simplify(in) # <<>>
    /\ mnts' = <<mount_prefix(path_simplify(in))>> \o mnts
    /\ UNCHANGED <<path, origin, cwd>>

\* chdir to a directory that can be opened.  Of a path that is invalid chdir
\* opens what absolutepath left in its buffer: not modelled.
chdir(in) ==
    LET to == absolutepath(in) IN
    /\ mnts # <<>> /\ to # <<>> /\ Len(to) <= MaxName + 1
    /\ cwd' = IF Last(to) = "/" THEN to ELSE Append(to, "/")
    /\ UNCHANGED <<path, origin, mnts>>

\* What a path means, by rewriting in any order: "//" and "/./" are "/", and
\* so is "/name/../"; at the end of the path it stays a directory.
Rewrites(segs, i, n) ==
    IF i + n > Len(segs) THEN Append(SubSeq(segs, 1, i - 1), <<>>)
    ELSE SubSeq(segs, 1, i - 1) \o SubSeq(segs, i + n, Len(segs))
Rewrite ==
    LET segs == Segments(path) IN
    /\ mnts = <<>> /\ path # <<>>
    /\ \E i \in DOMAIN segs :
        \/ /\ segs[i] = Dot \/ (segs[i] = <<>> /\ i < Len(segs))
           /\ path' = Joined(Rewrites(segs, i, 1))
        \/ /\ i < Len(segs) /\ segs[i] \notin {<<>>, Dot, DotDot} /\ segs[i + 1] = DotDot
           /\ path' = Joined(Rewrites(segs, i, 2))
    /\ UNCHANGED <<origin, cwd, mnts>>

PathsInit ==
    \/ /\ mnts = <<>> /\ cwd = Slash
       /\ path \in {Slash \o s : s \in BoundedSeq(Char, MaxPath - 1)}
       /\ origin = path
    \/ /\ mnts = Append(SetToSeq(KernelPrefix), <<>>) /\ cwd = Slash
       /\ path = <<>> /\ origin = <<>>

PathsNext ==
    \/ Rewrite
    \/ \E in \in BoundedSeq(Char, MaxName) : Mount(in) \/ chdir(in)

-----------------------------------------------------------------------------
(* Properties. *)

PathsTypeOK ==
    /\ \A s \in {path, origin, cwd} : \A i \in DOMAIN s : s[i] \in Char
    \* user mounts have no slash at the end
    /\ \A i \in 1..(Len(mnts) - Cardinality(KernelPrefix) - 1) : mnts[i] = <<>> \/ Last(mnts[i]) # "/"

\* path_simplify does not tell spellings of a path apart, and keeps the
\* simplest one as it is; a path that leaves the root is invalid.
SimplifyExact ==
    path # <<>> =>
        /\ path_simplify(path) = path_simplify(origin)
        /\ ~ENABLED Rewrite => path_simplify(path) = IF DotDot \in Range(Segments(path)) THEN <<>> ELSE path

\* The assertion in path_simplify, and the promise of path.h: the result fits
\* into the memory of the path, which the callers simplify in place.
SimplifyFits == path # <<>> => Len(path_simplify(path)) <= Len(path) /\ Len(path_simplify(origin)) <= Len(origin)

\* A path is served by the newest mount that is one of its parents, or itself:
\* segment by segment, and never by one with a name that only begins alike.
ResolveExact ==
    mnts # <<>> => \A s \in {path_simplify(Slash \o t) : t \in BoundedSeq(Char, MaxName)} \ {<<>>} :
        LET above(m) == LET p == Segments(m)
                            dirs == IF p # <<>> /\ Last(p) = <<>> THEN Front(p) ELSE p
                        IN IsPrefix(dirs, Segments(s)) /\ (dirs # p => Len(Segments(s)) > Len(dirs))
            at == vfs_mount_resolve(s)
        IN at > 0 /\ above(mnts[at]) /\ \A i \in 1..(at - 1) : ~above(mnts[i])

\* The working directory stays a simplified, absolute path of a directory, and
\* a relative path means the same as after spelling the directory out.
CwdExact ==
    mnts # <<>> => /\ Last(cwd) = "/" /\ path_simplify(cwd) = cwd
                   /\ \A s \in BoundedSeq(Char, MaxName) :
                        ~IsPrefix(Slash, s) => path_simplify(cwd \o s) = absolutepath(s)

\* Spellings of a path are not told apart, and each is resolved to its mount.
PathsSound == PathsTypeOK /\ SimplifyExact /\ SimplifyFits /\ ResolveExact /\ CwdExact
=============================================================================
