---------------------------- MODULE MCAlgorithms ----------------------------
(* Ring, Files, Paths, Listing, Tar, Pcpy and Parser on small instances.    *)
(* They share no variable, so that a behaviour exercises one of them, and   *)
(* the others stay in a state they can begin in.                             *)
EXTENDS Ring, Tar, Paths, Pcpy, Parser

MCKernelPrefix == {<<"/", "a", "/">>}

A == <<"/", "a">>
AD == <<"/", "a", "/">>
AB == <<"/", "a", "/", "b">>
AA == <<"/", "a", "a">>
MCEntrySets == UNION {[1..n -> [path : {A, AD, AB, AA}, ro : BOOLEAN]] : n \in 0..2}
MCUnderSets == UNION {[1..n -> {<<>>, <<"x", "0">>, <<"y", "z", "0", "x", "0">>}] : n \in 0..2}
MCOpened == {A, AD, AB, AA, <<"/">>}

F == <<"f">>
D == <<"d", "/">>
DF == <<"d", "/", "f">>
DD == <<"d", "/", "d", "/">>
DDF == <<"d", "/", "d", "/", "f">>
TarEntry ==
    [name : {D, DD}, type : {"5"}, link : {<<>>}, size : {0}, inner : {<<>>}]
    \cup [name : {F}, type : {"0"}, link : {<<>>}, size : {0, 2, 3}, inner : {<<>>}]
    \cup [name : {DF}, type : {"0"}, link : {<<>>}, size : {1, 2}, inner : {<<>>, DDF}]
    \cup [name : {DDF}, type : {"1"}, link : {F}, size : {0}, inner : {<<>>}]
MCArchives == UNION {[1..n -> TarEntry] : n \in 0..3}
MCTarPaths == {<<"/">> \o n : n \in {<<>>, D, DF, DD, DDF, F, <<"d">>}}

MCTexts == {<<"a">>, <<"b", "c">>}

VARIABLE part

\* The parts that do not run.
NoFiles == kind = "list" /\ store = <<>> /\ size = 0 /\ io = NoRequest
NoPaths == mnts = <<>> /\ cwd = Slash /\ path = Slash /\ origin = Slash
NoListing == server = "union" /\ entries = <<>> /\ under = <<>> /\ dir = Closed /\ listed = <<>> /\ eof = FALSE
NoTar == archive = <<>> /\ image = <<Zeros>> /\ meta = 0 /\ told = NoReply
NoCopy ==
    /\ space = [s \in Side |-> [p \in 0..(VPages - 1) |-> 0]] /\ pages = [s \in Side |-> "dead"]
    /\ copy = [dst |-> 0, src |-> 0, len |-> 0]
    /\ iter = [s \in Side |-> [virt |-> 0, remaining |-> 0, frag |-> 0, frag_len |-> 0, more |-> TRUE, error |-> FALSE]]
    /\ total = 0 /\ mem = [a \in Addr |-> 0] /\ pc = "done"
NoLine == tokens = <<>> /\ line = <<>> /\ argv = <<>> /\ redir = [stdout |-> None, append |-> FALSE] /\ state = "parse"

AlgorithmsInit ==
    /\ part \in {"ring", "files", "paths", "listing", "tar", "pcpy", "parser"}
    /\ Init
    /\ IF part = "files" THEN FilesInit ELSE NoFiles
    /\ IF part = "paths" THEN PathsInit ELSE NoPaths
    /\ IF part = "listing" THEN ListingInit ELSE NoListing
    /\ IF part = "tar" THEN TarInit ELSE NoTar
    /\ IF part = "pcpy" THEN PcpyInit ELSE NoCopy
    /\ IF part = "parser" THEN ParserInit ELSE NoLine

AlgorithmsVars == <<vars, files_vars, paths_vars, listing_vars, tar_vars, pcpy_vars, parser_vars, part>>

AlgorithmsNext ==
    /\ UNCHANGED part
    /\ \/ part = "ring" /\ Next /\ UNCHANGED <<files_vars, paths_vars, listing_vars, tar_vars, pcpy_vars, parser_vars>>
       \/ part = "files" /\ FilesNext /\ UNCHANGED <<vars, paths_vars, listing_vars, tar_vars, pcpy_vars, parser_vars>>
       \/ part = "paths" /\ PathsNext /\ UNCHANGED <<vars, files_vars, listing_vars, tar_vars, pcpy_vars, parser_vars>>
       \/ part = "listing" /\ ListingNext /\ UNCHANGED <<vars, files_vars, paths_vars, tar_vars, pcpy_vars, parser_vars>>
       \/ part = "tar" /\ TarNext /\ UNCHANGED <<vars, files_vars, paths_vars, listing_vars, pcpy_vars, parser_vars>>
       \/ part = "pcpy" /\ PcpyNext /\ UNCHANGED <<vars, files_vars, paths_vars, listing_vars, tar_vars, parser_vars>>
       \/ part = "parser" /\ ParserNext /\ UNCHANGED <<vars, files_vars, paths_vars, listing_vars, tar_vars, pcpy_vars>>

AlgorithmsSpec == AlgorithmsInit /\ [][AlgorithmsNext]_AlgorithmsVars
=============================================================================
