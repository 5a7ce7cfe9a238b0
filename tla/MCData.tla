------------------------------- MODULE MCData -------------------------------
(***************************************************************************)
(* The files of a backup, on their way into an archive and out of it: the  *)
(* writer of an archive with its readers, the restore, and the reading of  *)
(* single chunks.  Each behaviour follows one of the three (part; the      *)
(* others stay in an initial state).                                       *)
(*                                                                         *)
(* The folder that is archived has names whose hashes are not in their     *)
(* order, a folder in it, a file of its own by the name of the virtual     *)
(* file, and a folder that is skipped at the root of a volume; a folder    *)
(* and two files are restored; two goroutines read an image of five bytes, *)
(* in three chunks, with caches of two.                                    *)
(***************************************************************************)
EXTENDS ArchiveReaders, RestoreRun, ImageReader

VARIABLE part

Is(kind, size) == [kind |-> kind, size |-> size]

MCTree == <<>> :> Is("dir", 0) @@ <<"a">> :> Is("file", 2) @@ <<"b">> :> Is("dir", 0)
       @@ <<"b", "c">> :> Is("file", 1) @@ <<"b", "meta">> :> Is("file", 1)
       @@ <<"d">> :> Is("file", 1) @@ <<"meta">> :> Is("file", 1)
       @@ <<"r">> :> Is("dir", 0) @@ <<"t">> :> Is("file", 1)
MCNameOrder == <<"a", "b", "c", "d", "meta", "r", "t">>
MCHash == [a |-> 4, b |-> 1, c |-> 3, d |-> 6, meta |-> 2, r |-> 5, t |-> 7]
MCPatterns == {[anchored |-> FALSE, path |-> <<"d">>], [anchored |-> TRUE, path |-> <<"b", "c">>]}
MCRootOnly == {"r"}
MCVirtual == <<[name |-> "meta", size |-> 1]>>

MCNames == {"d", "f", "g", "x"}
MCEntries == << [path |-> <<"d">>, dir |-> TRUE],
                [path |-> <<"d", "f">>, dir |-> FALSE],
                [path |-> <<"g">>, dir |-> FALSE] >>

\* All; a folder; a file in it, with and without it; files of two folders; and one
\* that is not there.
MCSelections == {{}, {<<"d">>}, {<<"d", "f">>}, {<<"d">>, <<"d", "f">>},
                 {<<"d", "f">>, <<"g">>}, {<<"x">>}, {<<"d">>, <<"d", "x">>}}

MCDynamicEnds == <<1, 4, 5>>

\* A restore that is not followed asks for everything.
Still ==
  /\ snapshot = [meta |-> "none", encrypted |-> FALSE, blob |-> TRUE]
  /\ asked = [mode |-> "original", includes |-> {}, overwrite |-> FALSE, cross |-> FALSE,
              acls |-> FALSE, auth |-> "secret"]
  /\ before = [f \in Files |-> "absent"]

MCInit ==
  /\ part \in {"archive", "restore", "image"}
  /\ Init
  /\ RestoreInit /\ (part # "restore" => Still)
  /\ ImageInit /\ (part # "image" => index = "fixed")

MCNext ==
  /\ UNCHANGED part
  /\ \/ part = "archive" /\ Next /\ UNCHANGED <<restoreVars, imageVars>>
     \/ part = "restore" /\ RestoreNext /\ UNCHANGED <<vars, imageVars>>
     \/ part = "image" /\ ImageNext /\ UNCHANGED <<vars, restoreVars>>

MCSpec == MCInit /\ [][MCNext]_<<part, vars, restoreVars, imageVars>>
==============================================================================
