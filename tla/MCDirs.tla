------------------------------- MODULE MCDirs -------------------------------
(* Instances of Dirs for TLC.                                              *)
EXTENDS Dirs

CONSTANTS p1, p2, p3

MCProcs == {p1, p2, p3}

\* p1 is the process that exists first; the other two are alike.
MCSymmetry == Permutations({p2, p3})

\* An archive as tar writes it: each directory before what is in it, two zero
\* blocks at the end.
MCArchive ==
    << <<"bin">>, <<"bin", "f1">>, <<"bin", "f1", "x">>, <<"bin", "ls">>,
       <<"etc">>, << >>, << >> >>

MCDirectories == {<<"bin">>, <<"bin", "f1">>, <<"etc">>}

\* The root, a directory, a file and a path that does not exist.
MCDirPaths == {<< >>, <<"bin">>, <<"bin", "ls">>, <<"no">>}
=============================================================================
