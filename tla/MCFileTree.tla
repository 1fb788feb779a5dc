----------------------------- MODULE MCFileTree -----------------------------
(* Small instances of FileTree. *)
EXTENDS FileTree

CONSTANTS x, y

Rel(e) == [abs |-> FALSE, elems |-> e]
Make(op, e) == [op |-> op, path |-> Rel(e), new |-> <<>>]

\* Files and directories named x, in the root or below a directory of it, a
\* second name y above the current directory, and a call that finds a directory
\* where it would make one.
MCCalls ==
    {Make("create", <<x>>), Make("mkdir", <<x>>), Make("mkdir", <<"..">>),
     Make("chdir", <<x>>), [Make("open", <<y>>) EXCEPT !.path.abs = TRUE],
     Make("unlink", <<x>>),
     [op |-> "link", path |-> Rel(<<x>>), new |-> <<Rel(<<"..", y>>)>>]}

Symmetry == Permutations(Proc)
=============================================================================
