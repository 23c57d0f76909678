------------------------------ MODULE MCInode ------------------------------
(***************************************************************************)
(* Small instances of Inode for TLC.                                       *)
(***************************************************************************)
EXTENDS Inode, TLC

Call1(op, path) == [op |-> op, path |-> path, new |-> <<>>]

\* A name in the current directory and one in a directory below the root.
x == <<"x">>
xy == <<"/", "x", "y">>

MCCalls ==
    {Call1(op, path) : op \in {"create", "mkdir", "unlink"}, path \in {x, xy}}
        \cup {Call1("open", xy), Call1("chdir", x)}
        \cup {[op |-> "link", path |-> x, new |-> xy], [op |-> "link", path |-> xy, new |-> x]}

Sym == Permutations(Proc)
=============================================================================
