------------------------------ MODULE MCAssembler ------------------------------
(***************************************************************************)
(* Values for TLC: an open of one file and an exec through the loader, of  *)
(* two audit keys, and a line that belongs to no event.                    *)
(***************************************************************************)
EXTENDS Assembler

CONSTANTS A, B

Fan(k, rule, resp) == [type |-> "FANOTIFY", key |-> k, rule |-> rule, resp |-> resp, trust |-> 1]
Sys(k, exec, items, pid) ==
    [type |-> "SYSCALL", key |-> k, exec |-> exec, items |-> items, exe |-> "exe", pid |-> pid]
Path(k, item, name) == [type |-> "PATH", key |-> k, item |-> item, name |-> name]
Skip == [type |-> "OTHER", key |-> None]
Cwd(k) == [type |-> "OTHER", key |-> k]

TwoKeys == {A, B}
\* Two decisions of A, one of them without a rule number; A's exec names two
\* files and its open one; B is a bare decision with a call of its own.
TwoEvents ==
    {Fan(A, 1, 2), Fan(A, 0, 1), Sys(A, TRUE, 2, "p"), Path(A, 0, "bin"), Path(A, 1, "ld"),
     Fan(B, 2, 1), Sys(B, FALSE, 1, "q"), Path(B, 0, "lib"), Cwd(B), Skip}

\* A's calls, items and paths are all of those the code tells apart, with the
\* bare decision and the file of B among them.
AnyObject ==
    {Fan(A, 1, 1), Fan(A, 0, 2), Sys(A, TRUE, 2, "p"), Sys(A, TRUE, 1, "p"), Sys(A, FALSE, 1, "p"),
     Path(A, 0, "bin"), Path(A, 0, None), Path(A, 1, "ld"),
     Fan(B, 2, 1), Sys(B, FALSE, 1, "q"), Path(B, 0, "lib")}

\* --follow closes an event after one line in between, batch never does.
FollowAndBatch == 1 :> TwoEvents @@ Never :> AnyObject
TwoRules == <<"allow", "deny_audit">>
================================================================================
