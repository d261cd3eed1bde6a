------------------------- MODULE NetconfCommitLoop --------------------------
(***************************************************************************)
(* commit_candidate as the loops of the code.  NetconfDatastore describes  *)
(* what they compute without iterating; here the ports are visited one by  *)
(* one, each lookup seeing what the earlier iterations appended.           *)
(***************************************************************************)
EXTENDS NetconfDatastore, Folds

\* `for name in l`: step is given what the names before left, and the name.
ForEach(step(_, _), start, l) ==
    MapThenFoldSet(LAMBDA n, acc : step(acc, n), start, LAMBDA n : n,
                   LAMBDA S : LastOf(l, S), Names(l))

\* One iteration of the first loop: acc is running so far.
CopyOrAppend(acc, u) ==
    LET mine == config["candidate"].port[u]
        v    == vendor["candidate"][u]
        p    == FirstOf(acc.ports, Matches[u])
    IN IF HoldsOneOf(acc.ports, Matches[u])
       THEN [acc EXCEPT !.port[p] = mine, !.vendor[p] = v, !.alias[p] = u]
       ELSE [acc EXCEPT !.ports = AddName(@, u), !.port[u] = mine, !.vendor[u] = v,
                        !.alias[u] = NoValue]

\* One iteration of the last loop, over a copy of running's list.
RemoveUnlessKnown(acc, p) ==
    IF HoldsOneOf(config["candidate"].ports, Matches[p]) THEN acc
    ELSE [acc EXCEPT !.ports = RemoveName(@, p), !.port[p] = ResetPort,
                     !.vendor[p] = FreshVendor, !.alias[p] = NoValue]

CommitLoops ==
    LET start == [ports  |-> config["running"].ports, port  |-> config["running"].port,
                  vendor |-> vendor["running"],       alias |-> alias]
        copied == ForEach(CopyOrAppend, start, config["candidate"].ports)
    IN ForEach(RemoveUnlessKnown, copied, copied.ports)

\* The closed form of the commit is what the loops compute in every reachable
\* state, ports with clashing names and direct edits of running included:
\* which running port each candidate port lands on, who wins when two land on
\* one, whose dict is shared, and which ports go.
CommitLoopAgrees ==
    CommitLoops = [ports  |-> CommittedConfig.ports, port  |-> CommittedPort,
                   vendor |-> CommittedVendor,       alias |-> CommittedAlias]
=============================================================================
