------------------------- MODULE MCSharePointWatcher -------------------------
(* SharePointWatcher on small instances.                                    *)
EXTENDS SharePointWatcher, TLC

Symmetric == Permutations(Pod) \union Permutations(Item) \union Permutations(Pipe)

Scope(pods, items, revs, n, attach, detach, reset) ==
    [pods |-> pods, items |-> items, revs |-> revs, active |-> n, attach |-> attach, detach |-> detach, reset |-> reset]

\* Two pods at once; two items over several pages, a pipeline attached and one paused; a
\* pipeline paused, one resumed and one reset.
MCScopes == {Scope(2, 1, 6, 1, 0, 0, 0), Scope(1, 2, 8, 1, 1, 0, 0), Scope(1, 1, 8, 2, 1, 1, 1)}

=============================================================================
