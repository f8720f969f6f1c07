-------------------------------- MODULE MCAuth --------------------------------
(* Small sets of authorization entries for the runs of Auth. *)
EXTENDS Auth

CONSTANTS A, B, K, x, fA, fB, fK, new

MCFnContract == [f \in Function |-> CASE f = fA -> A [] f = fB -> B [] f = fK -> K]

Leaf(f) == [fn |-> <<f>>, parent |-> <<0>>]
Chain(f, g) == [fn |-> <<f, g>>, parent |-> <<0, 1>>]

Creds(addr, nonce, tree) ==
    [addr |-> addr, source |-> FALSE, nonce |-> nonce, live |-> TRUE, tree |-> tree]

SourceCreds(tree) ==
    [addr |-> x, source |-> TRUE, nonce |-> 0, live |-> TRUE, tree |-> tree]

\* A tree with the same call twice, two entries that share a nonce, the source
\* account.
MCAccountEntries ==
    << Creds(x, 1, [fn |-> <<fA, fB, fK, fB>>, parent |-> <<0, 1, 2, 1>>]),
       Creds(x, 4, Chain(fB, fK)), Creds(x, 4, Leaf(fA)), SourceCreds(Leaf(fK)) >>

\* Contract creation, a nonce that is used up, and an expired signature.
MCCreateEntries ==
    << Creds(x, 1, Chain(fA, new)), Creds(x, 2, Leaf(new)), SourceCreds(Leaf(new)),
       [Creds(x, 3, Leaf(fA)) EXCEPT !.live = FALSE],
       Creds(A, 1, Leaf(new)) >>

MCUsedNonces == { <<x, 2>> }

\* A custom account, with entries for the calls of the account contract itself.
MCCustomEntries ==
    << Creds(K, 1, Chain(fA, fB)), Creds(K, 1, Leaf(fK)), Creds(K, 2, Leaf(fB)),
       Creds(x, 1, Leaf(fK)) >>

Tx(entries, trees) == [entries |-> entries, invoker_trees |-> trees]

MCEntries ==
    {Tx(MCAccountEntries, {}), Tx(MCCreateEntries, {}), Tx(MCCustomEntries, {})}

\* Authorizations that contracts give themselves.
MCInvokers == {Tx(<< >>, {Chain(fB, fK), Leaf(fK), Leaf(new)})}

\* Both: a custom account that authorizes calls of its own while it is asked.
MCMixed == {Tx(<< Creds(K, 1, Chain(fA, fB)), Creds(x, 1, Leaf(fB)) >>, {Leaf(fB)})}

MCTransactions == MCEntries \union MCInvokers \union MCMixed
=============================================================================
