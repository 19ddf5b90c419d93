----------------------------- MODULE MCRpcCall -----------------------------
\* Calls with one plugin that knows one user, and one that lets anybody in.
EXTENDS RpcCall, TLC

SmallPlugins == {[users |-> {"alice"}, anonymous |-> FALSE],
                 [users |-> {""}, anonymous |-> TRUE]}

Symmetry == Permutations(Requests) \cup Permutations(Interceptors)
=============================================================================
