------------------------------- MODULE Stores -------------------------------
(***************************************************************************)
(* The two stores the request handlers share: the pool of credentials and  *)
(* the cache of chats.  Neither knows the other; a behaviour lets one of   *)
(* them be called, and the run explores them side by side instead of their *)
(* product.                                                                *)
(***************************************************************************)
EXTENDS TokenPool, PromptCache

VARIABLE focus         \* the store that is called

vars == <<focus, poolVars, cacheVars>>

\* The cache is looked at beside a pool that starts empty, not beside each list.
Init == /\ focus \in {"pool", "cache"}
        /\ PoolInit /\ (focus = "pool" \/ Size = 0)
        /\ CacheInit

Next == /\ \/ focus = "pool" /\ PoolNext /\ UNCHANGED cacheVars
           \/ focus = "cache" /\ CacheNext /\ UNCHANGED poolVars
        /\ UNCHANGED focus

Spec == Init /\ [][Next]_vars
=============================================================================
