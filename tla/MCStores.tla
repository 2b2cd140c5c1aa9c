------------------------------ MODULE MCStores ------------------------------
(***************************************************************************)
(* Small instances of the two stores, for model checking.  Pool: three     *)
(* credentials, one of them a renewed value, and reloads that grow,        *)
(* shrink, reorder and empty it.  Cache: one more key than it holds, two   *)
(* chats, so that every update, expiry and eviction order occurs.          *)
(***************************************************************************)
EXTENDS Stores

CONSTANTS a, b, c, d, k1, k2, k3, c1, c2

MCToken    == {a, b, c, d}
MCLists    == {<<>>, <<a>>, <<b, a, c>>, <<a, b, c>>}
MCRenewals == {<<a, d>>}
MCKey      == {k1, k2, k3}
MCChat     == {c1, c2}
=============================================================================
