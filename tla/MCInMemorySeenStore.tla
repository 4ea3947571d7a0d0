------------------------- MODULE MCInMemorySeenStore -------------------------
(* Four ids compete for three places while the clock runs for three         *)
(* lifetimes of a claim, so that claims expire together and apart, are       *)
(* re-claimed after expiry, and are crowded out while alive.                 *)
EXTENDS InMemorySeenStore

MCTtl == 2
MCMaxTime == 3 * MCTtl
=============================================================================
