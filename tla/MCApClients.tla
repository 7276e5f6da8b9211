---------------------------- MODULE MCApClients ----------------------------
(* Three clients of which two fit in, so that one can leave a stale entry    *)
(* that is in the way of the others.  It takes a queue of three events for a *)
(* stale one to be in the way of a client when all is well again; how a      *)
(* lookup meets the handlers is seen with two, which keeps the run short.    *)
EXTENDS ApClients, TLC

Symm == Permutations(Mac) \union Permutations(Ip)

LookupsWithShortQueues == who = NoMac \/ Len(queue) <= 2

=============================================================================
