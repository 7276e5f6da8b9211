----------------------------- MODULE MCDnsCache -----------------------------
(* The two parts of the DNS proxy that have a model of their own: the cache *)
(* (DnsCache), with two slots for three questions, so that it fills up,     *)
(* evicts and lets answers expire, and the code that reads and writes       *)
(* messages (DnsWire).  They share no state, so that a behaviour is one of  *)
(* the first or one of the second.                                          *)
(*                                                                          *)
(* Queries have up to eleven bytes behind their header, which is where a    *)
(* name of two labels becomes too long for the buffer of four bytes and an  *)
(* answer to it for the one of 37.                                          *)
EXTENDS DnsCache, DnsWire, TLC

VARIABLE parses  \* is this about messages?

MCHeads ==
    {<<7, 9, 1, 0, 0, n, 0, 0, 0, 0, 0, 1>> : n \in 0 .. 2}
      \union {<<7, 9, 1, 0, 0, 1, 0, 0, 0, 0, 0>>}

MCPieces ==
    {<<1, 97>>, <<2, 97, 46>>, <<1, 200>>, <<3, 98, 98, 98>>, <<64, 97>>, <<192, 12>>,
     <<0, 0>>, <<0, 0, 1, 0, 1>>, <<0, 0, 28, 0, 1>>}

MCAddress == <<192, 168, 4, 1>>

MCInit == parses \in BOOLEAN /\ Init /\ IF parses THEN WireInit ELSE query = <<>>

MCNext ==
    /\ UNCHANGED parses
    /\ \/ parses /\ WireNext /\ UNCHANGED vars
       \/ ~parses /\ Next /\ UNCHANGED query

MCSpec == MCInit /\ [][MCNext]_<<parses, vars, query>>

\* A question or an answer is compared with nothing but its own kind.
Symm == Permutations(Key) \union Permutations(Resp)

=============================================================================
