----------------------------- MODULE MCDnsProxy -----------------------------
(* DnsProxy with two questions and one query that cannot be parsed.  Where  *)
(* answers do not come late, there is one transaction id: every client then *)
(* accepts whatever answer it gets.                                         *)
EXTENDS DnsProxy

=============================================================================
