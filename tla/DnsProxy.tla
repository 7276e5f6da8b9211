------------------------------ MODULE DnsProxy ------------------------------
(***************************************************************************)
(* dns_proxy.c: the task that serves the DNS queries of the clients of the *)
(* access point one at a time, from its cache or by asking the upstream    *)
(* server, together with the calls that start, stop and configure it and   *)
(* with the UDP network on both sides.                                     *)
(*                                                                         *)
(* The cache is module DnsCache; its calls are conjoined to the steps of   *)
(* the task that make them.  `Pending' says when the task has a question   *)
(* that missed in hand, and CacheUsedAsAssumed checks that the task makes  *)
(* the calls in the order DnsCache was written for.                        *)
(*                                                                         *)
(* Abstracted: a response is identified with the question it answers, and  *)
(* no datagram is empty; every question is for an address (type A);        *)
(* logging is module DnsLog; the statistics are left out.  Sockets and the *)
(* upstream server are external.                                           *)
(***************************************************************************)
EXTENDS Integers, Sequences

CONSTANTS
    Key,         \* the questions
    Unparsed,    \* those that parse_dns_query does not understand
    TxId,        \* DNS transaction identifiers
    MaxQueries,  \* bound on the queries clients send
    Box,         \* datagrams a socket holds
    CacheSize, TTL, MaxTime, Never,
    NoKey, NoEntry, NoAnswer,
    Portal,      \* the answer that points to the device itself
    InProvisioning,  \* did app_main find the device unprovisioned?
    Faults       \* what may happen, see FaultKinds

FaultKinds ==
    {"late",    \* an answer may come after the task has given up
     "loss",    \* datagrams to the upstream server, or from it, get lost
     "dup",     \* an answer comes more than once
     "send",    \* sendto to the upstream server fails
     "socket",  \* a socket cannot be opened or bound
     "stop",    \* dns_proxy_stop is called: no one does so far
     "switch"}  \* as are, as they never are, the calls that turn captive
                \* mode on or off at any time and clear the upstream server

ASSUME ProxyAssumption ==
    /\ Unparsed \subseteq Key
    /\ MaxQueries \in Nat /\ Box \in Nat \ {0}
    /\ CacheSize \in Nat \ {0} /\ TTL \in Nat /\ MaxTime \in Nat
    /\ Never \in Nat /\ MaxTime + TTL < Never
    /\ NoKey \notin Key /\ Portal \notin Key
    /\ NoAnswer \notin [key : Key, resp : Key]
    /\ NoEntry \notin [resp : Key, expiry : Nat]
    /\ InProvisioning \in BOOLEAN
    /\ Faults \subseteq FaultKinds

VARIABLES
    pc,           \* "none": no task; else where dns_proxy_task is
    running,      \* s_dns_running
    captive,      \* s_captive_mode
    hasUpstream,  \* s_has_upstream
    cur,          \* number of the query being served
    slot, now, served,  \* the cache, see DnsCache
    listen,       \* numbers of the queries waiting at port 53
    asked,        \* queries on their way to, or at, the upstream server
    upBox,        \* responses waiting at the upstream socket
    sent,         \* history: what the clients asked, in order
    got,          \* history: the replies to each of them
    dropped       \* history: queries thrown away unserved

taskVars == <<pc, running, captive, hasUpstream, cur>>
cacheVars == <<slot, now, served>>
netVars == <<listen, asked, upBox>>
clientVars == <<sent, got, dropped>>
vars == <<pc, running, captive, hasUpstream, cur, slot, now, served,
          listen, asked, upBox, sent, got, dropped>>

Message == [txid : TxId, key : Key]
Reply == [txid : TxId, key : Key \union {Portal}]

Parsed(i) == sent[i].key \notin Unparsed

\* The question that missed in the cache and is being asked upstream.
Pending ==
    IF pc \in {"forward", "await"} /\ Parsed(cur) THEN sent[cur].key ELSE NoKey

Cache == INSTANCE DnsCache WITH Resp <- Key, pending <- Pending

Open == pc \notin {"none", "setup"}
Serving == pc \in {"query", "forward", "await"}

TypeOK ==
    /\ pc \in {"none", "setup", "top", "recv", "query", "forward", "await"}
    /\ running \in BOOLEAN
    /\ captive \in BOOLEAN /\ hasUpstream \in BOOLEAN
    /\ cur \in Nat /\ cur <= Len(sent)
    /\ listen \in Seq(1 .. Len(sent)) /\ Len(listen) <= Box
    /\ upBox \in Seq(Message) /\ Len(upBox) <= Box
    /\ asked \subseteq 1 .. Len(sent)
    /\ sent \in Seq(Message) /\ Len(sent) <= MaxQueries
    /\ got \in Seq(Seq(Reply)) /\ Len(got) = Len(sent)
    /\ dropped \subseteq 1 .. Len(sent)

Init ==
    /\ pc = "none" /\ running = FALSE
    /\ captive = InProvisioning
    /\ hasUpstream = FALSE
    /\ cur = 0
    /\ Cache!Init
    /\ listen = <<>> /\ asked = {} /\ upBox = <<>>
    /\ sent = <<>> /\ got = <<>> /\ dropped = {}

-----------------------------------------------------------------------------
\* The calls of the other tasks.

\* dns_proxy_start, from the GOT_IP handler or, in provisioning, from
\* app_main, which has turned captive mode on just before.  When there is no
\* memory for the task it says so and nothing changes.
Start ==
    /\ IF pc = "none" THEN pc' = "setup" /\ running' = TRUE
                      ELSE UNCHANGED <<pc, running>>
    /\ UNCHANGED <<captive, hasUpstream, cur, cacheVars, netVars, clientVars>>

\* dns_proxy_stop
StopProxy ==
    /\ "stop" \in Faults
    /\ running' = IF pc = "none" THEN running ELSE FALSE
    /\ UNCHANGED <<pc, captive, hasUpstream, cur, cacheVars, netVars, clientVars>>

\* dns_proxy_set_upstream, from the GOT_IP handler, which never runs while
\* the device is unprovisioned.
SetUpstream ==
    /\ ~InProvisioning
    /\ hasUpstream' = TRUE
    /\ UNCHANGED <<pc, running, captive, cur, cacheVars, netVars, clientVars>>

\* dns_proxy_set_upstream(NULL)
ClearUpstream ==
    /\ "switch" \in Faults
    /\ hasUpstream' = FALSE
    /\ UNCHANGED <<pc, running, captive, cur, cacheVars, netVars, clientVars>>

\* dns_proxy_set_captive_mode
SetCaptiveMode(enable) ==
    /\ "switch" \in Faults
    /\ captive' = enable
    /\ UNCHANGED <<pc, running, hasUpstream, cur, cacheVars, netVars, clientVars>>

-----------------------------------------------------------------------------
\* The network.

\* A client sends a query.  It is lost when the socket's box is full.
ClientSends(k, t) ==
    /\ Open
    /\ Len(sent) < MaxQueries
    /\ sent' = Append(sent, [key |-> k, txid |-> t])
    /\ got' = Append(got, <<>>)
    /\ listen' = IF Len(listen) < Box THEN Append(listen, Len(sent) + 1) ELSE listen
    /\ UNCHANGED <<taskVars, cacheVars, asked, upBox, dropped>>

\* The upstream server answers query i, with its transaction id.
UpstreamAnswers(i) ==
    /\ i \in asked
    /\ upBox' = IF Len(upBox) < Box THEN Append(upBox, sent[i]) ELSE upBox
    /\ asked' \in {asked \ {i}} \union (IF "dup" \in Faults THEN {asked} ELSE {})
    /\ UNCHANGED <<taskVars, cacheVars, listen, clientVars>>

DatagramLost(i) ==
    /\ "loss" \in Faults
    /\ i \in asked
    /\ asked' = asked \ {i}
    /\ UNCHANGED <<taskVars, cacheVars, listen, upBox, clientVars>>

-----------------------------------------------------------------------------
\* dns_proxy_task.

At(where) == pc = where
Goto(where) == pc' = where /\ UNCHANGED <<running, captive, hasUpstream, cur>>

SendTo(i, m) == got' = [got EXCEPT ![i] = Append(@, m)] /\ UNCHANGED <<sent, dropped>>

\* The cache is emptied, the sockets are opened and bound.
SetupOk ==
    /\ At("setup")
    /\ Goto("top")
    /\ Cache!Empty
    /\ UNCHANGED <<netVars, clientVars>>

\* The label done: the sockets are closed and the task deletes itself.
Done ==
    /\ pc' = "none" /\ running' = FALSE
    /\ listen' = <<>> /\ upBox' = <<>> /\ asked' = {}
    /\ UNCHANGED <<captive, hasUpstream, cur, clientVars>>

SetupFails ==
    /\ At("setup") /\ "socket" \in Faults
    /\ Cache!Empty
    /\ Done

\* The head of the loop: `while (s_dns_running)'.
Continue ==
    /\ At("top") /\ running
    /\ Goto("recv")
    /\ UNCHANGED <<cacheVars, netVars, clientVars>>

Exit ==
    /\ At("top") /\ ~running
    /\ UNCHANGED cacheVars
    /\ Done

\* Mutant: the datagram stays in the socket.
ReceivePeeks ==
    /\ At("recv") /\ listen # <<>> /\ hasUpstream
    /\ pc' = "query" /\ cur' = Head(listen)
    /\ UNCHANGED <<running, captive, hasUpstream, cacheVars, netVars, clientVars>>

\* recvfrom on port 53, and the test for an upstream server.  Having got this
\* far, the task serves one more query even after dns_proxy_stop.
Receive ==
    /\ At("recv") /\ listen # <<>>
    /\ listen' = Tail(listen)
    /\ IF hasUpstream
         THEN /\ pc' = "query" /\ cur' = Head(listen)
              /\ UNCHANGED dropped
         ELSE /\ pc' = "top" /\ UNCHANGED cur
              /\ dropped' = dropped \union {Head(listen)}
    /\ UNCHANGED <<running, captive, hasUpstream, cacheVars, asked, upBox, sent, got>>

\* No query came within the second that SO_RCVTIMEO allows.
ReceiveTimeout ==
    /\ At("recv") /\ listen = <<>>
    /\ Goto("top")
    /\ UNCHANGED <<cacheVars, netVars, clientVars>>

\* Captive mode: the answer is the device's own address, or nothing when
\* build_captive_response finds no room for one.
AnswerCaptive ==
    /\ At("query") /\ captive /\ Parsed(cur)
    /\ Goto("top")
    /\ \/ SendTo(cur, [txid |-> sent[cur].txid, key |-> Portal])
       \/ UNCHANGED clientVars
    /\ UNCHANGED <<cacheVars, netVars>>

\* Mutant: the `continue' after a cache hit is missing.
AnswerFromCacheFallsThrough ==
    /\ At("query") /\ ~captive /\ Parsed(cur)
    /\ Goto("forward")
    /\ Cache!FindsHit(sent[cur].key)
    /\ SendTo(cur, [txid |-> sent[cur].txid, key |-> served'.resp])
    /\ UNCHANGED netVars

\* Mutant: the lookup's -1 is taken for a hit, and what is sent is whatever
\* the buffer holds.
AnswerFromCacheTakesMiss ==
    /\ At("query") /\ ~captive /\ Parsed(cur)
    /\ Goto("top")
    /\ Cache!FindsNone(sent[cur].key)
    /\ \E garbage \in Key :
          SendTo(cur, [txid |-> sent[cur].txid, key |-> garbage])
    /\ UNCHANGED netVars

\* A cached answer is sent with the transaction id of the query.
AnswerFromCache ==
    /\ At("query") /\ ~captive /\ Parsed(cur)
    /\ Goto("top")
    /\ Cache!FindsHit(sent[cur].key)
    /\ SendTo(cur, [txid |-> sent[cur].txid, key |-> served'.resp])
    /\ UNCHANGED netVars

CacheMiss ==
    /\ At("query") /\ ~captive /\ Parsed(cur)
    /\ Goto("forward")
    /\ UNCHANGED <<netVars, clientVars>>
    /\ Cache!FindsExpired(sent[cur].key) \/ Cache!FindsNone(sent[cur].key)

\* A query that cannot be parsed passes by captive mode and cache alike.
PassUnparsed ==
    /\ At("query") /\ ~Parsed(cur)
    /\ Goto("forward")
    /\ UNCHANGED <<cacheVars, netVars, clientVars>>

Forward ==
    /\ At("forward")
    /\ Goto("await")
    /\ asked' = asked \union {cur}
    /\ UNCHANGED <<cacheVars, listen, upBox, clientVars>>

\* Mutant: the upstream socket has no receive timeout.
GiveUpNever ==
    /\ At("forward") /\ "send" \in Faults
    /\ Goto("top")
    /\ UNCHANGED <<cacheVars, netVars, clientVars>>

\* Sending fails, or no datagram arrives within the second that SO_RCVTIMEO
\* allows.  Unless answers can be late, one that is not lost arrives in time.
GiveUp ==
    /\ \/ At("forward") /\ "send" \in Faults
       \/ At("await") /\ upBox = <<>> /\ ("late" \in Faults \/ cur \notin asked)
    /\ Goto("top")
    /\ UNCHANGED <<cacheVars, netVars, clientVars>>

\* Mutant: the answer to a query that was not parsed is stored too, under
\* whatever name the buffer holds.
TakeResponseStoresAll ==
    /\ At("await") /\ upBox # <<>>
    /\ Goto("top")
    /\ upBox' = Tail(upBox)
    /\ SendTo(cur, Head(upBox))
    /\ UNCHANGED <<listen, asked>>
    /\ Cache!Write(sent[cur].key, Head(upBox).key)

\* Whatever is first in the box is taken for the answer: stored under the
\* question of the current query, and passed on to its client.
TakeResponse ==
    /\ At("await") /\ upBox # <<>>
    /\ Goto("top")
    /\ upBox' = Tail(upBox)
    /\ SendTo(cur, Head(upBox))
    /\ UNCHANGED <<listen, asked>>
    /\ IF Parsed(cur) THEN Cache!Write(sent[cur].key, Head(upBox).key)
                    ELSE UNCHANGED cacheVars

\* Time passes; it matters to the cache only.
Tick ==
    /\ UNCHANGED <<taskVars, netVars, clientVars>>
    /\ Cache!Tick

-----------------------------------------------------------------------------

Task ==
    \/ SetupOk \/ Continue \/ Exit \/ Receive \/ ReceiveTimeout \/ AnswerCaptive
    \/ AnswerFromCache \/ CacheMiss \/ PassUnparsed \/ Forward \/ GiveUp \/ TakeResponse

Next ==
    \/ Start \/ StopProxy \/ SetUpstream \/ ClearUpstream
    \/ \E enable \in BOOLEAN : SetCaptiveMode(enable)
    \/ \E k \in Key, t \in TxId : ClientSends(k, t)
    \/ \E i \in asked : UpstreamAnswers(i) \/ DatagramLost(i)
    \/ Task \/ SetupFails \/ Tick

Spec == Init /\ [][Next]_vars

\* The task is scheduled again and again, and its receive timeout expires: that
\* is why a datagram to the upstream server is answered or lost in the end,
\* unless answers may be late, in which case GiveUp does not wait for that.
\* Nothing is assumed of the clients, or that answers come.
FairSpec ==
    Spec /\ WF_vars(Task)
         /\ WF_vars(\E i \in asked : UpstreamAnswers(i) \/ DatagramLost(i))

-----------------------------------------------------------------------------

(* A query is answered at most once: every branch of the loop that replies  *)
(* goes on to the next query.                                               *)
OneReplyEach == \A i \in DOMAIN got : Len(got[i]) <= 1

\* The inductive invariant: queries wait in the order in which they were sent,
\* those being served or waiting have no reply yet, and those being served
\* have left the queue.
ProxyInv ==
    /\ TypeOK
    /\ OneReplyEach
    /\ \A i \in DOMAIN listen : got[listen[i]] = <<>>
    /\ \A i, j \in DOMAIN listen : i < j => listen[i] < listen[j]
    /\ Serving => /\ cur # 0
                  /\ got[cur] = <<>>
                  /\ \A i \in DOMAIN listen : cur < listen[i]

(* What a client is told was asked by some client, or is the portal's       *)
(* address; the proxy makes up no answer, and none survives that has been   *)
(* overwritten in a reused slot.                                            *)
OnlyAskedAnswers ==
    \A i \in DOMAIN got : \A j \in DOMAIN got[i] :
        \/ got[i][j].key = Portal
        \/ \E q \in DOMAIN sent : q <= i /\ sent[q].key = got[i][j].key

(* A client that checks the transaction id, as every resolver does, is not  *)
(* told the answer to another question.                                     *)
AcceptedAnswersMatch ==
    \A i \in DOMAIN got : \A j \in DOMAIN got[i] :
        got[i][j].txid = sent[i].txid => got[i][j].key \in {sent[i].key, Portal}

(* In captive mode "every A-record query resolves to the device's own IP"   *)
(* (dns_proxy.h): none is thrown away.                                      *)
CaptiveAnswersAll == captive => \A i \in dropped : ~Parsed(i)

(* The task uses the cache as DnsCache assumes: a store follows a miss of   *)
(* the same question, with no other lookup in between.                      *)
CacheUsedAsAssumed == Cache!Spec

(* No query waits at port 53 for ever: neither a silent upstream server nor *)
(* a lost datagram blocks the task.                                         *)
QueriesAreTaken ==
    \A i \in 1 .. MaxQueries :
        (\E j \in DOMAIN listen : listen[j] = i)
            ~> ~(\E j \in DOMAIN listen : listen[j] = i)

=============================================================================
