# TLA+ models of the ESP32-C5 Wi-Fi repeater

Specifications of the firmware under `src/main/` and of the JSON library it is
built with (`src/managed_components/espressif__cjson/cJSON/`), the TLC
configurations that check them on small instances, and TLAPS proofs of what
matters most. Line numbers below are those of the file that is named.

## The system

The firmware joins an upstream router as a station (STA), offers an access
point (AP), translates addresses between the two, answers the DNS queries of
its clients through a caching proxy, and serves a dashboard over HTTP. An
unprovisioned device offers only the AP and a captive portal. Everything runs on
one core under a preemptive FreeRTOS kernel; the tasks below interleave at any
instruction.

| task | priority | runs |
|---|---|---|
| timer task | 22 | `restart_timer_cb` (web_server.c) |
| event loop | 20 | `wifi_event_handler` (main.c), the handlers of ap_clients.c |
| TCP/IP | 18 | lwIP, the DHCP client and server |
| web server | 5 | the handlers of web_server.c, one request at a time |
| DNS proxy | 5 | `dns_proxy_task` |
| boot button | 5 | `start_button_task` (main.c) |
| bandwidth monitor | 5 | `bandwidth_task` (main.c), logging only |
| system monitor | 3 | `sys_monitor_task` |
| main | 1 | `app_main` |

### Inventory

| component | state | operations | what makes it hard | what makes it correct |
|---|---|---|---|---|
| DNS answer cache (dns_proxy.c 242-323) | 20 slots: question, answer, deadline, valid | init, lookup, store | which slot is reused, exactly when an answer is stale, stores that do not look for duplicates | a map of questions to answers no older than the TTL; evicts the oldest |
| DNS proxy task (dns_proxy.c) | running flag, upstream server, captive mode, two sockets, the query in hand | start, stop, set_upstream, set_captive_mode, the loop | late, lost and doubled answers, timeouts, failing sends, start and stop against a task that has not ended | one reply to each query, the right one, and no query blocked by another |
| DNS messages (dns_proxy.c 148-223, 333-384) | none | parse a query, build captive and empty answers | two loops that walk the same labels, one with tests and one without; names that become the same text | the name tells which question it was; answers read back |
| DNS query log (dns_log.c) | ring of 32 entries, head, count | add, get_latest | two tasks, wrap-around, a time stamp taken outside the lock | the most recent queries, newest first |
| configuration store (wifi_config_manager.c) | keys in NVS flash | load, save, validate, erase, flag | power failures and restarts between two writes, failing writes | what was reported saved is there and is used |
| provisioning (web_server.c, main.c) | the request in hand, restart timers, mode | POST config and reset, restart, shutdown, button, boot | three tasks that change or restart at any time, ignored results | a reset is final, a saved configuration takes effect |
| SSID history (wifi_config_manager.c 486-572) | counter and entries in NVS | add, load | rewritten key by key | the SSIDs used last, each once |
| uplink events (main.c 61-271) | event queue, what has been set for the present link | five events | the GOT_IP branch sleeps while the link changes; reconnecting depends on every event being answered | never stranded; clients are told what works; the last link wins |
| AP client table (ap_clients.c) | slots of MAC and address | two events, a snapshot | no lock between the event task and the web server, slots exhausted, events before registration | address and client belong together |
| system monitor (sys_monitor.c) | figures, counters of the last sample | sample, record, snapshot | 32-bit products, sums and counters that wrap | percentages, throughputs and averages are what they are called |
| JSON trees (cJSON.c) | items linked as members of others | create, add, insert, detach, replace, copy, delete | the last item is found through the first; any allocation can fail | a forest; nothing leaks |
| JSON text (cJSON.c) | buffers | parse, print, minify | two passes that must count alike, lengths that add up | what was printed is read again; nothing is written behind a buffer |
| JSON patches (cJSON_Utils.c) | none | find, apply, generate, merge, sort | sorting reorders the documents it compares | RFC 6902 and RFC 7396 |
| web pages, scan, statistics, authentication | none of its own | GET handlers | formatting | - |

They interact through calls (event handler to `dns_proxy_set_upstream` and
`dns_proxy_start`, proxy task to `dns_log_add` and `sys_monitor_record_*`, web
server to all), through the flash (configuration, flag, history), and through
restarts, which wipe everything else.

## Modules

| module | models | abstract module it implements |
|---|---|---|
| `DnsCache` | the cache | `AnswerMemo`: a partial map with deadlines |
| `DnsProxy` | the proxy task, its callers, sockets, clients, upstream server; instantiates `DnsCache` | - |
| `DnsLog` | the query log | `RecentQueries`: a bounded list, newest first |
| `Provisioning` | configuration store, provisioning flag, web handlers that change them, restarts, boot, button | - |
| `SsidHistory` | the history key by key | `RecentSsids`: the SSIDs in the order of their last use |
| `Uplink` | `wifi_event_handler`, with driver, DHCP client and router | - |
| `ApClients` | the AP client table, with clients, driver and DHCP server | `AddressBook`: a bounded map of addresses |
| `DnsWire` | the bytes of DNS messages: clients that compose queries, and what is read and sent, as operators | - |
| `SysMonitor` | the statistics | - |
| `JsonItems` | the links between items on a heap | `JsonForest`: trees without links |
| `JsonValue`, `JsonText`, `JsonPatch` | documents, their text and their patches, as operators | - |
| `JsonDocs` | a program that reads, edits, sorts and compares a document | - |

`MC...` modules give the constants values; `...Proofs` modules hold the proofs.
Where an MC module has two components that share no state (`MCDnsCache`: cache
and messages; `MCDnsLog`: log, samples and benchmarks; `MCStorage`:
configuration and history; `MCJson`: documents and trees), a variable that never
changes says which of them a behaviour is about.
Operators under a comment that begins with "Mutant:" are not part of a model:
each is a plausible bug that some property is known to catch.

**DnsCache.** `slot` is `s_dns_cache`. The raw calls `FindsHit`, `FindsExpired`,
`FindsNone`, `Write`, `Empty` are the C functions; `LookupHit`, `Store`,
`Abandon` ... are the calls in the order in which the proxy makes them, with the
question that missed in `pending`. `dns_cache_store` does not look for a slot
that has the question already; that there is never one follows from this order,
and `DnsProxy` checks that the task keeps to it (`CacheUsedAsAssumed`). `Turn` is the
body of the loop in which a store looks for a slot to reuse, `Search` the loop.

**DnsProxy.** `pc` is the place in `dns_proxy_task`: `setup`, `top` (the test of
`s_dns_running` at the head of the loop), `recv` (`recvfrom` on port 53, which ends
after a second without a query), `query` (parsed, not yet decided), `forward`,
`await` (`recvfrom` on the upstream socket). Global flags are read where the code
reads them, so a stop or a switch between two reads is seen: in particular a task
that waits for a query when it is stopped serves one more. `AnswerCaptive` may send
nothing, as when `build_captive_response` finds no room. A response is identified
with the question it answers.

**DnsLog.** `BeginAdd` takes the time stamp, `FinishAdd` is the critical
section, `GetLatest` the reader's critical section.

**Provisioning.** One action per flash write: `SaveKey` for each key in the order
of `wifi_config_save`, then commit, history, flag, reply. `Restart` wipes all
but the flash. `PartialErase` leaves any subset of the keys: what an erase leaves
that failed or was cut off.

**SsidHistory.** `count` and `entry` are the NVS keys, `history` the local list
of `wifi_config_add_ssid_to_history`. An entry whose key is missing reads as the
empty string, as in `wifi_config_load_ssid_history`.

**Uplink.** `queue` is the event queue as far as this handler acts on it. The
GOT_IP branch is four steps, split at its sleeps; during them `queue` grows and
the driver moves. A lease is granted and taken in two steps, because the client
may take it when the link is gone already. A network stands for its channel and
its resolver. `proxy` is the task that `dns_proxy_start` creates: it says ESP_OK
while the task is still `starting`, and `ProxySetup` then opens the sockets or ends
the task, of which the handler is not told. That the DHCP server could not be
started is only logged, and so `StartDhcps` may leave it stopped.

**ApClients.** `slot` is `s_client_ips`. The handlers are one step each: the
event loop has a higher priority than the tasks that look clients up and its
handlers do not wait. A lookup is one step per slot tested and one for the copy
(`pc`, `j`). `Missed` is an event for which `ap_clients_init` has not yet
registered the handler, `GivesLeaseLate` the DHCP server's answer to a client
that has left. `amiss` remembers of whom such an event was, until the next;
`calm` whether, since the queue was last empty, there was anybody in it. A client
that finds no slot free goes without one rightly only while nothing has been
amiss for that long: the event that is out of date may still be waiting when the
client it is about has been heard of again. `AddressBook` hears the same events, and
each determines what becomes of its map: a client is entered whenever it is listed or
there is room, and goes only when it has left. `quiet` remembers whether an event of
the client that is looked up was handled meanwhile; events of others are no excuse
for a lookup that is wrong.

**DnsWire.** A message is a sequence of bytes. `ParseLabel` is the body of the
parser's loop over the labels and `Parsing` the loop, a recursive function of the
number of rounds; `Walking` is the loop of `question_end`. `Labels`, `Question` and
`Answer` read a message as RFC 1035 has it, compression included, and are what
the properties compare with. Clients compose queries of pieces, whole or not.

**SysMonitor.** One step per call, since each field is written by one task only.
`Update` is a sample: what the kernel, the heap and lwIP counted since the last
one is chosen freely. The ways of a query through `dns_proxy_task` are the
actions `Hit`, `Miss`, `MissInVain`, `Uncached`. `told`, `spent` and `uncached`
are sums kept for the properties.

**JsonItems.** `heap` has the fields `next`, `prev` and `child` of each item, and
`owned` are the trees the program has to free. Every call that allocates chooses
which of its allocations fails first, if any. Items with a reference flag, raw
items, hooks and the setters of values in place are left out.

**JsonValue, JsonText, JsonPatch.** A document is a value: kind, items with
names, and for objects and arrays to which of its items the `prev` pointer of
the first leads (`Back`), because sorting leaves that pointer wrong and what is
added next shows it. `sort_list`, `compare_json`, `apply_patch` and the others
return the documents they leave behind. Text is a sequence of bytes; buffers are
modelled by their sizes. Numbers are small integers; `strtod` and `sprintf` are
external. The reference operators (`Ref...`, `Meaning`) are written from the
RFCs.

**JsonDocs.** The program that uses them: it reads a document from a text,
applies patches and merge patches, sorts and compares. `sorts` remembers that
the last step was one that sorts.

## Runs

Passing runs:

| run | bounds | shows |
|---|---|---|
| `dns_cache` | 3 questions, 2 slots, 2 answers, TTL 2, clock to 7; queries of up to 23 bytes of 9 pieces, names of up to 3 characters, a buffer of 37 bytes | `CacheInv` (with `UniqueKeys`), the refinement `ImplementsMemo`, and `EvictsOnlyOldest`: an answer still fresh goes only when there are as many as slots, and then the oldest. One question more than slots forces evictions; the clock passes each deadline. `NamesTellQuestions` and `AnswersReadBack`: the queries include names of two labels, cut names, labels with a dot or an unprintable byte, pointers, two questions, and answers that do not fit. |
| `dns_log` | 3 slots, 2 kinds of query, requests of up to 4, clock to 3; words of 1000, packet counters of 4, 3 tasks, times to 18 | `LogInv`, `NewestFirst`, `ImplementsRecent`; additions are not bounded, the ring wraps again and again. `SamplesAreTrue` and `BenchmarksAgree`: every counter wraps, more tasks than fit, more free heap than was thought to exist, a sum of latencies beyond a word. |
| `dns_proxy` | 3 queries, 3 questions (one unparsable), 1 transaction id, 1 cache slot, TTL 0, clock to 1, sockets of 2 | `ProxyInv`, `OneReplyEach`, `OnlyAskedAnswers`, `AcceptedAnswersMatch`, `CacheUsedAsAssumed` with lost datagrams, failing sends and sockets, stops and switches. Answers that come in time or never are what `AcceptedAnswersMatch` needs: `late_answer` shows it false otherwise. `QueriesAreTaken` under fairness. |
| `provisioning` | 3 of the 5 keys, 2 timers, all faults; 4 SSIDs, 3 entries | `SaveInv`, `SavedIsStored`, `WebResetIsFinal`, `SavedIsApplied`, and `SavedTakesEffect` under fairness. The code answers "Saved. Restarting..." also when it could not set the flag or create the timer; the last two properties hold in all other cases. `AddedIsFirst`: a later addition repairs what an interrupted one left, for its own SSID. `ImplementsRecent`: until something cuts in on an addition or an erase the keys are the list of the SSIDs used last. |
| `ap_clients` | 3 clients, 2 addresses, 2 slots, queue of 3, lookups while it holds up to 2 | `TableInv`, `KnowsItsClients`, `LookupIsRight`, `ImplementsBook`. One client more than slots, so that one that has left can be in the way of the others; three events, so that one that is out of date can be handled when the client it displaces is of no concern any more. |
| `uplink` | 2 networks, 6 moves, failing calls | `UplinkInv`, `NeverStranded`, `OffersWhatWasStarted`, `FollowsLink`, and `UplinkRecovers` under fairness. `OffersWhatWasStarted` is about what the firmware knows: a repeater announces itself as resolver only with an upstream server and after the task was created. That the task got its sockets it does not say, nor anything of an unprovisioned device, which announces itself without ever having an upstream server (`captive_without_upstream`). |
| `json` | 4 items, calls of up to 5 allocations, 2 trees; documents of up to 4 values, 2 levels of nesting, 7 documents, 36 patches, 8 texts | `NothingLeaks` and the refinement `ImplementsForest` for the trees; `PatchesAsPromised`, `DifferencesLeadThere`, `ComparisonsAgree`, `OnlySortingUnlinks`, `ReadsWhatItPrinted`, `BuffersSuffice` for the documents. Four items are a list with a first, a middle and a last one in a tree that is not the only one. The patches have each operation on objects and arrays, in place and out of range, with names that need escapes and that differ in case only, empty tokens, and moves that fail half way; some texts go on after the document. |

Every bound is a named constant that appears in a guard (`MaxQueries`,
`MaxTime`, `MaxTimers`, `MaxMoves`, ...), so the liveness runs see complete
behaviours. The one state constraint is `LookupsWithShortQueues` of
`MCApClients`, a run of safety properties only: a lookup does not touch the
queue, and is checked against every way of filling two thirds of it. The sizes are the smallest at which the
cases happen that the properties are about: one question, query or SSID more
than fits, a key before and after the one at which power fails, a second
network to move to, and enough moves for an event of the first link to be
handled after the second is up.

Runs that find what the code does against what the repository says of it:

| run | property | what TLC finds |
|---|---|---|
| `cpu_usage` | `CpuUsageIsShare` | run time times 100 overflows 32 bits: after 43 seconds a task's share is computed from the rest (sys_monitor.c:132) |
| `late_answer` | `AcceptedAnswersMatch` | an answer that comes after its timeout is passed on to the client of the next query, which asked something else under the same transaction id, and cached under that query's name (dns_proxy.c:550) |
| `captive_without_upstream` | `CaptiveAnswersAll` | in captive mode every query is dropped, for there is no upstream server (dns_proxy.c:468) |
| `reset_race` | `ResetIsFinal` | the button's erase in the middle of a save: the flag is set again (web_server.c:703) |
| `torn_erase` | `RepeaterHasRealCredentials` | an erase cut off by a restart timer leaves the flag without the keys (wifi_config_manager.c:309) |

Three more weaknesses were met on the way and are stated as hazards, without a
run of their own: `dns_proxy_start` answers ESP_OK although its task may never
get its sockets (dns_proxy.c:609); "Saved. Restarting..." is sent although
setting the flag may have failed (web_server.c:703); and an addition to the SSID
history that is cut off can leave another SSID in it twice, which later
additions keep (wifi_config_manager.c:556).

What the JSON properties leave out is what the library gets wrong; each of these
follows from the definitions and is why a property has a condition:

- After a sort the `prev` pointer of an object's first item is stale: an item
  added then is linked behind one in the middle, whose followers are lost
  (`test` and then `add` in one patch can lose what was added, with status 0).
  `OnlySortingUnlinks` says that nothing else does this.
- `decode_pointer_inplace` (cJSON_Utils.c:359) writes the decoded character one
  place too far, so adding or removing under a name with `/`, or with `~` before
  other characters, misses it; a `~` at the end of a name is decoded rightly, and
  looking up is right under every name (`DifferencesLeadThere`).
- `decode_array_index_from_pointer` (274) takes the empty token for the index 0:
  removing `/` from `[1]` succeeds, where RFC 6901 has no such index.
- `detach_path` (470) ignores case even in the CaseSensitive functions.
- A patch operation that fails half way puts nothing back. `PatchesAsPromised` says
  what it leaves (`Remainder`): a `move` has lost what it could not put, a `replace`
  without a value what was there, and nothing else changes.
- `generate_merge_patch` generates the patch of a nested object without regard to
  case, also for the CaseSensitive functions (1455).
- `cJSON_Minify` takes the backslash before a closing quote for an escape also
  when it is itself escaped (cJSON.c:2900).
- Printing goes deeper than parsing does.

The firmware only creates, prints, parses and deletes, which none of these
concerns.

### Fairness

- `DnsProxy`: weak fairness of the task: it is runnable again and again, and its
  receives return after the second that `SO_RCVTIMEO` sets (412, 426, 443).
  An answer that is under way arrives or is lost, so that the network cannot
  keep a query for ever. Clients are not fair.
- `Provisioning`: a device that is off boots; a handler that has begun finishes
  (every one of its calls returns); an armed timer fires; the button task
  restarts after its erase. Users, power and faults are not fair. When
  `esp_timer_create` fails nothing restarts the device, so the property promises
  nothing after that (`ignored`).
  `MCStorage` states the same fairness for the behaviours that are about the
  configuration.
- `Uplink`: the event task runs and its sleeps end; the driver ends every
  attempt with an event and notices that its network is gone; a router that
  stays serves a lease. What router and radio do to the link is bounded by
  `MaxMoves`, so that in every behaviour they stop in the end, with a network or
  without; the property says what holds then. It is conditional on no call
  of `esp_wifi_connect` failing: nothing would ever call it again.

## Proofs

All proofs hold for every value of the constants that the `ASSUME` of the module
(or of the theorem) allows.

- `DnsCacheProofs`: `CacheInv` is inductive: slots are typed, no two valid slots
  have the same question, the question in `pending` is in no valid slot, and a
  valid slot is filled. Uniqueness alone is not: a store would break it without
  the part about `pending`. The search of a store is a recursive function; that it
  exists and what a turn makes of it is proved (`SearchEquation`), and by induction
  over the turns that it remembers the earliest deadline of the slots it has passed
  and stops only at a slot nothing would be served from (`Knows`, `VictimIsRight`).
  With it `EvictsOnlyOldest`, where that as many answers are fresh as there are slots
  takes the bijection from slots to their questions. From the invariant also that every
  step is a step of `AnswerMemo` or a stutter, under the map that takes a question
  to the content of its only valid slot.
- `DnsWireProofs`: `NamesTellQuestions` and `AnswersReadBack` for every message of
  bytes, whatever the headers and pieces; `WireSpec` contributes only that queries
  are such messages. The loops are recursive functions: that each exists, and what
  it does in a round, is proved from its definition (`RoundsExist`,
  `ParsingEquation`, `WalkingEquation`, `ReadingEquation`). The parser, the walk of
  `question_end` and the reader by RFC 1035 then go through a message in step, which
  takes an invariant on how they stand to each other after any number of rounds
  (`InStep`, `LoopsInStep`); since every round on which a loop goes on consumes a
  byte, all have ended after as many rounds as the message has bytes (`LoopsEnd`).
  `NameIsText`: the name is, cut to its buffer, the labels read so far with dots
  between them, where cutting after every label is cutting once (`CutOnce`).
  `SplitSpelled`: such a text, split at its dots, gives the labels, if none has a dot
  of its own; the proof counts the bounds before each label. An answer begins with the
  bytes of the query up to the end of the question, but for flags and counts
  (`BeginBytes`), and of two messages that are alike up to the end of a name the same
  name is read (`SameName`), so the answer has the query's question, and the pointer
  of its record leads back to that name (`AnswerRecord`).
- `DashboardProofs`, about `DnsLog`: `LogInv` relates ring and list: slot `SlotOf(i)`
  holds the `i`-th newest entry. It gives `NewestFirst` and the refinement of
  `RecentQueries`; the arithmetic modulo the size is in lemmas of its own.
- `ProvisioningProofs`: `SavedIsStored` is not inductive: `SaveInv` adds that
  while a POST is served nothing counts as saved, and that, unless the flash was
  erased meanwhile, the keys written so far hold what the request asks for.
  `WebResetIsFinal` is proved from `ResetInv`: no POST is being served when the
  web server has erased the flash, since it is the same task. `SavedIsApplied`
  needs `AppliedInv`: what is being saved, and what counts as saved, has passed
  validation, and once the flag's turn has come it is set or the failure is on
  record.
- `DnsProxyProofs`: `ProxyInv` adds to `OneReplyEach` that waiting queries are in
  order and have no reply, and that the one being served has left the queue.
  `StepIsCacheStep` shows every step of the proxy to be a call of the cache in the
  order `DnsCache` assumes, or none; with it the cache's theorems hold of the
  composition. `OnlyAskedAnswers` needs `AskedInv`: whatever is under way, cached or
  in a socket is about something that was asked. `AcceptedAnswersMatch` needs that
  the upstream server owes at most one answer, the one to the query in hand
  (`OneAtATime`), that what is in the socket is about it (`OwnAnswers`), and that
  what is cached was stored under its own question (`Matched`). Its theorem assumes
  that no answer is late and none is doubled, which the code cannot enforce: the run
  `late_answer` shows what happens otherwise. Lost answers, failing calls, stops and
  switches it does not exclude.
- `UplinkProofs`: `UplinkInv` holds whichever calls fail. `NeverTwice` (at most
  one event is queued that makes the handler connect, and only when the driver
  is idle) holds always, `NeverStranded` (there is one whenever it is idle) until
  `esp_wifi_connect` fails, which the history variable `failed` records.
  `OffersWhatWasStarted` needs what the
  handler remembers across its sleeps (`willOffer`), that the DHCP server is off
  while it is not yet announced, and that `proxy` becomes `off`, or
  is so no longer, only where the handler stops the DHCP server as well. `FollowsLink` speaks of an empty queue only;
  `LinkInv` says what is true before. At most one event of the link being up is
  queued, and it is behind any "disconnected" (`Order`). Either the handler has yet
  to hear of the link, and the DHCP client is still off, or the AP has followed it
  and what the client learned is this link's resolver (`LinkKnown`); once the
  station has its address the link is served or the event of it is queued
  (`Served`).
- `ApClientsProofs`: in `TableInv` no client has two slots. From it follow
  `LookupIsRight`, by the invariant `LookupInv` on how far a lookup has come, and
  the refinement of `AddressBook`, which takes that a client finds a slot exactly
  when it is listed or fewer than `MaxConn` clients are (`PlaceIsTarget`): there is an
  injection of the listed clients into the slots in use, and it is onto when none is
  free (`FullIsNoRoom`). That an event of one client does not disturb the lookup of
  another is `HandlerLeavesOthers`. `KnowsItsClients` replays the queue on the table: `Told` is what the
  table will say of a client after so many of the queued events. `EndInv` is that
  in the end this is what the DHCP server has granted, for every client of which
  nothing is amiss. That there is a slot for each is `RoomInv`: at no point of the
  queue are more clients told of than there are slots, as long as it is calm
  (`CalmHasRoom`). The attempt to prove this showed the property, as it stood,
  false with a queue of three; `calm` was added to say exactly when it holds.
- `DashboardProofs`, about `SysMonitor`: `BenchmarksAgree` from `BenchInv`: the sum of the latencies
  is at most the maximum times the count, wrapped or not, and is what was spent
  until it wraps. Without the first part the average could not be shown to stay
  below the maximum after a wrap. `SamplesAreTrue` from three invariants:
  `TrafficInv` (the monitor's last reading is the packet counter as it is now,
  wrapped, so that a delta is never more than what was sent), `MemTrue`, and
  `CpuInv` (the tasks' run times add up to the time that has passed). The last
  needs sums: that `SumFunction` adds the elements in any order (`TotalOfRest`),
  adds sums (`TotalOfSums`) and keeps bounds (`TotalBounded`) is proved from its
  definition. The assumptions are those of the device: a hundredfold heap fits
  into a word (it has 384 KB), a percentage into a byte, and there are at most a
  hundred tasks (a sample is only taken of 16).
- `SsidHistoryProofs`: `AddedIsFirst` from `AddInv`: what has been written of the
  list so far is in flash unless it was erased meanwhile, and while an addition is
  under way none is on record. `ImplementsRecent` from `RecentInv`: until something
  cuts in, no SSID is listed twice. On such a list the loop of the addition and its
  cut amount to moving one entry to the front (`MergedMoves`), which is how
  `RecentSsids` has it. `RemainingEquation` proves that the loop's list, a
  recursive function, exists; the rest is induction over its turns, for which
  `UpTo` states the principle about a set instead of a formula.

Only model-checked: liveness and everything under fairness (`SavedTakesEffect`,
`UplinkRecovers` and the like), which the prover cannot do; and everything about
the JSON modules, which compute over sequences and trees with RECURSIVE
operators, in whose modules the prover has no SMT backend. What those operators
compute for every document would take induction over documents, which the
installed provers cannot do either. `NothingLeaks` and `ImplementsForest` are
about links only and not beyond proof: but `JsonItems` deletes and copies the way
the library does, item by item along the pointers, which is what would show an
item freed twice or a list that does not end, and a form without recursion would
assume the set of items that such a walk reaches. They are checked for every heap
that calls make of four items, within the bounds of `MCJson`.

## Not modelled

- The bytes of requests and of configuration fields: `Provisioning` tells valid
  from invalid values only.
- Of the system monitor: the unlocked copy for `/api/stats`, which relates no
  figure to another, and figures that are copied from drivers unchanged.
- Of cJSON: references, raw items, hooks, setters in place, numbers that are not
  integers.
- Dashboard credentials: written by no code path in use.
- Pages, scan, statistics, redirects: they format and read, and change nothing.
- NAT, the Wi-Fi driver, lwIP, NVS, the HTTP server: external, modelled as far as
  the code depends on them. NVS: a set is atomic and durable when it returns, an
  erase of the namespace is not atomic. Sockets: bounded first-in-first-out boxes.
- Build output.

## Plan

Done: (A) `DnsCache`, `DnsProxy`; (B) `DnsLog`; (C) `Provisioning`;
(D) `SsidHistory`; (E) `Uplink`; (F) `ApClients`; (G) the JSON modules;
(H) `DnsWire`; (I) `SysMonitor`.

Next, in this order:

1. Proofs about the links of `JsonItems` (`NothingLeaks`, the refinement of
   `JsonForest`), once the trees are described without RECURSIVE operators.
2. `Repeater`: `Uplink` composed with `DnsProxy`: start and upstream server set
   by the event handler, a cache that outlives its uplink.
3. In `Provisioning`, the conversion of `ap_max_conn` and of strings of full
   length.
4. In `JsonItems`, references and raw items.
