# A TLA+ model of the Net-Sec NAT

The repository builds a moving-target defence for a web server: a DNS server, a
NAT in front of the server, and hop count filters.  A client asks the DNS server
for the web server's name; a filter on the DNS server has the NAT lease a public
address to the client's /26 prefix and puts that address and its seconds to live
into the DNS answer; the client may use the address until the seconds are over.
Hosts whose packets travel a suspicious number of hops are banned for a while.

This directory models the stateful parts of that system, checks them with TLC on
small instances, and proves the central results with TLAPS for every value of
the constants.

## The system

| component | source | state | operations |
|---|---|---|---|
| mapping table | `src/NAT/NATServer.c` | mapping list and its mutex, iptables rules, one thread per connection, one cleaner | ADD (find or make a mapping), expiration |
| ban table | `src/NAT/NATServer.c` | ban list and its mutex, DROP rules, one remover | BAN, expiration |
| linked list | `src/NAT/LinkedList.c` | head, tail, size, nodes | createList, insertElement, popElement, findElement (removeElement and printList have no caller) |
| request handling | `src/NAT/NATServer.c` | the message and its tokens per thread, strtok's one position, the sockets | recv_all, handleRequest, send_all |
| main thread of the NAT | `src/NAT/NATServer.c` | the socket, the `quit` flag, the access rules | start, accept loop, SIGINT, shutdown |
| DNS filter | `src/DNS/DNSFilter.py` | a netfilter queue, one connection to the NAT | handle_packet, NAT_update |
| hop count filter of the DNS | `src/DNS/DNSHopCount.py` | `hops` and `banned` | one callback per packet |
| hop count listener of the server | `src/FinalProjectServerListener.c` | the hop count file, one connection to the NAT | got_packet |
| TCP hop count filter | `src/DNS/TCPHopCount.py` | - | unfinished, calls a function it does not define |
| client resolver | `src/client/dnsutils.c` | list of cached answers, mutex | dns_init, resolve, remove_table_entry, query_dns with fill_dns_from_host and ReadName, dns_cleanup |
| test clients | `src/client/nice_client.c`, `trial1.c` to `trial4.c` | per ISP one resolver, threads with counters of their own | run_trial: make threads, resolve and connect in a loop, join, clean up |
| load generators | `src/client/spoofer.c`, `port_scanner.c`, `digtest.py`, `src/NAT/DNSClient.c` | counters of a measurement | packets or requests in a loop |
| set-up scripts | `src/NAT/SetupAlias.*`, `src/DNS/setup.sh` and others | - | straight-line commands |

How they interact: the filter and the listener send `ADD;<ip>` and `BAN;<ip>`
over TCP and get `ACK;<ip>;<seconds>` back; the NAT's connection threads, its
cleaner and its ban remover share the two lists and the kernel's iptables rules;
the clients' threads share one resolver per ISP, whose queries pass the filter
and so end in an `ADD`.

What is hard about it, and what makes it correct:

- *mapping table*: iptables processes of several threads interleave with no lock
  around them; the element a search found is used after the lock was released;
  searching and inserting are two critical sections; the clock is read several
  times in one request; the process can end at any time and the rules stay.
  Correct means that an answer is backed by a mapping for as long as it says,
  that listed mappings translate, that nobody's rule is forgotten, and that an
  address is leased to one prefix at a time.
- *ban table*: BAN never looks at the list.  A listed ban is in force, no rule
  is forgotten.
- *linked list*: under one lock, a queue; with two different locks, a data race.
- *connections*: TCP has no messages, answers have no numbers, a wait can time
  out.  What a peer takes for its answer must not be arbitrarily old.
- *main thread*: a signal can come at any point, the process can end at any
  point, the kernel's rules outlive it.  Nobody is locked out, no stranger is
  let in, an orderly end leaves nothing, and being told to quit ends the process.
- *hop counts*: the records, the bans and the file's resets have clocks of their
  own, and two programs ask for bans on different evidence.  A ban needs a cause
  that was really received, and what led to a ban must not lead to a second one.
- *resolver*: the clock is read before a wait for the lock, the lock is held
  during a query, removal leaves wrong pointers behind, and the clean-up follows
  them.  No answer that is still good is lost or asked for twice, nothing that
  was freed is used, names are read back however the server compresses them, and
  the trial ends.
- *all together*: between the NAT's reading of its clock and the use of the
  address lie a filter, a queue, a reply that may be late, a cache, and a thread
  that can be held up.  An address that is used is leased to whoever uses it.

`PROJECT.json` lists these hazards one by one with their lines and the
properties that watch them.

## The modules

```
RuleTable          iptables rules, checkAddRule as two processes
  ExpiringList     + clock, list, and the thread that pops what is due
    MappingTable   + the threads that handle ADD        --implements--> LeaseService
    BanTable       + the threads that handle BAN
  NATMain          + the main thread and the INPUT chain
LinkedList         the list, line by line, under the mutexes really locked
                                                       --implements--> ElementQueue
RequestChannel     the connections: reads, tokens, answers, timeouts
HopCount           the two hop count programs and the bans they cause
Resolver           the clients' cache, from dns_init to dns_cleanup
DNSName            the bytes of its queries and answers
Deployment         client threads + caches + DNS filter + the NAT as a LeaseService

MappingTableProofs, BanTableProofs, LinkedListProofs, RequestChannelProofs,
NATMainProofs, ResolverProofs, HopCountProofs, DeploymentProofs
MCMappingTable, MCBanTable, MCLinkedList, MCRequestChannel, MCHopCount, MCResolver,
MCDeployment       instances for TLC
```

**RuleTable.** `rules[r]` counts the copies of rule `r`; `checkAddRule` is
`CheckRule` (the `-C` process) followed by `ApplyRule` (`-A` or `-D`), and other
threads move in between.  A handler's fixed sequence of calls is a script;
`at[t]` is the call thread `t` has reached.

**ExpiringList.** `PopExpired` is the loop of `removeExpiredMappings` up to the
pop.  The seconds it sleeps are the steps in which it is not enabled: only this
thread removes elements, so the head it sleeps for is the head it pops.  The
clock counts seconds and moves by itself.

**MappingTable.** One action per stretch of `manipulateMapping` between two
points where another thread can get in: the request and the first reading of
the clock (`ReceiveAdd`), the search under the lock (`FindByPrefix`), the second
reading with the age test (`CheckMatch`), the copy of the answer (`CopyMatch`),
the draw of an unused address (`Draw`), the iptables calls (`InstallRules`), the
stamp (`StampMapping`), the insertion (`InsertMapping`), the answer (`Respond`);
and for the cleaner `Expire`, `RemoveRules`, `FreeMapping`.  A pointer into the
list is the element it points to, and `Freed` says whether it dangles; what a
step reads through a dangling pointer is left open.  `Restart` is the end of the
process and its next start.  `contested` and `orphans` are history: the pairs
handed out while somebody still owned them, and what an earlier process left in
the kernel.  Only the last octet of the clients' addresses is modelled, with the
mask of 64 addresses.

**BanTable.** The same for BAN.  `publicIP` of a ban is freed and was never set;
that is either harmless or the end of the process, which `Restart` covers.

**LeaseService.** What the NAT promises: leases of an address are granted one
after another, told with the seconds they have left, and kept for a grace
period after their end.  The table implements it through `Leases`, the leases
behind the listed mappings, and `answer`.  `RepeatLate` is the one concession:
an answer worked out a whole grace period late may name a lease that is gone.

**NATMain.** `pc` is the line the main thread is at; the scripts of
`insertNATAccessRules` and `deleteNATAccessRules` run through `checkAddRule` as
everywhere.  `Sigint` wakes the thread when it is inside `accept` and only sets
the flag elsewhere; a SIGINT that arrives while `system()` runs is ignored and
so is no step.  `Crash` is every end but the orderly one, at any step; rules and
policy stay, and the process may be started again.  The kernel (`Admitted`) lets
everybody connect while the policy is ACCEPT and the hosts of the access rules
while it is DROP.

**HopCount.** The file is a sequence of records, found again by `strstr`: `Contains[s]` is
the set of hosts whose dotted address has that of `s` in it.  The two tests of a hop
count are integer forms of the formulas in the code (`Twentieth` is
`ceil(h * .05)`).  Requests travel in `asked`, answers in `acks`; the
conversation itself is in RequestChannel, and the NAT's two iptables processes
and its ban list in BanTable, which here take one step.  The kernel's queue of
the DNS filter is the number `held` of packets that got no verdict.

**LinkedList.** MappingTable and BanTable make every list access one step.  This
module takes the list apart into its assignments: `size` is a read and a write,
`insertElement` tests `tail` before it writes through it.  With `CleanerLock =
"list"` all threads lock one mutex and the list is what the tables assume; with
`"copy"` the cleaner locks the copy that `main` made (`NATServer.c:92`), as the
program really does, and it is not.  The two tables therefore describe the NAT
with that defect out of the way.  A pop is only begun when the cleaner saw a
head; a search ends at a match or at the end of the list.  `contents` is history:
an element enters it when `insertElement` is through and leaves it when
`popElement` is.

**ElementQueue.** The list as the two tables use it: `Insert` and `Remove` in one
step each, and a node is given back when it leaves.  LinkedList implements it
with `contents` for the queue; that the two tables use their lists in no other
way is proved (`ListIsUsedAsQueue`).

**RequestChannel.** A request is its peer and its number there.  A message is the
parts that a read can cut it into, two or three per message; buffers are as many
parts long as bytes allow, and a cut within a part is rounded to whole parts
(`CutCommand` keeps what the rounding would hide: letters of a command in front of
the address).  Sends of at most 19 bytes are assumed to arrive whole, reads return
what is there.  `saved` is the one position strtok keeps for the process.
`WindowBack` and `WindowUnread` are what the connection holds of answers to a peer
that reads and to one that does not.  `Listener` peers never read, `Filter` peers
wait and give up after 40 seconds (`GiveUp`, which may happen at any time: the
seconds are not modelled).  `LongAddress` are the requests that name an address of
13 to 15 characters, like 192.168.1.101; `handleRequest` refuses these
(`NATServer.c:442`, `TooLong`), as it may refuse an address that the next command
has run into or half of one (`MayFail`).  A refused message is freed and used
again, so the process ends or goes on with something that names no request.

**Resolver.** One action per turn of the search loop and per branch of `resolve`
around `query_dns`.  `RemoveEntry` translates `remove_table_entry` with its
wrong assignment (`dnsutils.c:227`): an entry between two others stays in the
list and gets a wrong `prev`.  The address is read from the new entry after the
lock has been given back (`ReadAnswer`).  `mainAt` is where `run_trial` of
`trial1.c` is: it joins the threads, which leave when the attempts are used up
(`Exit`), and calls `dns_cleanup`, which takes the lock for good and frees what it
finds by following `next` (`doomed`, `freed`).

**DNSName.** `FillDnsFromHost` writes a name as labels behind their lengths;
`ReadName` scans an answer, follows pointers back, reports how far to move on, and
puts the dots back; `ParseAnswer` is what `query_dns` does with the
result, up to the room it allocates for the address, or the name it reads in an answer of another type.  The functions are
recursive, as the code's loops are, so TLC evaluates them over a set of names
and nothing is proved about them.

**Deployment.** The way from the name to the connection.  Threads of several
ISPs resolve through the cache of their ISP (`Resolve` to `QueryTimesOut`) and
connect (`Connect`).  The DNS server's answer lands in the filter's queue;
`HandlePacket` drops it and asks the NAT, `SendReply` sends an answer of the
filter's own to the socket the packet was going to, which may not be read any
more.  The parts are used through what the other modules say of them: the NAT is
`LeaseService` with the filter's connection as its only client (`NATAnswers`,
`RetireLease`), which the table implements; a cache is its newest answer,
because `OneFreshAnswer` says there is no other good one.  "Leased" means that the
NAT lists a mapping; that a listed mapping translates is `RulesInstalled`.  The
NAT answers within the 40 seconds the filter waits (what happens else is in
RequestChannel), and is not restarted, since the filter connects only once
(`DNSFilter.py:76`).  The two hosts' clocks run at one rate but their seconds do
not begin together: `TickNAT` and `TickClients` take turns.

## The runs

| run | what it asks | bounds |
|---|---|---|
| `mapping_one_adder` | Is the table a lease service, are its answers backed, its rules right, does its end of a lease keep connections, when does a prefix get a second address beside a live one, does every due mapping go, is every request answered? | 1 client thread, 3 hosts in 2 prefixes, 2 addresses, 3 requests, lifetime 2, grace 1, clock to 4 |
| `mapping_two_adders` | Is every rule owned, how often is an address shared, is the match pointer safe, when two threads fight for one pair and the process restarts? | 2 threads, 1 pair, 3 requests, clock to 4, 1 restart |
| `mapping_reissued` | violated: a live mapping has its rules | 1 thread, 3 requests, clock to 8 |
| `ban` | Is a listed ban in force and listed for its whole time, is no rule forgotten? | 2 threads, 2 addresses, 4 requests, clock to 5, 1 restart |
| `list_shared` | Is the list an atomic queue under one mutex, and no freed node touched? | 3 clients, 5 insertions; deadlock checked |
| `list_copied` | violated: the same with the mutexes really used | 2 clients, 3 insertions |
| `channel_late` | Do answers keep their order and lag by no more than the waits given up, does a jam last, is everything else read, why does the NAT end? | 1 filter and 1 listener, 3 requests each, 2 timeouts, closing allowed, the filter's second and the listener's first request with a long address, windows of 3 to 6 parts, `NoTokenRace` as constraint |
| `channel_tokens` | violated: both tokens come from the thread's own request | 2 filters, 1 request each |
| `nat_main` | Is somebody ever locked out, is a stranger ever served, does an orderly end clean up, does a signal end the process? | 3 peers, 3 starts, any rules there before |
| `hop_count` | Has every ban a cause, is a host judged afresh after its ban? | 2 hosts, 3 times to live, 4 packets, records for 2 seconds, bans for 3, clock to 5, 1 restart |
| `resolver` | Is no good answer lost or asked for twice, is nothing freed used, is what is good freed in the end, are the answers read right, does the trial end? | 2 threads, 2 hosts, times to live 0 and 1, 5 attempts, clock to 2, names of up to 3 labels of up to 3 letters with every compression |
| `deployment` | Is a used address leased to its user, do two ISPs keep apart? | 3 threads of 2 ISPs, 1 address, 3 attempts, lifetime 2, grace 2, clocks to 5 |

The type invariants of NATMain, BanTable, Resolver and Deployment are proved and
so not run again.

Why the bounds are enough for the interesting cases: with a lifetime of 2 and a
grace period of 1 a mapping passes through all of its ages (alive, exactly at
its end, in its grace period, due) while another one is made, and the clock runs
long enough for one pair to be made, removed and made again.  Three requests
allow a first mapping, one that competes with it, and one that finds either, two hosts of one prefix and one of another tell a repeated from a new lease; two
addresses leave a choice and one address forces a conflict.  Two threads are
enough for every race between a check and the change that follows it.  Four BANs of two
addresses allow a renewal of each.  Five insertions let the list empty and fill
again.  Two timeouts against three requests put the filter two answers behind,
and a window of three parts is full of the listener's first answer, so that the
second one jams with a third request still to be read.  The filter's window of
five holds two answers, one for each wait it gave up before the last.  Each peer
has a request behind one with a long address, and the filter one before it.  What
`channel_late` leaves out by its constraint is the race of `channel_tokens`, and
the constraint is the hypothesis of the theorems about the same properties.  Five calls of the resolver make an entry between
two others, let a search drop it, and search once more past the pointers that
left, and a time to live of 0 makes an entry expire while another thread waits
for the lock with an older reading of the clock.  In the deployment one address
has to go round between two ISPs, two of the three threads share a cache, and
five seconds let a lease be told, end, pass its grace period and be granted to
the other ISP while a thread still waits; with a grace period of 2 there is
time between the end of a lease and its removal in which only the cache knows
the address.  Three starts allow two
processes that are cut off and one that meets what both left behind.  The times
to live 50, 60 and 64 hold a pair that both tests accept and two pairs that both
refuse; four packets record a host, ban it, and try it again, or
record two hosts whose addresses overlap and try each.

Deadlock is checked where the model has no horizon that stops it (the list).  In
the others the clock and the number of requests, attempts or starts are bounded,
so a run ends, and their configurations say `CHECK_DEADLOCK FALSE`.

**Symmetry** (client threads, addresses to ban) is used only in runs
without temporal properties other than action properties.

**Fairness.** `MappingTable!FairSpec`: a client thread that is working and the
cleaner take the steps they can take.  The only thing they block on is the lock,
held for one step, and the cleaner's sleep, which is over when its step is
enabled.  The clock and new requests are owed to nobody; hence liveness is
stated of mappings that *are due*, not of the passing of time.  `AddAnswered`
reads the draw loop as ending when a free address exists: `rand` is assumed to
hit it eventually.  `RequestChannel!FairSpec`: the NAT's threads and a
waiting filter read what is there and send while there is room; sending,
giving up and closing are owed to nobody.  `Resolver!FairSpec`: the threads and
the main thread run; a query is answered or given up after two seconds
(`SO_RCVTIMEO`).  The mutex need not be fair: the attempts are counted, so
whoever waits gets it in the end, and `TrialEnds` follows.  `NATMain!FairSpec`: the main thread
runs; it blocks in `accept` only, which a pending connection ends.  Nobody need
connect, and no signal need come.  The others, Deployment among them, are checked
for safety only and assume no fairness.

## What the code does otherwise than it says

Each of these is a run that TLC ends with a counterexample, and a finding in
`PROJECT.json`.

- A mapping made again in the grace period of the same pair finds its rules in
  the kernel and adds none; when the old one is removed its rules go
  (`mapping_reissued`).
- `main` copies the mutexes for the cleaners (`list_copied`).
- `strtok` keeps one position for all threads (`channel_tokens`).

Met while modelling and present in the models' actions, without a run of their
own:

- Two connections can draw one address, since nothing holds it between the
  search and the insertion (`Draw`, `InsertMapping`): that addresses are not
  shared is checked and proved for one adding thread only, which is what the
  deployment has.  With more, an address is leased to no more mappings at a time
  than there are threads (`SharedByFew`).
- An address banned again while banned is let through when the first ban ends
  (`BanTable!InstallBan`, `HopCount!HandleBan`).
- A packet whose hop count is new or wrong gets no verdict, so the filter's
  queue only fills (`LearnHops`, `SuspectPacket`).
- `strstr` takes 10.4.11.19's record for 10.4.11.1's (`Found`).
- A listener that is started again keeps the old file and its records for
  another period (`RestartListener`).
- After `pthread_create` has failed, the connection is open and nobody serves it
  (`CreateThread`).
- A SIGINT just before `accept` is noticed with the next connection only
  (`Sigint`).
- `cmpMaps` accepts a mapping of exactly the age `EXPIRATIONTIMESECONDS` and the
  age test refuses it, so it hides a younger one of its prefix, which then gets
  a second live mapping (`FindByPrefix`, `CheckMatch`).  `SecondOnlyAtExpiry` says
  that with one adding thread this is the only way to a first second mapping.
  Once a prefix has two that overlap, the older one hides the younger whenever it
  ends between a request and its age test, and a third mapping can follow.
- Two connections that add one rule at a time add it twice (`CheckRule`,
  `ApplyRule`); `RulesOwned` shows that both copies are taken back, and is proved
  for any number of connections.
- `send_all` ends the process for all peers when one is gone (`SendAnswer`), and
  so may an address that the tests refuse.  `EndedForACause` shows that it takes
  a peer that has closed, gave up a wait, or, like the listener, sends a second
  request without waiting for an answer, or a last request with an address of
  more than 12 characters: a single request about 192.168.1.101 is enough
  (`TooLong`).
- A listener's BANs run together in one read, and since it never reads the
  answers both directions of its connection fill up in the end
  (`SendRequest`, `SendAnswer`); `JamIsForGood` shows that nothing but the end of
  the process leads out of that.
- An expired entry between two others stays in the resolver's cache
  (`RemoveEntry`); it is dropped again by each search and harms no good answer.
  Expired entries that were dropped are never freed (`EntriesGivenBack`).
- A thread that is held up for the grace period between its reading of the clock
  and its connection can use an address that is leased to nobody, or to another
  ISP (`ConnectsToLease` states the exception).
- `removeElement` would hand the comparison a node instead of its element; it
  has no caller and is not modelled.

## What is proved

For every set of clients and hosts, every address range, every lifetime and
grace period, and every bound on requests, restarts and the clock.  The
assumptions are the ASSUMEs of the modules: the constants are numbers of the
right kind, the range is not empty, the cleaner is no client, there are finitely
many client threads (of the NAT and of a resolver), an address contains itself,
a ban lasts at least as long as the hop counts are kept (7 seconds against 5),
the time to live of a packet is an octet, a window holds a message, "nobody" is
neither thread nor peer, and in Deployment the grace period is not 0.

- `MappingTableProofs`: `TypeCorrect`, `AnswersAreBacked`, `GraceIsEnough`,
  `MappingsTranslate`, `ConnectionsSurvive`, `RulesAreTakenBack`.  The first five
  follow from one inductive invariant, `IInv`.  None of them is inductive alone.  That an answer is backed
  needs to know that the match a thread points to was listed when it was found
  and is the only element with its id (`MatchesKnown`, `UniqueIds`), and that no
  clock reading lies in the future (`TimesPast`); a mapping that is inserted,
  that its rules are still there, which holds only because every other owner of
  the pair makes it contested (`OwnersContested`) and because whatever call of
  its script a thread is in, the rules of the calls before are there
  (`RulesUnderway`); the end of a lease, that the cleaner's script has put the
  rules for established connections in place before it comes to the plain ones
  (`EstablishedReady`), and that a mapping in a script has both its fields
  (`PairsComplete`).  `RulesAreTakenBack` is `RulesOwned`, and needs a count: every
  copy of a plain rule is paid for by a listed mapping, by the cleaner with the
  deletion ahead of it, or by a client past its call (`CountsRight`).  A mapping
  passes from one of these to the next in one step, a second copy is added by a
  client that becomes its owner in the same step, and a deletion takes a copy
  away with its owner, so the sum is kept (`OwnedInv`).  The rules for established
  connections are added by the cleaner alone, which has just seen them missing
  (`MissingSeen`).
  With any number of adding threads, `AddressesSharedByFew` (`SharedByFew`) by
  another count, `FewInv`: the live listings of an address and the threads about to
  list it are together no more than the threads.  A draw is refused while one
  listing is live, so at a draw only the second summand counts; an insertion
  moves one from the second to the first.
  With at most one adding thread (`SingleAdder`, the deployment's one connection
  from the DNS filter), `LeasesAreUnique` and `TableIsLeaseService`, by `LeaseInv`:
  `IInv`, `UniqueLease`, and that the lease being made begins after the end of
  every listed one of its address (`NextLeaseLater`).  Each action of the table is
  matched with a step of the lease service or a stutter.  And
  `SecondsOnlyAtExpiry`, by `SearchInv`: what a search found has its prefix and is
  listed, or has ended (`MatchOfPrefix`), and nothing is listed that was made
  after the request (`NoneSince`).  The condition `OneByOne` in the property is
  what the proof found missing: without it four requests of one prefix refute
  the statement, one more than the run's bound.
  From the order of the list by time (`OrderInv`, which needs that a stamped
  mapping is as young as all that are listed) `CleanerLooksAtTheOldest`: when any
  listed mapping is due the head is, so the cleaner does not sleep on one behind
  it.
  `ListIsUsedAsQueue` looks at the list through ElementQueue.  A history variable of
  the proof module, `removed`, collects what the cleaner pops; then every step from
  one start of the process to the next inserts a mapping that is neither listed
  nor was taken out, takes the first one out, or leaves the list alone.  With
  `ListIsQueue` of the list itself the two halves meet: the lines of `LinkedList.c`
  under one mutex are an ElementQueue, and that is all the tables ask of them.
- `BanTableProofs`: `TypeCorrect`, `BansAreEnforced`, `BansAreKept`, `CopiesAreTakenBack`,
  `ListIsUsedAsQueue`.  A ban
  that nobody renews is held once, in the list, by its client or by the remover
  (`HeldOnce`), and a client that is past its call leaves a rule behind
  (`RuleThere`); with `BanEnforced` itself these are inductive (`EnforceInv`).
  `BansAreKept` (`BanKept`) says the same of the answer: a ban is in force for the
  seconds the BAN was answered with, unless its address was banned again; the
  remover has in hand only what has served them.  That no
  rule is forgotten is a count as above (`CountInv`), and the list is used as a
  queue as in the mapping table.
- `LinkedListProofs`: with one mutex for all threads (`OneMutex`; `list_copied` shows
  that the hypothesis is needed), `TypeCorrect`, `ListStaysIntact`,
  `PointersStayAlive`, `OldestIsPopped`, and the refinement `ListIsQueue`.  The
  inductive invariant says for every line of an insertion or a pop how far the
  new node is linked, or the rest without the first (`InsertionRight`,
  `PopRight`); whoever is at such a line holds the mutex, so all others are
  outside (`MutexHeld`, `Alone`).  A new node is newer than all in the list
  (`ElementsRight`, `NodesFresh`), so it was never freed.  Only the last lines
  of the two operations change the queue (`OtherStepsLeaveQueue`).
- `RequestChannelProofs`: `TypeCorrect`; and, as long as no two threads are between
  their two calls of strtok at a time (`NoTokenRace`; `channel_tokens` shows what
  happens else), `LagIsBounded`, `AnswersComeInOrder`, `ProcessEndsForACause`,
  `TokensComeFromTheRequest`.  The hypothesis is about the steps taken, not about
  the constants; with a single connection it always holds (`OneConnectionIsSafe`).
  The invariant comes in layers: every part has a place in the
  stream of its peer, and what is under way and in the buffer is consecutive
  (`PartsInv`); there is at most one answer to three parts read, and a peer that
  has always waited has one whole request under way at most (`CountInv`); the
  tokens are those of the buffer (`TokensInv`); the answers under way are of
  requests that rise, and of no more than the parts read allow (`AnswersInv`).
  The lag is then arithmetic: requests sent, less waits given up, less answers
  received.  A refused address is either
  one of a peer that is not calm or that of its last request, whole and too long
  (`CalmMessage`).  `JamsStay` (`JamIsForGood`) needs neither: who never waits never receives
  (`ListenersNeverWait`), so what fills its window stays.  `FiltersNeverJam` is the
  other side and needs no hypothesis either: the answers on their way to a filter
  are at most one more than the waits it gave up (`RoomToAnswer`), so a window with
  room for those never stops the thread that serves it.
- `NATMainProofs`: `TypeCorrect`, `NobodyLockedOut`, `OrderlyEndIsClean`, `StrangersStayOut`,
  `OneMoreAtMost`, for any number of starts.  The inductive invariant ties the
  policy to the line the main thread is at (`PolicyFollows`), says what the calls
  of each script that are over have done to the rules (`InsertsDone`,
  `DeletesDone`) and that what the `-C` process found still holds when the
  second process runs (`AnswerHolds`): nobody else touches the access rules.
  The socket is not open before the policy is DROP (`NotYetOpen`), so a stranger
  gets in line during a shutdown at the most, when nothing is accepted any more
  (`StrangersOut`).

- `ResolverProofs`: `TypeCorrect`, `GoodAnswersStay`, `AskedOnce`, `FreedIsGone`,
  `GoodEntriesGivenBack`, by `AnswerInv`.  What saves the resolver from its wrong
  pointers is that `next` always leads to an older entry, and that a wrong `prev`
  leads to an entry whose `next` was taken back or that is the own `next`
  (`PointersRight`): following it cuts nothing off that was in the list.  A search
  still has before it every good answer it wants (`SearchesRight`), also one that
  was put there after it read the clock, and so a query goes out only when there
  is none.  What the clean-up has freed is newer than what it stands at, and what
  is good is freed or still before it (`CleanupRight`).
  `NoLoopGoesRound`: each turn of a search or of the clean-up goes to an older entry,
  so the wrong pointers never close a circle.  `NobodyKeepsTheLock`: until the trial
  is over some thread or the main thread has a step to take, that is, the lock is
  never held by somebody who waits.  The two are the safety part of `TrialEnds`.
- `HopCountProofs`: `TypeCorrect`, `NobodyDroppedIdly` by `CauseInv` (what the two
  programs remember was seen, and every BAN under way and every rule has a
  cause), `BanEndsTheMatter` by `ForgiveInv`: a record was made after the last ban
  of its source ended or a whole period before that (`RecordsApart`), because a
  banned source is kept away (`BansApart`) and a file is as old as its oldest
  record unless the listener was started again (`FileDated`).  `CalmHostsAreServed`
  compares the two tests: for octets, whatever `NearFirst` accepts `NearRecord`
  accepts (`FilterIsStricter`), so a host whose packets all pass the filter's test
  of one another, and whose address is part of no other, is never dropped.
- `DeploymentProofs`: `TypeCorrect`, `ConnectionsReachLeases`, `CachesKeepApart`, by
  `BackInv`: what the NAT told, the reply under way, the cached answer and the
  address in a thread's hand are each backed by a lease that lasts as long as
  they are good, or a whole grace period has gone by since.  The filter asks
  after the thread it answers has read the clock (`AskedLater`), so a cached copy,
  stamped with that earlier reading, runs out before its lease.
  `DeploymentUsesLeaseService`: the NAT in the deployment behaves as a LeaseService,
  whatever the other parts do.  `LeasesAreDisjoint` and `ToldStaysKept` are about the
  lease service alone, and so about all that implements it, the table and the
  deployment's NAT.

Every safety property that a passing run checks is proved but one,
`QueriesAreRead`: it is about functions that recurse over the bytes of a message,
and what those compute for every message needs an induction over data that the
proof system cannot do.  Only model-checked besides: liveness
(`DueMappingExpires`, `AddAnswered`, `EveryRequestRead`, `TrialEnds`,
`QuitHonoured`), which it does not reach.  That the table is a lease service is
proved for one adding thread; for two it does not hold.  Proved only, without a
run: what the theorems state that name no property of a run, such as
`UniqueLease`, `HeadIsDueFirst`, `RoomToAnswer`, `LoopsDescend`, `UsedAsQueue` and the
theorems about the lease service alone.

## What is not modelled, and what comes next

Not modelled:

- `trial2.c` to `trial4.c` make and join the same threads as `trial1.c` and differ
  in what they count; `spoofer.c`, `port_scanner.c` and `digtest.py` produce packets
  and count the replies.  Each thread has a structure of its own, so there is no
  shared state a property could be about.  `DNSClient.c` is a peer of the NAT that
  waits for every answer, like RequestChannel's filter without its time-outs.
- `TCPHopCount.py`, which does not run: it calls a function it does not define.
- `removeElement` and `printList` of the list, which nothing calls.
- The sockets that every query leaves open (`dnsutils.c:47`).  When the
  descriptors have run out each query fails, and `QueryFails` may happen at any
  time.
- Requests with an address of more than 12 characters outside RequestChannel: in
  HopCount, the two tables and Deployment a request is one that the NAT carries
  out, and no request is refused there.
- The set-up scripts, logging, and the text of iptables commands.

What could come next: a bound on the descriptors, to see how many expired answers
a client outlives; and a filter that connects again after the NAT was restarted,
if the program ever does.
