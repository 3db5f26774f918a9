# uIP on an AVR with an ENC28J60: TLA+ models and proofs

The repository is a small TCP/IP node: `src/main.c` polls an ENC28J60 Ethernet
controller over SPI, hands frames to uIP (`src/uip/uip.c`, ARP in
`src/uip/uip_arp.c`) and runs a demonstration server written as a protothread
(`src/uip/hello-world.c` on `src/uip/psock.c`). The configuration that is built
(`src/uip/uip-conf.h`) has **one** connection, **one** listening port, a 420 byte
packet buffer and no UDP. Everything runs in one thread of control plus the timer
interrupt; there is one packet buffer `uip_buf` for both directions.

Paths below are relative to `src/`.

## Inventory

| Component | State | Operations | What must hold |
|---|---|---|---|
| TCP engine, `uip/uip.c` | `uip_conns[]`, `uip_listenports[]`, `iss`, `uip_buf`, `uip_flags`, `uip_len`, `uip_slen` | `uip_init`, `uip_connect`, `uip_listen`, `uip_unlisten`, `uip_process` (input, periodic, poll) | connection fields stay coupled, one connection per endpoint pair, bounded retries, bytes in order, callbacks form sessions, half-open states end |
| IP input, ICMP echo, reassembly, `uip/uip.c` | `uip_reassbuf`, bitmap, timer (compiled out) | `uip_process` up to `tcp_input`, `uip_reass` | only datagrams for us reach TCP; a reassembled datagram has no holes |
| Checksums, `uip_add32` | none | pure functions | ones' complement sum; 32 bit addition with carries |
| ARP, `uip/uip_arp.c` | `arp_table[8]`, `arptime` | `uip_arp_init`, `_timer`, `_arpin`, `_out` | one entry per address, old entries are flushed, the oldest is replaced, frames go to the address asked for (each with an exception in the code, see the findings) |
| Main loop, `main.c` | `uip_buf`/`uip_len`, two timers, link state | receive or process, periodic, ARP timer | every received frame is processed once, replies are sent |
| Ticks and timers, `timer.c`, `uip/timer.c` | `system_tick` (interrupt), `start`/`interval` | ISR, read, `timer_set/reset/restart/expired` | a timer expires once per interval, reads are not torn |
| Protosockets, `uip/psock.c`, `uip/pt.h` | `struct psock`, continuation `lc` | `PSOCK_SEND`, `PSOCK_READTO`, `PSOCK_READBUF`, generator | everything is sent and acknowledged before the thread goes on; input is not lost |
| Application, `uip/hello-world.c` | `hello_world_state` per connection | `hello_world_appcall` | replies with what was read |
| Driver, `enc28j60.c`, `spi.c` | bank, read pointers, chip registers | init, receive, send, PHY access | frames are read once and in order, the transmit buffer is not overwritten |
| Forwarding and splitting, `uip/uip-fw.c`, `uip/uip-split.c` (not in the build) | forwarding cache, interface list | `uip_fw_init`, `_register`, `_default`, `_output`, `_forward`, `_periodic`, `uip_split_output` | a packet is not forwarded twice, what is forwarded dies out |
| Neighbor table, `uip/uip-neighbor.c` (not in the build) | `entries[]` | `uip_neighbor_init`, `_periodic`, `_add`, `_update`, `_lookup` | a lookup finds the address added last |
| `uip/uiplib.c` | none | `uiplib_ipaddrconv` | parses what it accepts |
| `uart.c`, `log.c`, `delay.c` | none that others read | output, busy waiting | not modelled |

How they interact: `main()` moves one frame at a time from the driver into
`uip_buf` and calls `uip_arp_arpin()` or `uip_input()`; a reply is left in
`uip_buf` with `uip_len > 0` and goes through `uip_arp_out()` back to the driver.
Every 500 ms `uip_periodic(i)` runs `uip_process(UIP_TIMER)` for each connection,
every 10 s `uip_arp_timer()`. The engine calls the application by `UIP_APPCALL`
with `uip_flags`, and the application answers through the same global variables
(`uip_flags`, `uip_slen`, the `UIP_STOPPED` bit).

What is hard here: loss, duplication and reordering on the network against one
outstanding segment per connection; a retransmission that the *application* has to
rebuild; fields whose meaning depends on the state (`len`, `timer`, `nrtx`); slots
that are reused without being cleared; one buffer for both directions; 8 and 16 bit
wraps; the interrupt. The full list, with lines, is `hazards` in `PROJECT.json`.

## What is modelled

### `UipTcp` - the TCP engine

`uip_process()` runs to completion and calls the application at most once, so one
path through it is one action. State:

| Variable | Code |
|---|---|
| `uip_conns` | `uip_conns[]`; a record per slot with the fields of `struct uip_conn`. `tcpstateflags` is split into `tcpstate` and `stopped` (the `UIP_STOPPED` bit); `Is(k, st)` is the code's comparison with the whole byte, `k.tcpstate = st` the one with `UIP_TS_MASK` |
| `uip_listenports`, `iss` | the same |
| `uip_buf` | the segment the call asks to be sent (none or one): `uip_len > 0` on return |
| `appcall` | the `UIP_APPCALL` of the call (none or one): slot, `uip_flags`, what the application did |

| Action | Path in `uip.c` |
|---|---|
| `Input(s)`: `RecvRst`, `RecvOutOfOrder`, `RecvSynRcvd` ... `RecvClosing`, `RecvZombie` | `found:` and the switch over the state |
| `Input(s)`: `RecvListen`, `RecvListenFull`, `RecvNoConn` | `found_listen:`, no slot, `reset:` |
| `AppSend` inside the above | `UIP_APPCALL`, `appsend:`, `apprexmit:` |
| `Periodic(c)`: `TickWait` ... `TickIdle` | `UIP_TIMER` |
| `PollConn`, `Connect`, `Listen`, `Unlisten` | `uip_poll_conn`, `uip_connect`, `uip_listen`, `uip_unlisten` |

The environment is free: any segment of the constant `Segments` may arrive at any
time (which covers loss, duplication, delay and reordering), and the application
may return any member of `Replies` (bytes offered with `uip_send`, and one of
`uip_stop`, `uip_restart`, `uip_close`, `uip_abort`). In the callbacks whose flags
the engine does not look at again (`UIP_ABORT`, `UIP_TIMEDOUT`, the last
`UIP_CLOSE`) only the `UIP_STOPPED` bit can survive: `EndActs`.

Abstractions: a remote endpoint is one value; payload is its length; checksums are
right; sequence numbers count modulo `SeqMod` and 8 bit timers modulo `TimerMod`;
the round trip estimator may yield any `rto` of `Rtos`; `uip_connect()` picks any
port that is free instead of the next one. Not in the model: `uip_connect()` called
from inside a callback of the very slot it would reuse.

### `TcpSession`, `UipTcpSession` - what the application is promised

`TcpSession` is the abstract specification of the callbacks of one slot: opening,
`CONNECTED` once, traffic while open, a close, an abort or a timeout, and no traffic
after that. `UipTcpSession` maps `uip_conns` to sessions (`View`) and `appcall` to
calls; `SessionSpec` says that every behaviour of `UipTcp` is one of `TcpSession`.

### `TcpLink`, `ByteStream` - the engine against a remote TCP

`TcpLink` extends `UipTcp` by one honest peer and a network, for one connection in the
only slot. A byte is its place in its stream. What the peer sends is not kept in a
channel: at any time it may send any SYN, SYNACK, data, ACK, FIN or RST that a TCP with
this stream could have sent by then (`PeerSeq`, `PeerAcks`), which is the same as a
network that may lose, repeat, delay and reorder what it sent. What we send is kept in
`wire` for ever and may be heard again at any time (`PeerHears`). `acked`, `wrote`, `fed`
and `fedEnd` are what an application sees in its callbacks; it writes from its first
unacknowledged byte, as `uip/uip.h` asks of it, and for a retransmission too.

`ByteStream` is one direction of a connection: bytes in order, each once, the end after
the last. `ToApp` and `ToPeer` map `TcpLink` to it.

### `ArpTable`, `ArpHistory` - address resolution

`arp_table` and `arptime` are the variables, `sent` is the frame a call leaves in
`uip_buf`. `ArpRequest`, `ArpReply`, `ArpOther` are the paths of `uip_arp_arpin()`,
`ArpTimer` is `uip_arp_timer()`, `ArpOut` `uip_arp_out()`, each as a whole. `Place` is the
choice of the slot in `uip_arp_update()`. The code has three tests for "in use", and so
has the model: `InUse` (timer, free slot), `Checked` (refresh: both halves non-zero), and
none at all in `uip_arp_out()` (`Holds`). Any host, also one that probes with address
0.0.0.0 or lies off the network, may send any packet at any time. The static initial value
of the clock is 0; `uip_arp_init()` runs once, at start.

`ArpHistory` adds what an observer knows: the ticks since an entry was written (`age`) and
what each local host announced last (`latest`).

### `Enc28j60`, `FrameQueue`, `MainLoop` - the node around the stack

`Enc28j60` is the driver, cut at every access to the chip, and what it relies on of the
chip. `pc` is the place of the processor; `econ1` the register that holds the bank bits,
`RXEN` and `TXRTS` together; `rxmem` with its pointers and `epktcnt` the receive ring;
`txmem` and `air` the transmit buffer and what is being sent from it. Between any two
accesses the chip may store a frame, good or bad, or end a transmission. `Select` is
`enc28j60_select_bank()`, `ReadHeader` to `ReturnSize` is `enc28j60_rx_packet_receive()`,
`TxWait` to `TxGo` is `enc28j60_tx_packet_send()`.

`FrameQueue` is what a driver promises of its receive side: frames come out in the order
they were accepted, once and unaltered. `Unread` maps the ring to that queue, by
following the next-packet addresses from where the driver stands.

`MainLoop` extends the driver by the loop of `main.c`: poll, receive *or* process, the two
timers. `uip_buf` and `uip_len` are the shared buffer; the stack is a call that takes what
is in it and may leave a frame to be sent.

### `SysTimer` - ticks and software timers

The interrupt may come between the two byte reads of `timer_get_system_tick()`
(`torn`), `clock_time()` is a signed number of two bytes, and the loop asks its timers in
turn (`timer_expired()`, `timer_reset()`). `due` is when a timer should expire.

### `RttEst` - the round trip estimator

`timer`, `rto`, `sa`, `sv`, `nrtx` of one connection, with the code's `u8_t` and
`signed char` (`U8`, `S8`), beside the same formula in whole numbers (`exact`). `forgot`
remembers that `nrtx` was cleared under a segment that had been sent again. The longest round
trip `MaxRtt` is any number; `ShortTrips` says that eight times as much fits an octet.

### `Checksum` - sums and 32 bit addition

`chksum()` word by word with its carry, the checksum of an echo reply made out of that of
its request (`uip.c:998`), and `uip_add32()` on its four bytes.

### `Reassembly` - IP input and fragments

The checks of IP input in their order, and `uip_reass()` as one action per fragment: the
buffer, the bitmap of units, `reasslen`, `lastfrag`, `reasstmr`. The order is the code's: a
fragment is put into the buffer before its destination or a checksum is looked at. Buffer
and bitmap have the sizes of the code: `BufSize - IPH_LEN` bytes of payload behind the
header, `BufSize / 64` bytes of bitmap. The code's own test lets fragments pass that end
outside of them (`Inside` is the test it would need); such a step sets `overran` and is the
last one of a behaviour, since nothing can be said of the memory behind the arrays.

### `Neighbor`, `Forward` - tables beside the build

`Neighbor` is all of `uip-neighbor.c`; `newest` is what an observer would expect a lookup to
find. `Forward` is `uip-fw.c` and `uip-split.c`: the interface list, the cache of packets
seen, and `out`, what a call has put out; `recent` is what an observer remembers.

### `Psock`, `HelloWorld` - the application

`Psock` has the functions of `psock.c` as functions of a protosocket and one callback: a
protothread runs from where it waited to its next wait. For `psock_generator_send()` that is
behind the test of `uip_rexmit()`, so `generate()` is called once, when the send begins, and
what a waiting call sends from `uip_appdata` is not known (place 0). `HelloWorld` extends `TcpLink` by a
server written with them, so that the application, free in `TcpLink`, is
`hello_world_appcall()`. The first script is that of `hello-world.c` (greeting, read up to
`\n`, answer, name, close); the second uses the other two calls of `psock.h`, a generator
and a fixed-size read. `said` is the place `uip_send()` last took data from, `promised` the
bytes of all sends that have returned.

## Runs

| Run | Question | Instance |
|---|---|---|
| `server` | Are the fields coupled, does a stopped connection take nothing, do callbacks form sessions, does every half-open state end by the timer alone - for any application? | 1 slot, 1 peer, opened from either side, sequence numbers mod 2, MSS 1, `MAXRTX` 2 > `MAXSYNRTX` 1, all application acts, weak fairness of `Periodic` |
| `table` | Can two connections match one segment? | 2 slots, 2 peers (symmetric), 2 ports, `SeqMod` 1 |
| `nomss` | violation: an established connection whose `mss` is 0 | client without an MSS option |
| `close` | violation: `uip_close()` in a `UIP_REXMIT` callback is lost | any callback may close |
| `order` | Do both byte streams arrive in order and complete, whatever the network does? | 2 bytes each way, MSS 1 or 2, `SeqMod` 5, one retry, `stop`/`restart`/`close` |
| `settle` | Does a segment in flight end as acknowledged or given up? | 1 byte each way, weak fairness of `LinkTick` |
| `node` | Do frames pass the driver in order and unaltered, once to the stack, and where can they be lost? | ring of 5 cells, 3 frames of two sizes, good or bad, weak fairness of the processor |
| `hello` | Do the blocking sends and reads of protosockets keep their promises on a real network? | MSS 3, greeting of 2 bytes, 6 own and 4 peer bytes, 2 retries, two scripts |
| `psock` | violation: `PSOCK_SEND` of more than a segment returns too early | as `hello`, greeting of 4 bytes |
| `generator` | violation: a generator is not called again for a retransmission | as `hello` |
| `parts` | Timers, estimator, checksums, reassembly, ARP, neighbors, forwarding, each on its own | see below |
| `reass` | violation: a fragment is written outside of the reassembly buffer or its bitmap | as `parts` |

Why the bounds are enough. One connection uses one outstanding segment and compares
sequence numbers only for equality, so two or three values tell "the expected one"
from "another one". A length counts as 0, less than the MSS, the MSS, or more, which
needs MSS 1 or 2. Retry limits of 0 to 2 with the SYN limit below the other one
cross both limits. `TimerMod` is the smallest that holds `UIP_RTO << 4`; the wrap of
the `FIN_WAIT_2` timer happens within it. Slot choice depends on which of two slots is
closed, waiting or older, so two slots are needed and enough for every comparison.
Nothing else is bounded: the instances are finite without a state constraint.

`TcpLink` bounds the streams (`PeerBytes`, `AppBytes`; `SeqMod` leaves room for SYN, FIN and
one place beyond, so that no two places of a stream share a sequence number). Two bytes
and an MSS of 1 or 2 give one full segment, two segments one after the other, a
retransmission of a different length after a window update, and a partial acknowledgement.
`LinkView` and `HelloView` drop the output of the last step, which no other step reads.

In `node` a frame takes two or three of five cells, so that the ring is full with two
frames, refuses the third, and wraps in the middle of a frame; three frames are enough for
one in the ring behind one that is being read behind one in `uip_buf`. `MaxFrames` is the
only counter it bounds. The scripts of `hello` send messages of at most one segment, which
is what the program does (its greeting has 26 bytes); `psock` shows what happens beyond.

`parts` runs seven components that share no variable, one per behaviour:

* timers: bytes of 8 values, intervals 9 and 13 that are not in phase, up to 5 ticks between
  two looks, 150 ticks, more than two turns of the clock of 64;
* the estimator: real width (256), `RTO` 3, round trips of up to 31 ticks, the most that 8
  bits admit (8 * 31 + 7 = 255), two retransmissions;
* sums: bytes of 4 values, every ICMP message of 4, 6 and 7 bytes (even and odd), any
  series of additions of four numbers over all 256 values of four such bytes;
* reassembly: two datagrams of 10 and 14 bytes in a buffer of 12, of which the header takes
  1 (so that fragments end inside, in the last byte, which is outside, and beyond), units of 2 bytes, 2 units per byte of
  the bitmap, every way to cut, repeat, overlap and mix their fragments;
* ARP: 2 entries, so that "first", "oldest" and "unused" are different slots; 4 source
  addresses that overfill them (0.0.0.0, local, local with a zero half, off the network), 2
  Ethernet addresses (symmetric); maximum age 3 and a clock modulo 5, which wraps within
  twice the maximum age;
* neighbors: 3 entries, 2 addresses of each kind, one link address that looks like an IP
  address and one that looks like the empty entry;
* forwarding: a cache of 2, times to live modulo 4, six packets from outside (0, 1 and 2 hops
  left, ICMP, for the host, broadcast) and two own ones, of which one is split.

Fairness: `WF` of `Periodic(c)`, in `settle` of `LinkTick`, the same call. `main()` calls
`uip_periodic(i)` for every `i` whenever the 500 ms timer has expired and nothing in its
loop waits for the network or for the application, so every tick comes in the end. In
`node` it is `WF(Driver \/ Main)`: the processor keeps running. Nothing is assumed of the
peer, of the application, or of the network. `NoHalfOpen` leaves out `ESTABLISHED`: uIP has
no keepalive, and with one slot a client that vanishes while idle keeps the server busy for
ever. It also leaves out a slot whose application called `uip_stop()` in the callback that ends
its connection: it keeps the bit (`TIME_WAIT | UIP_STOPPED`) and is never reclaimed.

Deadlock is not checked in runs of instances that stop by their bounds (`parts`: a timer at
its last tick, a sum that is complete).

Every property of a passing run has a mutant: a definition marked `mutant` that changes one
path the way a slip in the C code would and that the run must refute.

## Findings

* `nomss`: `found_listen` does not initialise `mss`/`initialmss`; a SYN without an MSS
  option inherits them from the slot (0 at first), against `uip/uip.c:1615`.
* `close`: `uip_close()`/`uip_abort()` in a retransmission callback are ignored, against
  `uip/uip.h:566`.
* `psock`: `uip_acked()` stays true for a whole callback, so one acknowledgement lets the
  loop of `psock_send()` run to the end of a message of several segments; only the last
  `uip_send()` counts, against `uip/psock.h:164`.
* `generator`: `generate()` is called again for a retransmission only by a protothread that has
  not waited yet (`uip/psock.c:234` stands before the `PT_WAIT_UNTIL` that it resumes in), so a
  retransmitted segment holds whatever is in `uip_appdata`, against `uip/psock.h:212-215`.
* `reass`: the overflow test (`uip/uip.c:586`) compares with the whole of `uip_reassbuf` what is
  written `UIP_IPH_LEN` (20) bytes further on, and a fragment that ends with the buffer is marked in
  the byte behind the bitmap, against `uip/uip.c:584`. Reassembly is compiled out here.

The next ones contradict a comment too. They have no run in `PROJECT.json`; the configuration
named states the comment as a property, and TLC refutes it within half a minute (`MCParts_slow.cfg`:
two or three minutes). The passing properties are stated around them.

| Configuration | Property | The code, and what it contradicts |
|---|---|---|
| `MCTcpLink_careless.cfg` | `CloseHeard` | `uip_close()` with data in flight sends the FIN in place of that data (`uip/uip.c:1657-1663`), which is never heard; `uip/uip.h:566` "in a nice way" |
| `MCTcpLink_urgent.cfg` | `InSequence` | urgent bytes are skipped but not counted into `rcv_nxt` (`uip/uip.c:1594`): the peer resends the tail of the segment, the application is fed it twice; `uip/uip.c:72` "will not be fed with data that is out of sequence" |
| `MCHello_impolite.cfg` | `ReadsStream` | data that arrives while a protothread is blocked in a send is acknowledged and missing from the next read; `uip/psock.h:257`, and the comment `XXX` at `uip/psock.c:278` |
| `MCParts_karn.cfg` | `RttMeasured` | `nrtx` is cleared by any new data from the peer (`uip/uip.c:1698`), so the acknowledgement of a retransmitted segment is measured; `uip/uip.c:1436` "unless we have done retransmissions" |
| `MCParts_slow.cfg` | `RttExact` | with round trips of 32 ticks or more `sa`, a `u8_t`, wraps (`uip/uip.c:1442`); `uip/uip.c:1440` "taken directly from VJs original code" |
| `MCParts_halves.cfg` | `InsertedIfNotFound` | an address with a zero half (10.1.0.0) is never refreshed but entered again (`uip/uip_arp.c:168`); `uip/uip_arp.c:161` |
| `MCParts_router.cfg` | `CorrectMac` | `main()` never sets `uip_draddr`: for another network 0.0.0.0 is looked up and found in an unused entry (`uip/uip_arp.c:382`); `uip/uip_arp.h:96` |
| `MCParts_wrap.cfg` | `ThrowsOldestAway` | ages are `int` differences of 8 bit times, negative after a wrap, so a younger entry may go (`uip/uip_arp.c:204`); `uip/uip_arp.c:197` "the oldest entry" |
| `MCParts_burst.cfg` | `RemembersLast` | of equally old entries the forwarding cache replaces the last (`uip/uip-fw.c:295`), the one registered just before; `uip/uip-fw.c:156` |

Further observations, which contradict no statement of the repository or lie outside of the models:

* New data from the peer also renews the retry budget of what is outstanding: a peer that keeps
  sending without acknowledging keeps the connection. `Settles` has a peer whose stream ends.
* An urgent pointer beyond the segment is not looked at: `uip_len` wraps (`uip/uip.c:1595`). The
  models take pointers within the segment (`EnvAssumption`).
* An ARP entry written in the 120 ticks before the wrap never reaches the limit
  (`uip/uip_arp.c:150`) and stays until its host is heard again or its slot is needed, which is
  exactly what `FlushedUnlessWrapped` allows. `uip_arp_ipin()` is an empty macro
  (`uip/uip_arp.h:84`), so IP traffic does not refresh entries.
* The driver never waits for a running transmission: `&` binds weaker than `!=`
  (`enc28j60.c:290`). `SendsIntact` promises nothing of frames whose sending is overlapped.
  Two registers get a wrong value, which no model reads: a PHY register gets its low byte in
  both halves (`enc28j60.c:142`), and `max_frame_len && 0xFF` is 1 (`enc28j60.c:339`).
* A received frame can be lost between the driver and the stack in two ways: the next frame
  is read over it, or the periodic timer expires in the iteration that received it
  (`FrameFate`).
* The checksum of the reply to an echo request that is zero but for type and checksum is 0
  instead of 0xffff: the comparison at `uip/uip.c:998` includes the equal case.
* The test for a complete datagram skips its last full byte of the bitmap
  (`uip/uip.c:636`), so a hole of 64 bytes there goes unnoticed; for a datagram of fewer than
  64 bytes the bound wraps and it never completes; `uip_reasslen` leaves out the header, so
  what is passed on lacks its last 20 bytes. Reassembly is compiled out here.
* The model takes the input buffer to be empty when a connection starts and the name to be
  shorter than it; the code clears neither.
* The halves of a split segment share an `ipid`, so a uIP on the way drops the second as a
  duplicate. `uip-split.c:90` calls `tcpip_output()`, which is not in the repository; its
  header says `uip_fw_output()`, and so does the model.
* `uip_neighbor_add()` compares the IP address of an entry with a link address
  (`uip/uip-neighbor.c:102`), so an address that is added again may get a second entry, and
  the older one be found.

## Proofs

Every theorem holds for all values of the constants that satisfy the assumptions of the
modules (each `ASSUME` is evaluated by TLC on the instances too). What the assumptions say of
the code:

| Assumption | Says |
|---|---|
| `UipTcp` | sizes positive, `UIP_RTO * 16 < TimerMod`, the time-wait limit below `TimerMod`, urgent pointers inside the segment |
| `TcpLink` | one slot; `SeqMod` exceeds either stream by more than 2, so no two places of a stream share a number |
| `RttEst` | the initial `rto`, doubled four times, is an octet |
| `SysTimer` | the clock is wide enough for an interval and a lag, and between two looks at a timer at most one interval passes. The second is needed: with intervals 3 and 4 and a lag of 6 TLC refutes `Schedule`, since a timer expires once per look |
| `Checksum` | a message is shorter than a word can count |
| `Neighbor`, `Forward`, `Reassembly`, `ArpTable`, `Enc28j60` | sizes positive, null values that are no real ones; the reassembly buffer is longer than a header |
| `Psock` | the buffer is not empty, a line end is a place of the peer's stream |
| `HelloWorld` | a generator generates something, a name is sent only after it was read |

Theorems that need more than that state it as hypotheses, named below; the run of the same
property has constants that satisfy them.

### The TCP engine: `UipTcp_proofs`

`TypeOK`, `UniqueTuple`, `LenCoupling`, `RetryBudget`, `TimerArmed`, `StoppedTakesNothing`.
`TypeOK` and the others are not inductive one by one: that `len` of an established
connection stays below `initialmss` needs `mss <= initialmss`; that `nrtx` stays below
the SYN limit needs the type of `nrtx`; that the timer is ready when a connection becomes
idle needs it to be ready on entry to `ESTABLISHED`. `IInv` joins them: the types, the
uniqueness of endpoint pairs, and `Local(k)`, what one connection record must satisfy.
Each path has a lemma that it leaves `Local` of its connection, keeps its endpoints or
creates fresh ones, and produces a well-formed segment and callback (`Good(c)`); `GoodStep`
turns that into `IInv'`. `Invariance` combines initial state and step, and the five
invariants follow from `IInv`. `StoppedTakesNothing` is an action property: `Good(c)` says
that a step concerns one connection, and each path from an established and stopped one keeps
`rcv_nxt`, those that end it included: neither a byte nor a FIN is acknowledged.

`SessionsImplemented` is the refinement `Spec => SessionSpec`. Each path is mapped to one
abstract action or a stutter, under `IInv`.

### The two byte streams: `TcpLink_proofs`

`PeerStream` and `AppStream` are refinements: each direction of a connection implements
`ByteStream`. The link has some twenty paths through `uip_process()` that matter, and a byte
stream one kind of step, so the proof goes through the *kinds* of step in between. A path
is shown (`FoundMoves`, `ListenKind`, `TickMoves`) to be one of

* `Dies`: the connection is gone and nothing that occupies sequence numbers is sent;
* `Keeps`: state and `snd_nxt` stay, and what is sent, if anything, is the same text again;
* `Opened(s)`, `Starts(s)`: the handshake;
* `Exchanges(ok, m)`: an established connection hands over `m` bytes, advances `snd_nxt` by
  `len` if the segment acknowledges, and offers new data;
* `PeerCloses(ok)`, `Finishes(ok)`: the closing states, which only an acknowledgement leaves.

The invariant `StreamInv` is then shown for each kind. It is `IInv` of the engine and

* `OpenInv`: before the connection is opened nothing has happened (without it a frame
  of an earlier life could be on the wire);
* `SendInv`: in which place of our stream `snd_nxt` stands in each state, that every frame
  ever sent carries the bytes its sequence number says and none that was not written, that a
  frame with FIN ends the stream, that the peer has heard a beginning of it, and at least
  what it acknowledged. `acked <= heard <= wrote` is what an acknowledgement is
  interpreted with: with one segment outstanding there are two places it can name
  (`AckMeans`), and `wrote = acked + len` makes them the ends of that segment;
* `RecvInv`: `rcv_nxt` is the place after as many bytes as the application was given; if there
  is no urgent data (`Plain`), what it was given is the stream so far, and the end has
  been told only after the last byte.

`SeqAssumption` turns equal sequence numbers into equal places (`PlusInjective`). The theorems:

* `PeerHearsStream` (`PeerStream`) and `HeardAtClose` (`CloseHeard`) assume `Careful`, the
  hypothesis that the application does not close with data in flight. It is needed: TLC
  refutes both without it, because the code sends the FIN in place of that data.
* `ApplicationGetsStream` (`AppStream`) assumes `Urgps = {}`, a peer that sends no urgent data.
  It is needed too (TLC refutes `AppStream` with `Urgps = {1}`): urgent bytes are not
  counted into `rcv_nxt`, see the findings. How the application closes does not matter to it.
* `OneOutstanding` (`OneInFlight`) assumes neither; an urgent pointer stays within its
  segment here as everywhere (`EnvAssumption`).

The proof found a state the model allowed and the code does not: a second peer could open
with a SYN while the first one's connection existed. `DeliverSyn` now says that a SYN comes
from the peer that opened the connection once there is one.

### The application: `HelloWorld_proofs`

`SentReceived` (`SentIsReceived`), `WritesFromNext` (`WritesNext`), `HeardBeforeClose` (`Farewell`)
and `ReadsPeerStream` (`ReadsStream`), for every script, buffer and message size. The proofs
stand on `StreamInv` and on the kinds of step of `TcpLink_proofs`: what the application makes
of a callback depends only on the flags it is given, and each kind fixes those. In the order
of the module:

* `Bytes`, the bytes of a script before an operation, grows with the place and does not depend on
  the name before the name is sent (`BytesGrow`, `BytesNameless`).
* What one call of `psock_send()`, `psock_generator_send()` or a read leaves behind, and by
  induction over the script what a protothread has done when it waits again.
* `FitInv`: every connection has `mss` and `initialmss` that take each message of the scripts.
  Its hypothesis is `OneSegment`: the peer's MSS, the windows it opens and our own default
  do. It is needed: `psock` is the run that refutes `SentIsReceived` without it.
* `AppInv`: the protothread is at its beginning or waits in an operation; in an established
  connection it waits, all bytes of the operations before have been acknowledged, and if the
  operation sends, exactly its bytes are in flight, taken from the byte after (`Awaits`). This
  is what makes one acknowledgement the end of one operation. The message of a generator is
  taken from that byte when it is sent first, and from an unknown place (0) once it is
  retransmitted. `SentIsReceived`, which counts bytes, and `WritesNext`, which allows that place
  for a generator only, follow.
* `CloseInv`: when the protothread has closed, the connection is past `ESTABLISHED` and the whole
  script was acknowledged. The callback that reports the end of a connection runs
  the protothread once more from its beginning, so `Farewell` needs `Talks`: a script that sends
  nothing would say close there, having said nothing.
* `ReadInv`: before the read nothing was fed; while it waits the buffer holds all that was fed
  and the line is not complete; after it the buffer holds what was asked for. Four
  hypotheses: `OneRead`, a script reads once, since a second read does not begin with the
  stream; `LineFits`, the first line is not longer than the buffer, beyond which
  `buf_bufto()` throws bytes away; `Plain`, no urgent data; and `Polite`, the peer sends
  nothing until it has the greeting. TLC refutes `ReadsStream` with `Polite = FALSE`: data that
  arrives during a send is acknowledged by the stack and looked at by nobody.
  `GreetsFirst` is where the last one is used: until the read is reached, less than the
  greeting is acknowledged.

### The node: `MainLoop_proofs`

`SentIntact`, `ReceiverOn`: `TxInv` adds that nothing is promised while `tx_packet_send()` runs
and that the transmit buffer holds `uip_buf` at its last step; `SelectKeeps` is the lemma
about the bank bits.

`FramesInOrder` (`ReceivesInOrder`) is the refinement of `FrameQueue` by the receive ring, for
every size of the ring and of the frames. The driver knows nothing of the ring's
content but addresses, so the invariant `RingInv` says that there is a list of offsets
`d`, relative to where the driver stands, at which the packets not yet given back stand
behind one another (`Ring`): each header points to the next one, the cells in between belong
to one frame, the last offset is where the chip writes next. `UnreadIs` shows that following
the next-packet addresses, which is how `Unread` is defined, visits exactly these.
`PlaceInv` relates `ERDPT`, `ERXRDPT`, the header read and `pc`. A frame that arrives appends an
offset and overwrites no cell of the others (`ArriveRing`, from the free space that the chip
sees), a packet that is given back removes the first and moves the origin (`FreeRing`); every
other step is calm. `NoneTakenTwice` (`TakenOnce`) and `FateKnown` (`FrameFate`) use `CountInv`
and `Numbered`: frames are numbered as they arrive, and those the stack has taken, the one in
`uip_buf`, and those in the ring have increasing numbers.

### ARP: `ArpHistory_proofs`

`ArpTypeOK`, `OneEntryPerHost`, `ReachesOwner`, `FlushedUnlessWrapped` and `OldestReplaced`, for
any number of entries, hosts and ticks; `OneEntryPerHost` and `ReachesOwner` of hosts whose
address has no zero half. `ArpInv` joins them and two facts that make them
inductive: `Current` (the entry of a local host holds its latest address, which is what the
next frame is built from) and `ClockTells` (an entry in use has the age the clock tells,
below the maximum, or its time runs out beyond the wrap). `PlaceKnown` is the heart of
`OneEntryPerHost`: a host that has an entry keeps its slot. `OldestReplaced` looks at the one
step that takes a slot away.

### Aging tables: `Tables_proofs`

`NewestFound` (`LookupNewest`) is not inductive: when the first of two entries of an address
is replaced the other is found. `OneNewest` says in addition that an address that is not
`doubled` has one entry.

`TtlAlwaysFalls` (`TtlFalls`), for every width of the time to live, follows from what
`uip_fw_forward()` puts out in each of its cases.

`NothingForwardedTwice` (`ForwardsOnce`): the invariant `History` relates the cache, which forgets
which entry came first, to the record of what was registered. There is a map `w` from
entries in use to places in the record: an entry tells the packet at its place, no two the
same, an entry whose packet fell out of the record is not younger than what is left of it,
and a packet younger than `FW_TIME` is told by an entry unless all entries are in use and
none is older. `RegisterHistory` shows this for `fwcache_register()`, where the choice of
the entry to replace matters: the oldest, so that what is forgotten is older than what is
kept. `RememberedIsCached` counts: if a packet were told by no entry, `w` would map
`FWCACHE_SIZE` entries one to one into fewer places.

### Numbers in few bits: `Arithmetic_proofs`

* `EstimateIsExact` (`RttExact`) assumes `ShortTrips`, which is needed (`MCParts_slow.cfg`): `RttInv` bounds `sa` by `8 * MaxRtt` and `sv` by
  `4 * MaxRtt + 3` (or its start), and says that `timer` plus the age of the segment is `rto`
  while it was sent once; `EstimateExact` shows that then none of the six conversions of
  the estimator changes its argument.
* `ScheduleKept` (`Schedule`), for any intervals and widths: `TimerInv` says that `start` is the
  last due time modulo the clock, that a timer was looked at no more than a lag ago, and
  that a torn read is one tick's carry away from a tick just passed. The signed
  difference is then the true one.
* `SequenceNumbersCount` (`Add32Exact`): the carries of `uip_add32()` byte by byte make the sum of
  whole numbers modulo 2^32, for any base.
* `SumIsOnesComplement` (`OnesComplement`): `OneSum` says that the running sum differs from the
  sum of the words so far by a multiple of `Word - 1` and is zero only with it, which is what
  an addition with end-around carry preserves. That the sum of the words is what the
  definition says, for every length, is an induction over the message.
* `EchoKept` (`EchoKeepsChecksum`): the reply's sum differs from the request's in two words, whose
  changes cancel; `SameTail` is the lemma about the others.
* `DatagramUnmixed` (`ReassUnmixed`) and `CompleteAtOnce` (`ReassPrompt`): `MarkedIsOwners` says that
  the bytes of a marked unit are of the datagram whose header is in the buffer, `EndIsOwners`
  the same of a last piece that is shorter than a unit, which the bitmap does not tell. The bytes
  of the one bitmap byte that the code's loop leaves out (`uip/uip.c:636`) are excepted, and all
  is said until a fragment is first written outside of the buffer (`overran`). `UnitInBitmap`
  is the lemma that what is marked before that is inside the bitmap. `CompleteCovers` and `AllThere` are the two directions of the code's test for completeness.
* `PartsTypeCorrect` (`PartsTypeOK`): a behaviour of `MCParts`, which steps one component at a
  time, is a behaviour of each (`PartsAreParts`), so their type invariants hold side by side.
  Those of the estimator and of the sums follow from the invariants above, since "the
  result is exact" is what keeps it inside its field.

### Lemmas about numbers: `Numbers_proofs`

The prover has no induction rule that it can instantiate, but a set of numbers has a least
element (`LeastNumber`, from the well-foundedness of `<`), so a property, given as the set of
numbers that have it, holds of all numbers from `a` to `b` if it holds of `a` and passes
from each to the next (`FromTo`). The proofs about the ring, the checksum and the cache use
this. So do the sums of a script's messages: a function that is defined by its own
values exists (`SumsExist`), and two whose terms agree agree (`SumsAgree`). The other lemmas are about quotients and remainders by a positive constant, which
arithmetic solvers do not treat when it is not a literal.

### Only model-checked

Every invariant and action property of the passing runs is stated by a theorem. What stays with
TLC is liveness under fairness, which is out of the prover's reach: `NoHalfOpen` (`server`),
`Settles` (`settle`), `PendingEnds` and `Drains` (`node`).

## Not modelled

* UDP, IPv6, broadcast reception, ping address configuration: compiled out
  (`uip/uip-conf.h`), so their branches of `uip_process()` are not in the program.
* `uip/uiplib.c` (`uiplib_ipaddrconv`): a function of a string that nothing calls.
* `uart.c`, `log.c`, `delay.c`: output and busy waiting, no state that others read.
* MAC, PHY and SPI set-up: constants written once at start.
* `uip/lc-addrlabels.h`, `PSOCK_WAIT_UNTIL`, `PSOCK_WAIT_THREAD`, `PSOCK_EXIT`,
  `timer_restart()`: used by nothing.
* The build rules: read for what is compiled in. (In Bazel's sandbox the `timer.h` that
  `uip/clock-arch.c` includes must be the one of the root directory.)
* Frames longer than `uip_buf`: `enc28j60_rx_packet_receive()` does not look at its `max_size`
  argument; the models take frames that fit.

`map` names the lines of every definition that stands for code, except helpers of a line or two
that are covered by the definitions using them.

## Plan

All modules of the plan are written: `UipTcp`, `TcpSession`, `UipTcpSession`; `ByteStream`,
`TcpLink`; `ArpTable`, `ArpHistory`; `Enc28j60`, `FrameQueue`, `MainLoop`; `SysTimer`; `RttEst`,
`Checksum`, `Reassembly`, `Neighbor`, `Forward`; `Psock`, `HelloWorld`.

Every safety property that a passing run checks is proved as well. What is left:

* The liveness properties, for more than the instances that TLC goes through.
* Hypotheses that could be weaker: scripts that read more than once (`OneRead`), lines longer
  than the buffer (`LineFits`). Both need a description of what `psock_readto()` leaves of the
  segment, which the runs do not ask for.
* The hazards that no passing property covers, because the code does not keep what a property
  would say, or promises nothing: those of the table in the findings, an idle client that
  vanishes, and overlapping transmissions (see `hazards` in `PROJECT.json`).
