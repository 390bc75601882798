# LiteEth in TLA+

Specifications of LiteEth's gateware (`src/liteeth/`), the TLC configurations that
model-check them and the TLAPS proofs of what matters most. Source paths below are
relative to `src/liteeth/` unless they start with `src/`.

LiteEth is synchronous hardware written in Migen: every component is a set of registers
clocked together, joined by combinational wires, most of them `valid`/`ready` streams.
Migen and LiteX (`FSM`, `WaitTimer`, `stream.SyncFIFO`, `Packetizer`, `Depacketizer`,
`PacketFIFO`, `Arbiter`, `Dispatcher`) are not in the repository: they are modelled from
how this code uses them and marked external in `PROJECT.json`, as are the FPGA's
transceivers and I/O cells, the link partner and the hosts.

Contents: [inventory](#inventory) · [plan](#plan) · [modules](#modules-and-code) ·
[runs](#runs) · [bounds](#bounds) · [fairness](#fairness) · [proofs](#proofs) ·
[findings](#findings) · [limits](#what-is-not-modelled)

## Inventory

The datapath, top to bottom. `→` is a stream; each crossing has `valid`, `ready`, `last`.

```
 Wishbone ── Etherbone ──┐
 user streams ─ UDP streamer ─ UDP crossbar ─ UDP ─┐
                                          ICMP ────┤ IP crossbar ─ IP ─┐
                                                                 ARP ──┤ MAC crossbar ┐
 CPU ── Wishbone interface (SRAM writer/reader) ───────────────────────┴── hybrid MAC ┴─ MAC core ─ PHY
```

| component | state it keeps | operations | interacts with | hard part | correct when |
|---|---|---|---|---|---|
| ARP (`core/arp.py`) | one cache entry with its age; the request being retried: pending flag, address, counter, timer; receiver and transmitter FSMs | receive a request or a reply, send either, look up, retry, give up | IP transmitter (request/response), MAC port, its own receiver and transmitter over plain wires | three asynchronous actors (requester, network, timers) meet in one FSM whose registers are updated outside it; the addresses of a reply are wires, not registers | a waiting packet is answered, and with the address of its destination; what is sent is about the packet or the asker it is for |
| IP transmitter (`core/ip.py`) | FSM, `target_mac`, checksum accumulator and its counter | sum the header, resolve, send, drop | user of UDP/ICMP, ARP table, MAC port | a sum reset only by the last word that leaves; a failure signalled in a cycle of its own | the packet leaves with its own checksum, to the right host, or is dropped |
| IP receiver, UDP, ICMP (`core/ip.py`, `udp.py`, `icmp.py`) | one FSM per layer (`IDLE`, `RECEIVE`, `DROP`), a payload counter, the echo buffer | accept or drop by header, cut to length, echo | MAC port, crossbars, users, ARP table | headers are combinational next to payload words; no layer keeps a byte, so whoever stalls holds all behind him; an answer may wait for an ARP reply that stands behind the next request | each datagram is delivered whole and once, each request is echoed to its sender, and the chain never stops for good |
| Crossbars (`crossbar.py`, `core/ip.py`, `core/udp.py`, `mac/common.py`) | grant, selection, width converters | arbitrate by packet, dispatch by field | every layer | a packet for which no port is selected; fairness | packets are not interleaved, each goes to one port |
| MAC core (`mac/core.py`, `crc.py`, `preamble.py`, `padding.py`, `gap.py`, `last_be.py`) | per stage: FSM, byte counter, CRC register, small FIFO; clock-domain FIFOs | frame and unframe | PHY, hybrid MAC | back-pressure in the middle of a frame, short frames, errors found only at the last byte | what leaves is a frame; what comes in is delivered without its framing, with its error mark |
| SRAM writer (`mac/sram.py`) | FSM, byte counter, slot number, slot memories, status FIFO, error counter, time stamp | store a packet, discard it, announce it, release a slot | MAC core (cannot be held back), software (releases at any time) | ring of slots and FIFO of announcements must stay in step over errors and overruns | a packet software was told of is intact until released |
| SRAM reader (`mac/sram.py`) | FSM, command FIFO, read address, length, level, done event | start, send, report | software, MAC core | length arithmetic, a command FIFO that is full, pulse events | every start accepted is sent once, whole, and reported |
| Hybrid MAC (`mac/__init__.py`, `mac/wishbone.py`) | transmit arbiter FSM, receive filter | merge CPU and stack, broadcast | MAC core, SRAM, stack | fixed priority; the broadcast moves only when both sides can | no side stops the other, frames stay whole |
| Etherbone (`frontend/etherbone.py`) | packet receiver, probe, record receiver, bus master, record sender FSMs; two packet FIFOs; saved IP address; shared `count` and `base_addr` | answer a probe, perform a record's writes and reads, send reads back; in slave mode, turn bus cycles into records | UDP port, Wishbone bus | six FSMs coupled through bounded FIFOs and one arbiter; registers without reset shared by consecutive records | the bus does what was asked, in order and once; answers are whole and go to the asker; nothing waits in a circle |
| UDP streamer (`frontend/stream.py`) | FIFO, latched level, counter | packetize a stream, receive one | user, UDP port | level latched while the FIFO still fills; a full receive FIFO | the length announced is the length sent |
| PCS (`phy/pcs_1000basex.py`) | transmit and receive FSMs, parity, autonegotiation FSM, timers | encode, decode, negotiate, repeat and sample bytes at 10 and 100 Mb/s | transceiver, the station at the other end | two ends restart independently; ordered sets must keep to even code groups; sender and receiver count repetitions on their own | both ends end in the data state; bytes come out as they went in |
| Transceiver initialisation (`phy/a7_gtp.py`, `phy/*_1000basex.py`) | power-up FSMs and timers, a copy of DRP register 0x011, CDR lock counter, the gearbox's two halves | reset sequence, restart, width conversion | FPGA primitives, PCS | a restart in the middle of read, modify and restore | the sequence ends, restarts, and leaves the register as configured |
| Other PHYs (`phy/mii.py`, `rmii.py`, `gmii.py`, `gmii_mii.py`, `*rgmii.py`, `common.py`) | nibble and dibit counters, last registers, mode detection | width conversion, I/O, choice between MII and GMII | pins | RMII's `crs_dv` falls and toggles before the data end; a receiver is released, or a mode changes, in the middle of a frame; a clock is counted at one speed and judged at another | a frame comes out whole and ends with its last byte; the mode is the chip's |
| `common.py`, `gen.py`, `software/`, benches and tests | none at run time | layouts, elaboration, MDIO decoding | | | |

What is hard to test in each is listed line by line under `hazards` in `PROJECT.json`,
with the properties that cover it or the reason why none does yet.

## Plan

Order of work; all eight are done.

1. **Address resolution** - `Addresses`, `ArpTable`, `IpTx`, composed cycle by cycle in
   `ArpSystem`: every packet the core sends goes through it. *Checked and proved.*
2. **Receive slots** - `SramWriter`: the border between a wire that cannot wait and
   software. *Checked and proved.*
3. **Etherbone** - `EtherboneServer` (abstract), `Etherbone` in master and slave mode.
   *Checked; safety and refinement proved.*
4. **Framing** - `EthFrame` (the shape of a frame), `FrameChannel` (abstract), `MacTx`: SRAM
   reader, transmit arbiter of the hybrid MAC and the core's transmit stages; `MacRx`: the
   core's receive stages. *Checked; safety and refinement proved.*
5. **The stack** - `RxPath`: MAC filter, crossbars, ARP, IP, UDP and ICMP receivers, the
   streamer's receiver; `TxPath`: echo buffer, ICMP, UDP, streamer and IP transmitters and
   the IP layer's arbiter; composed in `IpStack`. *Checked; all but liveness proved.*
6. **PCS and transceivers** - `PcsCoding`: the two paths of one end; `PcsLink`: negotiation,
   watch on the line, transceiver start-up, and a link partner. *Checked; all but
   liveness proved.*
7. **Pins** - `PinPhys`: the PHYs without a PCS, and the gearbox. *Checked and proved.*
8. **A station's physical layer** - `PhyLink`: 6 or 7, as the core is generated.

Every invariant the runs check is proved; what is left to TLC is liveness.
Modules are written without `RECURSIVE` operators, with named assumptions on their constants
and invariants split into named parts, so that proofs can follow.

## Modules and code

| module | models | state ↔ code |
|---|---|---|
| `Addresses` | - | IP and MAC addresses as values that are only stored and compared |
| `ArpTable` | `LiteEthARPTable` | `tableState`: the FSM; `request_*`, `cached_*`: the registers of the same names; timers as LiteX's `WaitTimer` |
| `IpTx` | `LiteEthIPTX`, `LiteEthIPV4Checksum` | `ipState`: the FSM; `packet_ip`: `sink.ip_address` of the packet offered, zero when `sink.valid` is low; `checksum`: the checksum's counter |
| `ArpSystem` | `LiteEthARPRX`, `LiteEthARPTX`, `LiteEthARP`, the network | `rxState`, `rxHeader`: receiver and its depacketizer's header; `txState`, `txCounter`, `txFrame`: transmitter, its word counter and the header its packetizers hold |
| `SramWriter` | `LiteEthMACSRAMWriter`, the wire, the software | registers and FSM by name; `stat`: the status FIFO; `mem[s][w]`: the packet that word `w` of slot `s` belongs to; `joined`: history, did a packet of one word come just before? |
| `EtherboneServer` | - | what the bridge promises: accesses to do, answers owed, what is put on the bus and sent |
| `Etherbone` | `LiteEthEtherbonePacketRX`, `...Probe`, `...Record`, `...RecordReceiver`, `...WishboneMaster`, `...WishboneSlave`, `...RecordSender`, arbiter | one state variable per FSM; `rxFifo`, `txFifo`: the two `PacketFIFO`s, as words that know their record and their place in it; `mode`: master or slave, fixed at generation; `access`: the bus cycle the slave serves; `asked`, `lost`: its datagrams on the network |
| `EthFrame` | the frame format of `mac/core.py`'s stages | a byte is the frame it is of and its place in it; the CRC is what it covers |
| `FrameChannel` | - | what the transmit side promises: frames owed by sender, the frame sent |
| `MacTx` | `LiteEthMACSRAMReader`, `LiteEthMACTXLastBE`, the arbiter of `LiteEthMACCoreCrossbar`, `LiteEthMACPaddingInserter`, `...CRCInserter`, `...PreambleInserter`, `LiteEthMACGap` | one state variable per FSM; `cmd`, `stat`: the reader's FIFOs; `mux`: the converter's byte; `cdc`: the clock domain crossing; `buf`: the buffer before the CRC; `wire`: what the PHY took since the last gap; `owed`: history |
| `MacRx` | `LiteEthMACPreambleChecker`, the buffer, `LiteEthMACCRCChecker` | `preamble`, `state`: the FSMs; `fifo`: the bytes held back; `crc`: the bytes the register covers; `out`, `delivered`, `verdict`: what was observed on the source and the error wires |
| `RxPath` | receive half of `LiteEthMACCoreCrossbar` with `hw_mac`, `LiteEthARPRX`, `LiteEthIPRX`, `LiteEthIPV4Checksum`'s wait, `LiteEthUDPRX`, `LiteEthICMPRX`, `LiteEthUDP2StreamRX`, dispatchers | a beat is `<< frame, beat >>`; `hw_fifo`, `cpu_fifo`: the filter's FIFOs; one variable per FSM; `mac`, `core`: what was generated; `*Got`: history |
| `TxPath` | `LiteEthICMPEcho`, `LiteEthICMPTX`, `LiteEthStream2UDPTX`, `LiteEthUDPTX`, the IP crossbar's arbiter, `LiteEthIPTX` | `echo`: the `PacketFIFO`'s two halves; `tx_fifo`, `level`, `counter`; `grant`; `wire`: the packet on its way to the MAC; `sent`: history |
| `IpStack` | `LiteEthUDPIPCore` with a streamer | both paths in one clock cycle; they meet in the echo buffer and in the ARP table's answer |
| `PcsCoding` | `PCSSGMIITimer`, `TransmitPath`, `ReceivePath` | a record of registers per end; code groups are named, 8b/10b is external |
| `PcsLink` | `PCS`, `GTPTxInit`, `GTPRxInit`, the wrappers' restart, reset and CDR logic; a link partner | `an`, `heard`: the negotiation's registers in the transmit and receive clock; `xcvr`: the transceiver's; `peer`: external |
| `PinPhys` | the transmitters and receivers of `mii.py`, `rmii.py`, `gmii.py`, `gmii_mii.py`, `model.py` and five `*rgmii.py`, `LiteEthGMIIMIIModeDetection`, `LiteEthPHYHWReset`, `Gearbox` | `kind`: the PHY; `send`: the transmitter's converter; `wire`: what was on the pads; `recv`: the receiver's registers; `detect`: the mode detection's |
| `PhyLink` | a core's one PHY | `layer`: PCS or pins |
| `MCArpSystem`, `MCEtherbone`, `MCMacRx`, `MCIpStack`, `MCPhyLink` | - | values of the constants for TLC |
| `ArpSystemProofs`, `SramWriterProofs`, `EtherboneProofs`, `MacTxProofs`, `MacRxProofs`, `IpStackProofs`, `PhyLinkProofs` | - | theorems about the module they are named for |
| `SetInduction` | - | induction over the naturals and over sequences, for predicates given as sets |

**Time.** In `ArpSystem` and `SramWriter` a step is one clock cycle of *every* component:
`Cycle` conjoins one tick of each, and wires between them are operators passed as
arguments, so that "in the same cycle" means what it means in the code. There is one
action per FSM state; the registers beside the FSM (`RequestPending`, `RequestCounter`,
`Cache`...) have an operator each, clocked in every state. That is where the hazards are:
a cycle in which two of them disagree. `Etherbone` is joined by `valid`/`ready` streams,
where a component can be held for any number of cycles without anything being lost, so
there a step is one transfer or one FSM transition, in any order; it includes every
timing the hardware can have. `MacTx` has both, as it has two clocks: a `SysCycle` is one
cycle of everything before the crossing, because who wins the arbiter depends on the cycle
in which each side is valid; behind it a step is one transfer. `MacRx` is clocked: its wire
cannot be held back, so a byte that meets the wrong state in one cycle is lost. `IpStack`
is clocked because `ready` and `valid` of a whole chain of FSMs are decided within a cycle;
`PcsLink` and `PinPhys` because a line has no `ready` at all.

**Configurations** of one generator are one model with a variable that never changes (`mode`,
`mac`, `core`, `kind`, `layer`): a run checks them all.

**Data.** Words, headers and addresses are what the properties tell apart: a word is the
packet it belongs to (and its place in it). The FSM, register and early-return structure is
kept line by line; `map` in `PROJECT.json` gives the lines.

**Environment.** ARP: the user may offer any packet at any cycle and holds it until taken
(a stream's contract); the network may send any frame that hosts with honest addresses
can send, in any order and number, `other` being every frame that fails a test of ARPRX;
the MAC takes a word or not, each cycle. SRAM writer: packets come back to back or with
pauses, good or bad, too long or not, of one word or more; software may pop the FIFO in any
cycle. Etherbone:
hosts send records, probes and foreign packets without waiting for answers; the bus and
the UDP transmitter stall at will. Transmit: software writes only slots that are its own,
in any order, and gets one back by reading a status, whenever it likes; the hardware stack
offers a frame at any cycle (a pause within its frame has the effect of a full crossing);
the PHY takes a byte or not. Receive: the PHY brings whole frames, frames with a byte
changed or with most of the preamble missing, frames cut at any interesting place, and
noise, with at least one silent cycle between two, as `rx_dv` falls; what takes the frames
may stall for a cycle, three times. Stack: in every cycle one participant may be idle - the line,
the CPU, the MAC, either user - or none; over a run, that is every order of their stalls.
The application writes to the streamer at any cycle; the ARP table answers at once if it
knows the address, else when the reply comes or after `ResolveTime`. Etherbone slave: the
bus reads and writes at any time; a datagram arrives or is lost; nobody sends an answer that
was not asked for. PCS: the partner negotiates as the PCS's code expects and may restart at
any cycle; the line may be cut for a while in both directions, or for good in the one
towards the PCS (`deaf`). Pins: the receiving station leaves reset at any point of the
traffic, RMII chips hold back some dibits and toggle `crs_dv` meanwhile, a GMII/MII chip
changes its speed at any cycle, the transceivers deliver the gearbox's pairs at either
phase of the half clock.

## Runs

| run | specification | checks | expected |
|---|---|---|---|
| `arp` | `MCArpSystem`, `ArpSystem.cfg` | eight properties of resolution, below | pass (43 063 states) |
| `arp_hang` | same, `ArpHang.cfg` | `Resolves` | violated |
| `arp_late_reply` | same with `LateReply = TRUE`, `ArpLateReply.cfg` | `ReplyToAsker` | violated |
| `sram_writer` | `SramWriter`, `SramWriter.cfg` | four properties of the slots | pass (1 602 208 states) |
| `sram_overrun` | same, `SramOverrun.cfg` | `Intact` | violated |
| `etherbone` | `MCEtherbone`, `Etherbone.cfg` | type, address, refinement, the slave's reads, progress | pass (66 400 states) |
| `etherbone_mixed` | same with records of both parts, `EtherboneMixed.cfg` | `ServesRecords` | violated |
| `mac_tx` | `MacTx`, `MacTx.cfg` | slots, time stamps, refinement, progress | pass (110 028 states) |
| `mac_rx` | `MCMacRx`, `MacRx.cfg` | frames delivered, bursts judged | pass (76 265 states) |
| `mac_rx_runt` | same with a one-byte burst, `MacRxRunt.cfg` | `GoodWhenCrcOk` | violated |
| `ip_stack` | `MCIpStack`, `IpStack.cfg` | delivery, CPU copies, echo, streamer, progress | pass (199 000 states) |
| `phy` | `MCPhyLink`, `PhyLink.cfg` | link, frames on line and pins, mode, DRP register | pass (407 880 states) |

`arp` shows, over every interleaving of user, table, timers, network and MAC:

- `PresentedToWaiter`: a response always meets a requester in `WAIT_MAC_ADDRESS_RESPONSE`.
  `PRESENT_RESPONSE` has no other exit, so one stray response would stop ARP for good.
- `RetryForWaiter`, `AsksForWaiter`: the pending flag and the request on the wire are
  about the packet that waits, never one already served or given up.
- `UnicastToOwner`: a packet goes to its destination's MAC address unless the table had
  run out of requests. The exception is the code's: it then presents the cache register.
- `FailureNeverSeen`: `response.failed` is a wire of a counter that is reset one cycle
  before `response.valid` rises, so the transmitter's `DROP` state is never entered. (Were
  it entered, the next packet would leave with words of the dropped one in its sum: only the
  last word that leaves resets the checksum, `core/ip.py:107`.)
- `ReplyToAsker`, as long as no frame arrives while a reply waits for the wire.
- `ResolvesUnlessAbandoned`: every waiting packet is sent in the end, except in the one
  situation that `arp_hang` exhibits.

`sram_writer` shows what software can rely on, for packets of any number of words. One of a
single word is real: the CRC checker hands on a runt of five to eight bytes behind the
delimiter as one to four, with an error (`mac/crc.py:258-274`), and the padding checker
passes everything on. `IDLE` looks at neither `last` nor `error` (`mac/sram.py:80-92`), so
such a packet does not end: the next one goes on in `WRITE` where it stopped, behind it in
its slot, under its time stamp and with the lengths of both; and its error is lost. (If the
FIFO is full, `DISCARD_REMAINING` takes the next packet with it in the same way.) `joined`
marks what this happens to; an invariant without the exception fails after three words. What
holds then is:

- `StoredIsAnnounced`: a stored packet always finds room for its announcement, though
  `TERMINATE` does not look.
- `AnnouncedIsGood`: an announcement with a length is of a good packet with its own time
  stamp. A packet of one word spoils the one right behind it and none after: that one has the
  stamp of its predecessor, and is announced in spite of an error only if the count met
  `eth_mtu` (1530 bytes), which takes a word of two bytes in front.
- `IntactBeforeOverrun`: as long as no packet was dropped for want of a slot, announced
  packets stay intact, next to joined ones too: the ring and the FIFO of announcements stay in
  step over errors and releases, so the slot being written is never one software holds. What
  is in the slot of a joined packet is not promised, as its words lie behind the other one's.

`etherbone` shows that the six FSMs and two FIFOs implement `EtherboneServer`
(`ServesRecords`): `todo` is read off the receive FIFO, `owed` off the send FIFO and the
word between bus and sender, `bus` and `reply` are the wires themselves. A word the bus
has read, still at the FIFO's head until the sender takes it, counts as owed: exactly what
a second access, a lost word or a wrong base or count would break. `AddressedToAsker`
says that a response goes to the host of its record unless another host's record came in
meanwhile; `EveryPacketServed` that neither FIFOs, bus nor arbiter are waited for in a
circle. In slave mode `ReadReturnsAnswer` says that a read ends with the word a host
answered to this very read, whatever foreign records come in between - `WAIT_READ` takes a
word of a *write* part only, and a foreign record with addresses to read is swallowed in
`IDLE` and `WAIT_READ` alike. It rests on two things the code does not check: no host sends
writes that were not asked for, and a lost datagram is never replaced by a later answer (the
access then never ends; `WAIT_READ` has no timeout). A posted write is acknowledged once the
sender has it, whether or not it arrives. Requests go to nobody until a host's record came
in: the destination is `last_ip_address`.

`mac_tx` shows that everything from a slot of memory to the PHY implements `FrameChannel`
(`SendsFrames`): each frame leaves framed, padded, whole, once, in its sender's order. A
byte of the slot behind the length, a byte repeated by a stall, a counter left over from
the frame before, or a word of one sender within the other's frame would break it.
`EveryFrameSent` says that neither sender starves. This holds by a cycle: the arbiter
always prefers software's path, but that path is not valid in the one cycle after its last
byte, because the reader is in `END` or the last word's rest is being dropped, and that is
the cycle in which the arbiter is in `IDLE`. `SlotsAccounted` says that a slot software has
started comes back exactly once, though `END` does not look whether the status FIFO has
room, and `StampOfItsFrame` that it comes back with its own frame's time stamp.

`mac_rx` shows that no error ever hides: what is handed on without error is a frame that was
sent (`CleanFramesWereSent`), also when a stall makes the PHY's bytes be lost, a last byte
included, and two bursts run into one. The exception (`overlapped`) is a stall that outlasts
the pause between two frames. The next frame's first byte is then in the buffer in the cycle
spent in `RESET`, where `sink.ready` and `source.valid` do not look at the FSM
(`mac/crc.py:265`): a byte of the old frame goes out behind that frame's last one, and the
new frame's first byte is reset away. If the new frame is then too short to be handed on at
all, the stray byte stands in front of the frame after it, which is handed on as good.
Preamble and gap are 20 bytes of pause; nothing in the code bounds a stall. As long as
nobody stalls, each burst is judged on its own (`EveryBurstJudged`): after noise, cut and
damaged frames, and with the shortest silence and a preamble of nothing but its delimiter, a
good frame is delivered as good. The exception is a burst of one byte behind the delimiter,
which `mac_rx_runt` exhibits.

`ip_stack` shows, for frames of fifteen kinds in pairs and triples - short with padding, cut
off, longer than they say, without payload, for a foreign host, port, protocol or address,
echo requests that fit and one that does not, ARP - each followed by one that shows what it
left behind:

- `DeliveredIntact`: each user gets exactly the payloads meant for it, cut to the UDP length,
  in order and once, also while all of them stall. (A datagram of length 0 delivers the
  padding: the count never meets `length - 1`. The property says so.)
- `CpuCopies`: with the MAC filter the CPU gets every frame not for `hw_mac`, whole, although
  a beat moves into both FIFOs or into neither.
- `EchoAnswers`: each reply goes to its requester with all its bytes and a checksum made good
  for the change of type. Bytes and parameters cross in two FIFOs, and a request may come in
  while an answer leaves. (`ICMPRX` does not look at the type: every ICMP packet is echoed.)
- `StreamInOrder`: the streamer's bytes go out in order, and each datagram's header tells its
  length though the level is latched while the FIFO fills.
- `AllServed`: nothing waits in a circle. The case that looks like one: the answer to a request
  waits for an ARP reply that stands behind a second request, which waits for the buffer the
  answer occupies. It ends when the ARP table's retries are spent. The exception is an echo
  request larger than the buffer: it blocks all reception for good.

`phy` shows of a 1000BASE-X or SGMII link:

- `LinkStaysUp`: after power-up and after a restart or a cut at any cycle, of the negotiation,
  a frame or a transceiver reset, both ends come up and stay up. A line lost towards the PCS
  only is the exception (`deaf`): one end restarts, the other one hears valid ordered sets and
  stays, and `AUTONEG_WAIT_ACK` and `RUNNING` have no timeout while the line is alive.
- `NoHalfUp`: the PCS does not go on with a partner that has not seen its ability, though its
  own match may be older than the partner's restart. This rests on the partner sending empty
  registers for longer than `more_ack_timer` runs (26 against 16 cycles in the model). The code
  has 10 ms for the timer; a 1000BASE-X partner's link timer is 10 to 20 ms, an SGMII one's
  1.6 ms. With a break of 12 cycles both this property and `LinkStaysUp` fail, so with an
  SGMII partner that restarts just then the code's timer is too long for them. *Proved*, for
  the breaks `EnoughBreak` names: 6 cycles more than `more_ack_timer`, 22 here; at 21 TLC finds
  the property violated.
- `BytesAsSent`: frames come out byte for byte, `last` with the last one, at each of the three
  speeds, where a byte is repeated 1, 10 or 100 times by one timer and sampled by another.
  (The first byte comes out as 0x55 at 1 Gb/s, where /S/ took its place; at lower speeds as it
  was sent.) A frame is followed if both ends are up when its first byte is taken; one that was
  cut short by a restart is not, since its rest may have no first byte. *Proved.*
- `CommaOnEven`: over frames of either parity, configuration and resets, every code group that
  opens an ordered set is on an even place. *Proved.*
- `DrpRestored`: a restart in the middle of the DRP sequence never leaves register 0x011 with
  the bit cleared. *Proved.* It holds because a restart is looked at in `DONE` only.

and of each of the ten PHYs without a PCS and of the gearbox:

- `FramesIntact`: once a frame begins on a receiver out of reset, it comes out whole, with `last`
  on its last byte, whatever was on the wire before: half a frame, a frame whose chip toggled
  `crs_dv`, a change of mode. For RMII this needs the MAC's gap: 9 cycles without a byte
  (`MinGap`) are enough for a chip that holds back 3 dibits, 6 are not; the MAC leaves 12. A
  frame during which the mode changes is exempted: MII's transmit converter may be left half way.
  *Proved*, for the gaps and delays `EnoughGap` names.
- `ModeFollowsClock`: when the chip's speed has been the same for four ticks, the mode is the
  chip's, though a count may have begun at one speed and ended at the other. *Proved.*

What the code does and the model keeps, though no property is about it: the configuration
register's `~is_sgmii << 5` is inverted at the width of the register, so every bit from 6 on,
the acknowledge bit among them, is always set (`PcsLink!ConfigReg`); a packet of one word is
joined to the next in the receive slots (above; `SramWriter!Idle`); the transmit path in
`START` during configuration discards the MAC's bytes; the first check after a reset of the
transmit side always says that the line is lost (`PcsLink!AnReset`); two ends both built from
this code, with `fsm_inited` low, would wait for each other's configuration for ever; right
after a reset the gearbox delivers two groups that were not sent.

Each property is also checked to fail when one line of the model is changed the
way a plausible bug would (`mutants`, the operators marked `Fault`).

## Bounds

| constant | value | why it is enough |
|---|---|---|
| `IPs` | two hosts, one group | an address and a different one; the multicast branch |
| `MaxRequests` | 3 | first request, one retry, the limit |
| `RequestTime`, `CacheTime` | 1, 9 | retries and expiry both happen within a resolution and in either order; longer times only add waiting |
| `ChecksumCycles`, `TxWords` | 1, 2 | a sum not finished when the packet is offered; a frame with a first and a last word |
| `NSlots`, `Depth` | 2, 2 words | the ring wraps; `MTU` = 10 keeps `MTU % 4 = 2`, as 1530 does |
| `MaxBeats`, `LastBytes` | 4, {2, 4} | packets of one word, that fit, and longer than a slot, that end with a word or within one; 2 + 4 + 4 bytes of two joined packets meet `MTU` and leave a word to discard |
| `MaxErrors` | 1 | a packet met by a full FIFO moves the ring without an entry; more of them only add to that |
| `Ids` (writer) | 4 | more than the packets whose words can be in memory and FIFO at once need to be told apart |
| `FifoDepth` | 3 (4 for mixed records) | a record of two words and its base just fits, the limit of a `PacketFIFO` |
| `ParamDepth` | 1 | `param_depth` of the code |
| `PreambleLength`, `CrcLength`, `GapLength` | 2, 2, 1 | a first and a last byte of each; the gap's counter compares with its end only |
| `MinLength`, `CpuSizes`, `HwSizes` | 3, {2, 3}, {3} (`MacTx`) | frames one short of the padding limit and at it; with `WordBytes` = 2, frames that end with a word and within one. Runs with limits up to 4 and frames beyond them showed nothing else |
| `NSlots`, `Depth`, `Tags` (`MacTx`) | 2, 1, 2 | one slot being sent and one waiting; a crossing that is full as often as possible; two successive frames of a sender are told apart |
| `Bursts`, `MaxStalls` (`MacRx`) | nine (`MCMacRx`), 3 | one of each kind of debris the checkers can tell apart; three stalls can outlast the pause between two bursts, so that a byte of one meets the next in the buffer |
| `LengthRange`, `CountRange` (`MacTx`) | 8, 8 | powers of two above every length there is, as 2048 and 65536 are: what is cut to its width is shown to lose nothing |
| `Ids` (Etherbone) | 2 (3 for mixed records) | a `PacketFIFO` holds one whole packet, so the record performed and the one coming in are told apart; 3 adds the one being answered |
| `Scripts` (`IpStack`) | 26 (`MCScripts`) | every kind of frame, then a datagram for the other port; those that could leave something behind, then an echo request or a datagram for the streamer; two requests and the ARP reply the first one's answer waits for |
| `MacFifoDepth`, `RxFifoDepth`, `TxFifoDepth` | 2, 1, 2 | each FIFO is full, empty and in between; the level latched (`SendLevel` = 1) is passed while a datagram goes out |
| `EchoDepth`, `ParamDepth` | 3, 1 | a request just fits, two do not; `param_depth` of the code |
| `ChecksumCycles`, `ResolveTime`, `MaxWritten` | 1, 4, 2 | a checksum not done when the beat is there; replies before and after the table gives up; two datagrams, or one of two bytes |
| checksums of echo requests | 63487, 63488 | the last one without a carry, the first with one |
| `Reload100`, `Reload10` | 1, 2 | repeat twice, three times: the timers compare with zero and reload. Abilities are a 1000BASE-X one and one for each of SGMII's three speeds, which are told from each other by the repetition |
| `CheckPeriod`, `MoreAckTime`, `LinkTime`, `CutTime` | 14, 16, 26, 20 | 6 and 10 ms of the code, in the same order; a frame at 10 Mb/s is shorter than a check, as it is in the code (1.2 ms); the partner's break is longer than both (see `NoHalfUp`); a cut lasts longer than a check and shorter than two negotiations |
| `CrossTime`, `CdrLockTime` | 3, 3 | a restart reaches the receiver's FSM in every state of it |
| `MaxFaults` | 1 | a fault at any cycle; two (for a `gtp`, a restart and a cut) showed nothing else and take too long |
| `FrameSize` | 3 | at each of the lengths 1 to 3: /T/ on both parities |
| `FrameBytes`, `MinGap`, `WireDelay` | 3, 9, 3 | a first, a middle and a last byte; see `FramesIntact`; an RMII chip's elasticity short of a byte, so that it ends within one |
| `TickCycles`, `MiiRatio`, `MaxSpeedChanges` | 4, 5, 2 | counts of 4 and 20 against the threshold 4 (1024, 5120 against 1075); there and back |
| `HwResetCycles` | 4 | as long as any converter's period: the receiver is released at each place of a byte |

`Nat` counters are bounded by the FSMs themselves; the only state constraints are two
guards, `errors < MaxErrors` in `Idle`, on a counter that nothing reads, and
`stalls < MaxStalls` in `Receive`. The theorems hold for all values their
modules' named assumptions allow; they depend on none of these.

Modelling assumptions worth knowing: the SRAM writer's wire has a free cycle after each
packet (preamble, CRC and gap leave more; `OnWire`); Etherbone records fit the FIFO
(`EtherboneAssumption`; nothing in the code checks it, see the hazards) and are well
formed; hosts announce their own addresses in ARP; a frame in a transmit slot has at least
one word (`MacTxAssumption`: `length - 4` has no sign, so for a length of 1 to 3 the reader
would never find its last word); 10 Mb/s repeats a byte no less often than 100 Mb/s
(`CodingAssumption`, 99 and 9 in the code) and the bytes of a frame, which are told by their
place in it, are bytes (`LinkAssumption`); and the CRC is ideal: no two byte sequences share one.

## Fairness

`ArpSystem!Fairness`: the clock runs (`WF Next`); the MAC takes ARP words, the IP packet's
last word is taken, a frame being received ends (weak fairness each: streams are not held
for ever by the layers below). Two strong conditions say that the network is not
adversarially timed: a reply waiting in the table does not meet a new frame in the cycle
after *every* one sent, nor does *every* last request. Without them frames for us could
keep the table from `IDLE`'s lower-priority branches for ever; nothing in the code rules
that out, and no real network does it. `arp_hang` is violated under the same fairness, by
a single unlucky cycle.

`Etherbone!Fairness`: each stage is clocked; the bus acknowledges; UDP takes words; the
arbiter is round-robin, hence strong fairness of each grant. The network need not send.

`MacTx!Fairness`: both clocks run, and the PHY takes a byte again and again. The transmit
stages share one weak fairness condition: each of them can only move a bounded number of
times without the others.

`RxAnswer`, in slave mode, is fair: a read that a host has got is answered, or is lost.

`IpStack!Spec`: again and again a cycle comes in which nobody is idle (`WF Cycle("nobody")`):
line, MAC, CPU and users do not stop for good, which is what streams ask of their ends.

`PhyLink!Spec`: the clock runs. Frames need not be offered.

`SramWriter` and `MacRx` have no liveness property: they never wait for anyone.

## Proofs

`tlapm` checks every step. Backends: Z3, Zenon, LS4.

**`ArpSystemProofs`** - for all address sets, timer lengths, `MaxRequests > 1`,
`TxWords > 1` and either value of `LateReply`: `ResolutionSafe` (`ResolutionInv` is
inductive) and from it `TypeCorrect`, `ResponseIsAwaited`, `RetriesForWaiter`,
`AsksForThePacket`, `PacketsReachOwner`, `FailureIsInvisible`.

None of the properties is inductive alone. A response meets a waiter only because the
table serves requests of a requester that is still there (`ServesRequester`), which holds
only because retries are exhausted in `IDLE` and nowhere else. The address a request asks
for is the packet's (`ServesPacket`) only if a hit on the address last asked for can only
happen when an answer to it was just stored (`NoStaleHit`): otherwise a stale
`request_ip_address` could answer a later packet. That the answer is the owner's rests on
the cache holding one host's pair (`CacheOfOneHost`), and what is on the wire on the
transmitter being active only for the table's present state (`TxForTable`). One lemma per
part shows that a cycle preserves it, given the whole of `ResolutionInv`; `TypeStep`
composes the type lemmas of the components; `RequesterStep` is the one fact about the
requester that the others share.

`ReplyGoesToAsker` is proved for `~LateReply`, that is as long as no frame comes in while a
reply waits: only then does the header register keep the asker's address (`ReplyInv`).

**`SramWriterProofs`** - for any number and size of slots, any MTU that is no number of
whole words and packets of any number of words, one included: `WriterSafe` (`WriterInv` is
inductive), `WriterTypeCorrect`, `StoredPacketAnnounced`, `AnnouncedPacketGood`. The
strengthening, `StoringInv`, ties counter, wire and FSM together: the counter of a packet
being stored is a number of whole words, so `counter == eth_mtu` is met, and the branch to
`DISCARD_REMAINING` in `WRITE` taken, only for a packet joined to one of a single word;
`PacketOfStamp` is the packet on the wire, the one whose time was latched or the one joined
to it; `TERMINATE` with a count is about that packet. One lemma per FSM state; `StatStep`,
`GoodEntries` and `RoomKept` are the facts about the FIFO they share.

`AnnouncedIntact` (`IntactBeforeOverrun`) rests on `RingInv`: until a packet has met a full
FIFO, the entries are for the slots just behind the writer's, in the ring's order, and the
packet being written is in the writer's slot. An entry that is popped leaves the front of the
ring, one that is pushed is joined to its end, and a slot that `WRITE` writes to is none of
them as long as fewer than `NSlots` are announced. It has the hypothesis `Ring`: two slots or
more. With `nrxslots = 1` the slot register has `max(log2_int(1), 1)`, one, bit, and every
second packet is for a slot that is not there (`mac/sram.py:39`).

**`MacTxProofs`** - for any number of slots and sizes of frames: `PlacesKept` (`PlacesInv`
is inductive), and from it `NoSlotLost` and `StampIsOwn`. Software's slots, the commands' and
the statuses' are all the slots, each once, so a FIFO that is as deep as there are slots has
room for whatever is pushed; the command at the head stays there until `END`, so the time
stamp latched at its start is still that of its frame when the status is pushed.

Then, for any sizes of slots, words, frames, crossing, preamble, CRC and
gap, and frames at least a word long: `FramesInPieces` (`IInv` is inductive),
`TransmitTypeCorrect` and `ImplementsChannel`, which is `SendsFrames`, the refinement of
`FrameChannel`. What the refinement needs is that all stages agree on the frames there are:

- `CpuInv`, `HwInv`: reader, converter and `last_be` are at one byte of the frame at the
  head of the commands, or the rest of its last word is being dropped; the stack's side
  presents the rest of one frame. That `last_be` ends a frame with its last byte is
  arithmetic with a register cut to `lengthbits` (`EndOfFrame`).
- `CrossingInv`: in the crossing, byte stands behind byte and frame behind frame, from where
  the padding inserter is (`ExitMark`) to where the arbiter's side is (`EntryMark`). A word of
  one sender within the other's frame would break the chain.
- `PaddedInv`, `WireInv`: padding, buffer and CRC hold the first bytes of the padded frame,
  and the PHY has got the first bytes of the framed one; the counters agree with that.
- `OwedInv`: what a sender is owed is the frames in the CRC stages, then those that begin in
  the crossing, then those whose first byte is still before it, in this order. The frames
  that begin in a sequence of bytes are defined by recursion; what a byte that enters or
  leaves makes of them (`BegunAppend`, `BegunHead`) is proved by `SeqInduct`.

A command or a frame of the stack that comes in is `HandIn`, the CRC's last byte is `Send`,
the gap's end is `Pause`; every other step leaves `owed` and `Sent` as they are.

**`MacRxProofs`** - for any set of bursts, any number of stalls and any lengths of preamble,
frames and CRC: `ReceiverTypeCorrect` (`RegisterInv` is inductive); `CleanFrameWasSent`, if a
CRC that is on the wire is a sent frame's (`Honest`: debris has no good CRC by chance);
`BurstIsJudged`, if besides no burst ends with the byte behind its delimiter (`NoRunt`,
without which `mac_rx_runt` shows it to fail). `CoverInv` says that what was handed on and
what the FIFO holds are together what the CRC register covers: so when the residue fits, the
CRC is the FIFO and the byte on the sink, and nothing but a whole frame has been handed on.
`PipeInv` follows a burst through the stages without stalls: it is before, inside or behind
its frame, and preamble, buffer, register and verdict are what its position says.

**`EtherboneProofs`** - for any hosts, records and FIFO depths they fit, if records write or
read and not both (`Unmixed`; `etherbone_mixed` shows that it is needed): `BridgeSafe` (`IInv`
is inductive), `EtherboneTypeCorrect`, `ResponseToAsker`, `ReadReturnsItsAnswer` (an action
property), `AccessIsAsked` and `ImplementsServer`, the refinement of `EtherboneServer`.
`FifoInv` says that word follows word of the same record and record follows record;
`RecordInv` and `MasterInv` that `count` and the base address, which have no reset and are
shared by all records, belong to the word at the head; `SenderInv` that a record is sent only
when it is whole; `HostInv` when the saved address is that of the records underway; `SlaveInv`
that an answer underway is the answer to the access on the bus. The refinement mapping reads
`todo` off the receive FIFO by a recursive function; `AskedByAppend` and `AskedByHead` are
its laws.

**`IpStackProofs`** - for any frames of at most 65535 bytes in any order, any depths of the FIFOs
and of the echo buffer, any level, checksum and resolution time: `RxInv` and `TxInv` are
inductive (`StackInvAlways`), and from them `DatagramsIntact` (`DeliveredIntact`),
`CpuGetsCopies` (`CpuCopies`), `StreamKeepsOrder` (`StreamInOrder`), `EchoIsAnswered`
(`EchoAnswers`) and `StackTypeCorrect`.

The receive side keeps no byte between the MAC and its users, so everything is told by one
beat: the one the stack is at (`Pos`), the head of the filter's FIFO or the beat at the MAC.
`FeedInv`: the FIFO holds consecutive beats that end just before the MAC's (`Chain`).
`StackInv`: the beat, and the frame it is of, say in which state each FSM is and what UDP's
count is (`ReceiverInv`); between two frames all are idle, whatever the frame was.
`CpuInv`, `TtyInv`, `AppInv`: what each user has got, with what still waits in its FIFO, is what
it is owed by the frames before that beat and by the part of the present one.

The transmit side is told by numbers. The streamer's bytes are numbered as they are written: a
datagram's bytes on the wire and those in the FIFO are consecutive (`StreamerInv`), those sent
before are the ones before them (`SentInv`), and a datagram that has begun finds in the FIFO
what its header has promised. The echo buffer's two halves are told by the number of the
request (`EchoInv`): the bytes in the FIFO are a chain of places from the next byte of the
answer going out to the next byte that may come in, over requests accepted only, and the
parameters are those of the requests from the next answer on. That a reply takes the
parameters of the request whose bytes it takes follows from both beginning at the number of
replies sent. One lemma per way the chain can change - a byte pushed, popped, both, or none
(`EchoPush`, `EchoPop`, `EchoStep`). `ChecksumMadeGood` is the end-around carry, for all
65536 sums.

`RxAssumption` says what the proofs need of the frames: sizes are those a 16-bit length can
have, and the UDP payload is at most 65527 bytes, as IP's length includes the header of 8.

**`PhyLinkProofs`** - for any timers, speeds, abilities, numbers and kinds of faults, frame
lengths and transceivers that the named assumptions of `PcsCoding`, `PcsLink` and `PinPhys`
allow: `CommasAligned`, `DrpAlwaysRestored`, `ModeIsTheChips`, `FramesCross` (`BytesAsSent`),
`NoHalfLink` (`NoHalfUp`), `FramesPassWhole` (`FramesIntact`) and `PhyTypeCorrect`.
`CommaOnEven` speaks of two states of
the transmit path; to be inductive it needs the parity of all the others but `DATA` and
`CARRIER_EXTEND_1` (`ParityInv`), whose parity depends on the frame's length, which is why the
exit of `CARRIER_EXTEND_1` looks at it. `DrpRestored` needs that the copy in `drpvalue` was
taken before the write that masks it, from the state after `DRP_READ_WAIT` on (`DrpInv`), and
that UltraScale transceivers, which share the record, have no such FSM. `RxInitStep` is what
the FSM may do, restarts included; `XcvrStep` what a cycle makes of the record.
`ModeFollowsClock` needs what the counter holds in the middle of a count: if the speed has not
changed since the count began, the cycles elapsed times the ratio of the clocks (`DetectInv`);
that the threshold lies between the two speeds' counts is `ThresholdBetween`.

`BytesAsSent` speaks of a frame's bytes only; its invariant is in four parts. `StepInv`: a
receiver that is inside an ordered set or a frame is at the group its transmitter sends, though
either may be reset at any moment. `PartnerInv`: the PCS has heard of nothing but the partner's
registers, so the speed it takes from the link partner's register is the speed the partner
repeats with (`ability` never changes). `ReadyInv`: the autonegotiation runs only with a
transmitter out of reset. `FrameInv` follows a frame: before its first byte both timers are at
the number of repetitions, from then on they are equal, and what came out is what was taken but
for the byte that comes out in this cycle (`Came`) - unless the receiver has just been reset
(`CutOff`), after which the PCS leaves `RUNNING` and the frame is no longer followed.
`PhyTypeCorrect` adds the ranges of the negotiation's timers (`LinkInv`) and those of the
converters, the gearbox and the mode's count for each of the eleven kinds of pins (`PinInv`).

`NoHalfUp` is a race of two timers, and its invariant, `BreakInv`, is the bookkeeping of the
cycles left until the partner's break is over. `AckWithin`: every acknowledge still on its way -
in the partner's transmitter, in the PCS's receiver, in its registers - has as many cycles to
go as it takes to reach the negotiation, and `more_ack_timer` and a restart on top of that; so
has what is left of the timer. `ToHear`: the cycles until the PCS has heard an empty register,
and so restarts from `RUNNING`, are no more than the break has left; they are longest in the
middle of a frame, which the partner's transmitter sends to its end (`MoreStep`). Both hold
whenever a break begins, whatever was going on (`BreakBegins`), because of the hypothesis
`EnoughBreak`: the break outlasts `more_ack_timer` by 6 cycles, and a frame at the slowest
speed by 8. A 1000BASE-X partner's link timer does if it is above the 10 ms it must be at least,
an SGMII one's does not (see `NoHalfUp`).
A receiver reset in the meantime only forgets what it had heard.

`FramesIntact` speaks of the end of a frame; its invariant, `PlaceInv`, of every cycle before.
`At` is the sender's place: the cycles since the first part of the frame and since its end.
Every register between the converter and the source holds what was on the wire a fixed number
of cycles before (`It`), from the first part of a followed frame on, and is silent once the
sender has been idle for as long: that is what forgets the frame before. The receiving
converters and RMII's FSM are then functions of that distance (`ConvAt`, `RmiiPlace`); the
gearbox's copy of the phase has settled by the first edge after a frame began (`GearAt`); and
`SourceAt` and `ReceivedAt` say what has come out. There is one lemma for each kind of
receiver. The hypothesis is `EnoughGap`: a gap of at least 9 cycles and of 6 more than the
RMII chip holds back, and a chip that holds back no more than a frame. The run is at its
boundary, and the gap of 12 bytes the MAC leaves (`mac/gap.py`) is well inside it.

**`SetInduction`** - the library's induction theorems take the property as an operator, which
the provers here cannot instantiate. For a property given as the set of the naturals, or of
the sequences, that have it, induction is a theorem of first-order set theory, from the
well-foundedness of `<` on `Nat`: `Least`, `NatInduct`, `SeqInduct`. That is enough for
recursive functions of the project's own; operators declared `RECURSIVE`, and `SelectSeq`,
remain out of reach, and the modules proved about have none.

Only model-checked is what is out of the provers' reach: liveness (`EveryFrameSent`,
`EveryPacketServed`, `ResolvesUnlessAbandoned`, `AllServed`, `LinkStaysUp`) and anything with
`ENABLED`.


## Findings

1. **A packet can wait for an address for ever** (`arp_hang`, `core/arp.py:211`). In the one
   cycle in which the retries are exhausted, `IDLE` first looks for a request for us; if one
   arrives in that cycle it is served, while the counter is reset and pending cleared by the
   same condition. No response follows, and `WAIT_MAC_ADDRESS_RESPONSE` has no timeout. The
   comment at `core/arp.py:209` says that retries make up for what a busy table loses.
2. **A reply can go to another host than the asker** (`arp_late_reply`, `core/arp.py:224`):
   its addresses are wires from the receiver's header register, which the next frame
   replaces while the reply waits for the MAC.
3. **An overrun can destroy a packet software was told of** (`sram_overrun`,
   `mac/sram.py:114`): a packet dropped for want of a slot still advances the ring.
4. **Records with writes and reads are not served** (`etherbone_mixed`,
   `frontend/etherbone.py:228`): the base return address is not taken from the FIFO, so it
   is read from the bus as the first address, and the last address is left to be the next
   record's base.
5. **A one-byte burst destroys the next frame** (`mac_rx_runt`, `mac/crc.py:283`): `IDLE` of
   the CRC checker does not look at `last`, so the byte stays in its FIFO and its CRC, and
   the next frame, though whole, is handed on with an error and a byte too many.

## What is not modelled

Components marked `not_modelled` in `PROJECT.json` have no state of their own at run time
(`gen.py`) or are no part of the gateware (`software/`, benches, tests and the models in
`test/`). Of the others:

- **Receive broadcast without `hw_mac`** (`mac/__init__.py:161`): `valid` and `ready` of the
  two pipes depend on each other without a register in between, so a cycle has no settled
  value to translate. With `hw_mac` there are FIFOs, and that variant is modelled.
- **The arbiter between ARP and IP** at the MAC: `ArpSystem`'s and `IpStack`'s MAC stalls stand
  for it. A UDP port's own clock domain and width converters are LiteX's.
- **The streamer with `fifo_depth = None`**: wiring.
- **K7's start-up** is LiteX's `GTXTXInit` and `GTXRXInit`; in `k7_1000basex.py:809` the former
  is not made a submodule, a fault of elaboration and no behaviour to check. What else fills
  the `*_1000basex.py` wrappers, and the CRG parts of the PHYs, are instances of FPGA primitives.
- **MDIO** (`phy/common.py`): its timing is software's. The ECP5's in-band status, whose
  clock-speed field has one bit, is only shown to software.
- **The Wishbone interface** (`mac/wishbone.py`) is address decoding.
- **Clock domains**: the PCS's two clocks run at one pace, and the speed that crosses from the
  receive to the transmit side does so in a cycle; `LiteX`'s crossings are external.
- **Data**: the contents of payloads, byte lanes and endianness, 8b/10b, the arithmetic of
  the IP header's sum, the debug and timestamp options' formatting, the core's error counters,
  and the widths other than 8 bits of the framing stages.
