# A TLA+ model of the AXI4 L1 cache and its coherent RV32 crossover

This directory holds specifications of the caches in `rtl/`, of the coherent
two-hart subsystem in `integration/rv32_coherent/`, and of the scripts in
`scripts/` that decide what counts as verified: the software model, the trace
checker and the flow that produces the evidence. TLC checks them on small
instances. TLAPS proves the safety of the coherent home, the transport, the store
buffers, both L1 caches and the trace checker for every instance.

## 1. Inventory

| Part | State it keeps | Operations | What makes it correct |
| --- | --- | --- | --- |
| `rtl/l1_dcache_top.sv` | controller state, request, line arrays, LRU, victim, burst counters, refill buffer, maintenance position | CPU load/store, replacement with write-back, refill, FLUSH, INVALIDATE, FLUSH_INVALIDATE, self-test, reset | the CPU sees one memory; an error changes nothing; a flush without an error leaves nothing dirty; every operation ends |
| `rtl/l1_dcache_nonblocking.sv` | two miss-status registers, victim buffer, response FIFO | hit under miss, merging, out-of-order refill, write-back, replay | as the blocking cache, with responses by identifier |
| `rtl/coherence/msi_two_cache_subsystem.sv` | two direct-mapped caches, controller, round-robin pointer, backing memory | read, write, intervention, invalidation, victim write-back, response, reset | one modified owner, shared copies equal memory, operations are atomic, no starvation |
| `banked_msi_home.sv` | bank choice per hart | route a request to one of two MSI banks and its response back | a response belongs to the request |
| `coherent_axi_qos_transport.sv` | a master per hart, a target per bank, error injection, stall generator | AXI write and read of one word through the fabric | address and data stay together, no reply lost, doubled or given to the other hart; progress |
| `vendor/axi` | routes, order of write data, active identifiers, grants and ages | arbitration between masters by QoS and age | write data follows its address, no master starves |
| `dual_hart_apb_store_buffer.sv` | per hart: two-entry ring, its age, one port transaction, a fault | store retirement, forwarding, load bypass, drain, failure, clear, FENCE, reset | program order of stores, own stores visible at once, a failed store is kept and named, FENCE waits |
| `coherent_rv32_rom_feeder.sv` | fetch address, one instruction in flight | hand over an instruction, hold a FENCE | a FENCE retires only when its hart's stores have drained |
| `dual_rv32_coherent_top.sv` | none of its own | wires the parts above, one reset | all parts restart together |
| `vendor/rv32` | RV32I architectural state | fetch, execute, APB access | the instruction set, not modelled here |
| `rtl/bist/cache_sram_bist.sv` | March position, failure record | March C-minus over an array | finds every stuck cell, keeps the first failure |
| `scripts/run_coherent_model.py` | a software state of the coherent system | exploration of litmus tests and generated programs, planted mutations | every outcome is allowed, no alarm without a defect |
| `scripts/run_coherent_herd.py` | text parser | turns herd7's output into allowed outcomes | exactly herd7's outcomes |
| `scripts/check_coherent_rtl_events.py` | caches, memory, buffers and owed responses of its own | replay of a trace, row by row | rejects a trace exactly if the memory it describes is not coherent |
| `Makefile`, the other `scripts/` | reports, traces, coverage data, the README table | some thirty scripts in the order of their goals | a gate that passes rests on complete, fresh, passing evidence |
| `model/`, `sim/`, `formal/` | scoreboards, stimulus, assertions | | sources of assumptions and documented properties |

The store buffers turn the cores' APB accesses into transactions; the transport
carries those to the home; the home is two MSI subsystems. The two L1 caches of
`rtl/` are separate designs with a CPU port and an AXI port each. Within a clock
edge all registers of a module change together, so an action is one edge of one
module, and concurrency is the order of edges at which different modules,
requesters and memories act. The scripts of a goal run one after the other and
share files; what interferes is the developer, who edits, cleans and starts goals
in any order.

The hard behaviours, each listed with its line in `PROJECT.json`: simultaneous
events at one edge (a store enters while another fails), data read after another
actor may have changed it (forwarding from a draining entry, intervention),
halves of one transaction that are latched at different edges, bursts of which a
part fails, resets in the middle of anything, waiting that may never end (fences,
faults, arbitration), long legal command sequences (a FLUSH after an INVALIDATE),
and evidence that is older than the code it speaks for.

## 2. Modules

| Module | Models | Abstraction |
| --- | --- | --- |
| `SerialMemory` | what a coherent home promises | one memory with atomic operations |
| `MsiTwoCache` | `msi_two_cache_subsystem.sv` | addresses are (tag, index, word) triples |
| `PortMemory` | what transport and home promise together | `SerialMemory`, with one injected failure |
| `Transport`, `MCTransport` | `coherent_axi_qos_transport.sv`, what it uses of `vendor/axi`, and the ports of `banked_msi_home.sv` | an address is (bank, word); QoS is a free choice; a bank performs a request atomically |
| `TsoMemory` | what a store buffer promises | per-hart FIFOs in front of one memory |
| `StoreBuffer` | `dual_hart_apb_store_buffer.sv`, the core's access cycle and the feeder's FENCE | transport and home are `Perform` and `Fail` |
| `Litmus` | the sixteen programs and RVWMO's outcomes for them | global memory orders, enumerated |
| `LitmusStoreBuffer` | the litmus firmware on `StoreBuffer` | no faults, no reset |
| `OperationalModel` | `run_coherent_model.py` | random choice becomes nondeterminism |
| `HerdOracle` | the parser in `run_coherent_herd.py` | a line is a record of register values |
| `LoggedMemory` | what a replay of a trace promises | one memory, a FIFO per hart, the answers owed |
| `EventChecker` | `check_coherent_rtl_events.py` | bank and index are one set |
| `WriteBackMemory` | what a blocking write-back cache promises | CPU-visible and durable memory |
| `BlockingCache` | `l1_dcache_top.sv` and an AXI memory | one word per beat, any number of beats, lanes, sets |
| `NonblockingMemory` | what a cache with several requests outstanding promises | a queue of requests for each line |
| `NonblockingCache`, `MCNonblockingCache` | `l1_dcache_nonblocking.sv` and an AXI memory | one word per beat, one byte lane |
| `Evidence` | the files the scripts share, `make`, and what any script does with them | a report is complete or not, passing or not, fresh or old |
| `CoherentLane`, `CoherentReports`, `CacheLane`, `Summaries` | the scripts, an action for each | a suite is one run with its verdict |
| `EvidenceFlow` | the recipes of the `Makefile` and the developer | sequential `make` |
| `*Proofs` | theorems about `MsiTwoCache`, `Transport`, `StoreBuffer`, `LitmusStoreBuffer`, `OperationalModel`, `BlockingCache`, `NonblockingCache`, `EventChecker`, `EvidenceFlow` | |

`LitmusStoreBuffer` composes `StoreBuffer` with `Litmus`, and `EvidenceFlow` the
scripts' modules. Along the memory path the contracts compose: `MsiTwoCache`
implements `SerialMemory`, which is how a bank of `Transport` behaves; `Transport`
implements `PortMemory`, whose `PPerform` and `PAnswer` with a failure are
`Perform` and `Fail` of `StoreBuffer`; and `StoreBuffer` implements `TsoMemory`.
`BlockingCache`, `NonblockingCache` and `EventChecker` implement the
specification named above them. Each detailed module INSTANCEs its abstract one
with a refinement mapping and has it as a property. Operators marked as defects
are the plausible errors that show each property can fail; no specification uses
them.

### How state and actions correspond to the code

**MsiTwoCache.** `ctrl_state`, `rr_select`, `owner`, `req`, `rsp_*`, `line` and
`backing_mem` are the registers of the same names. `Accept`, `Execute` and
`Respond` are the three branches of the `case`, with the clearing of response
valid bits at lines 130-131 in each (`Left(ready)`); `TakeResponse` is an edge in
CTRL_IDLE where only that happens. `Execute` is split into the data it computes:
`VictimWriteback`, `Intervention`, `FillData`, `OwnerLine`, `OtherLine`. `Present`
is a requester raising its request between edges; `MemInit` is the load port, used
as the testbench uses it, before the first request. The nonblocking assignments
that write one word twice (173-175 and 157-159 never meet: a victim and an
intervention have different tags) are applied in the order of the text.

**Transport.** An `Edge` is one clock edge of the transport, the fabric inside it
and the home's ports: `master` and `target` hold `mstate` and `tstate` with their
registers, `route` and `w_order` the fabric's two queues, `writing` and `reading`
its active identifiers, `hold` and `age` the arbiters. The operators of the second
part (`Grant`, `AwReady`, `Answered`, `HomeBeat`, ...) are the combinational
signals; those of the third (`MasterEdge`, `TargetEdge`, `RouteEdge`, ...) the
register files. Inputs of an edge are the banks whose stall generator says go, the
hart an arbiter prefers among two fresh requests, and the store buffers that take
their answer. `Perform(b)` is the MSI bank, at any time between accepting and
answering. A register that is written before it is read again returns to its reset
value.

**StoreBuffer.** The halves of the bridge for the two harts share no register, so
an `Edge(h)` is a clock edge seen by one half; the halves' order is free, which
allows more behaviours than a common clock. One conjunct per group of registers
(`CoreEdge`, `RingEdge`, `AgeEdge`, `FaultEdge`, `PortEdge`) keeps the textual
order of the block: the last assignment wins. `Ready` is `pready`, or the feeder
releasing a FENCE. `sb_age` stops at the drain delay because only the comparison
with it is read. A load or store of the fault status word is reduced to the store
that clears it. `Perform` and `Fail` are what transport and home do to a
transaction, exactly once.

**BlockingCache.** One action per state of the controller and outcome; the
edges at which the cache waits for AXI, or nothing happens, are stutters. A
register that will be written before it is read again returns to a rest value,
so that only live state is counted. The AXI memory stores a beat or drops it,
and answers with an error if it dropped one; as in the testbench it may also
answer with an error after it stored everything. A refill beat with an error carries any
data. Parity and SECDED are left out: no bit of the arrays changes by itself in
the model.

**NonblockingCache.** An `Edge` is the whole clocked block with one choice of what
its five ports do: a request accepted or not, a response taken or not, the read
address, a refill beat, the write channel. `Merges`, `Hits` and `Misses` are the three
terms of `cpu_req_ready`; an MSHR is a record while `m_valid`, and the victim buffer
one while it is in use. For each register group an operator applies the branches of
the block in the order of the text (`NextMshr`, `NextLine`, `NextLru`, `NextRsp`,
`NextWb`), each guard reading the values before the edge. `awaited` is not in the
design: it is the testbench's count of the responses it expects, so that a request
which the cache accepts and loses is seen to be lost.

**OperationalModel and HerdOracle.** The Python functions' steps, one action for
each way through the loop body of `simulate`, with the mutations the script plants
in itself, and the verdicts of its four modes (`run_litmus`, `run_random`,
`run_mutations`, `run_performance`) as operators. `Allowed` in `Litmus` is computed
from the memory model, not from the reports; it agrees with herd7's answers in
`reports/coherent_herd_summary.csv` where those are right (see 5).

**EventChecker.** One action for each kind of row, named after the method that
handles it, with every row the benches can write, consistent or not; the first
mismatch ends the replay, as the script reports only that. `memory_init` rows come
before the harts run. What the checker does not look at, the model does not
either, and a reader of its verdict should know: a `store_drain` is not linked to
the `bank_request` that writes it; a load that bypasses its own buffered store is not
noticed; FENCE rows and `store_fault_pending` are never read; an error response
without a request is ignored.

**Evidence and EvidenceFlow.** `make` runs the lines of a recipe in order and stops
at the first that fails. A script reads reports and directories, runs its suite,
writes its report and returns; its failure may come before or after the report is
written, and `Judge` records which failures it saw and how it exited. Age is
`now` (since the last edit), `old`, or `stale` for a file whose case no longer
exists. The developer starts with the committed reports or with none, and may edit
the code, drop a case, clean `build/`, and start any goal. One failing run stands
for a suite's. A synthesis without its tool writes SKIP rows and passes: no failure
was seen; a UVM run that times out is skipped too, in a goal that no gate runs.

Two weaknesses of the scripts stay in the model, and the properties except them by
name. The reports that search a directory (`Searching`) may count the traces of a
removed case, as no script clears these directories: for them `GateIsFresh` excludes
old files only. And `run_coherent_error_reset` throws away the verdicts of its three
probe runs: `NoFailureSwallowed` shows that these are the only ones a passing gate drops.

## 3. Runs

| Run | Instance | Distinct states | Shows |
| --- | --- | --- | --- |
| `MsiTwoCache` | 1 set, 2 tags, 1 word, 2 values | 64,960 | coherence, one transaction at a time, no dirty data lost, refinement of `SerialMemory`, an answer to every request, with resets |
| `Transport` | 2 harts, 2 banks of 1 word, 2 values; the fault is the first write of bank 0 | 60,614 | a bank serves one whole request at a time, a request is overtaken once at most, refinement of `PortMemory`, an answer to every request |
| `StoreBuffer` | 1 hart, 2 words, 2 values, delay 1 | 355,528 | the ring drains in order, faults, loads, refinement of `TsoMemory`, with faults and resets; every access completes, or waits on a pending fault |
| `StoreBufferFault` | 1 hart, 1 word | to the violation | violation: a fault may block its own recovery |
| `LitmusStoreBuffer` | 2 harts, 16 programs | 12,309 | outcomes allowed, all schedules; every test finishes |
| `OperationalModel` | 16 litmus programs, all programs the script can generate over 3 addresses and 2 data, 6 simulated mutations | 36,155 | outcomes allowed, caches coherent, no false alarm, which detectors discriminate |
| `HerdOracle` | 3 test shapes, values 0 and 1, every set of states | to the violation | violation: an outcome herd7 did not find is allowed |
| `EventChecker` | 1 set, 2 tags, 1 word, 2 values, 2 open requests | 327,600 | coherent reference caches, verdicts of one flat memory |
| `BlockingCache` | 1 set, 2 ways, 3 tags, 1 beat, 1 lane, FLUSH, FLUSH_INVALIDATE, self-test | 282,504 | no doubled line, clean lines equal memory, bursts carry lines, refinement of `WriteBackMemory`, every operation ends |
| `BlockingCacheStaleDirty` | 1 set, 2 ways, FLUSH and INVALIDATE | to the violation | violation: a discarded line is written back |
| `NonblockingCache` | 3 lines in set 0, 1 line in set 1, 1 beat, FIFO of 2 | 145,607 | each line has one home, a victim can return, refinement of `NonblockingMemory` |
| `EvidenceFlow` | both release gates and 9 other goals, 2 goals in a row | 179,373 | a gate that passes rests on complete evidence that is not older than the code, drops no failure but those of three probes, and the README table quotes the reports |

Bounds. Every instance is finite and explored completely; the only bounds that are
not the code's own are `MaxOpen` of `EventChecker` (buffered stores and owed
answers per hart) and `MaxCalls` of `EvidenceFlow`. Two tags in one direct-mapped
set, and three in a two-way set, are the least that make lines replace each other;
two values tell a stale word from a current one; a ring of depth two is the code's
own depth, and delay 1 makes an entry wait for at least one edge. One hart suffices
for `StoreBuffer` because the halves share only memory: the other hart's writes
matter to the litmus run, which has both. In `Transport` both harts read and write
bank 0 and write bank 1, so that they meet in one bank and pass each other in two;
the fault on a write is the one with more to undo. For `NonblockingCache`, three
lines that compete for two ways make dirty victims, and a line in the other set a
second miss beside them; a burst of several beats of which one fails, and dirty
victims in both sets at once, do not occur in this instance. The generated
programs of `OperationalModel` use its own three addresses; the tests use two of them.
Of their data, drawn from 255, two let stores of the two harts differ or agree, and the
proof covers every set. Two goals in a row let
any goal run on what any other goal, an edit or a clean left, and reports depend on
no more than one earlier goal's files; any number of goals in a row is left to the
proof about `EvidenceFlow`. Words of a line, sets the maintenance scan walks over, beats of a burst
and byte lanes beyond one are left to the proofs about `MsiTwoCache` and
`BlockingCache`, which cover every number of them: the INVALIDATE command in
particular is checked by TLC only in `BlockingCacheStaleDirty`, and its correct
uses are proved. Drain delays above 1 are left to the proofs about `StoreBuffer` and
`LitmusStoreBuffer`. Address bits above the tags in use and the 32-bit data path differ
by data only.

Deadlock is checked except in `HerdOracle`, `OperationalModel`, `EventChecker` and
`EvidenceFlow`, which model programs that end.

## 4. Fairness

`MsiTwoCache!LiveSpec`: weak fairness of an edge at which both requesters are
ready to take a response. The clock does not stop, and the transport holds
`home_rsp_ready` in its waiting state; nobody has to raise a request.
`Transport!LiveSpec`: edges go on at which no bank is stalled and answers are
taken; a bank performs what it accepted (the liveness of `MsiTwoCache`); and if a
bank's target offers reads, or writes, again and again, then again and again what is
asked for there is taken. The last is the stall generator's: a shift register of
maximal, odd period cannot stall the same phase of an alternating target for
ever, for a backpressure below 100. It fails for one seed (see 5).
`StoreBuffer!LiveSpec`: weak fairness of each half's clock edge, and of the
transaction in the transport being answered, by a reply or an error.
`LitmusStoreBuffer!LSpec` adds that a core goes on with its program, and has no
faults. `BlockingCache!LiveSpec`: weak fairness of any one step of the controller:
the clock, an AXI memory that accepts and answers each beat after a bounded stall,
as in `sim/tb_l1_dcache.sv`, and a CPU that takes its response. A request that is
presented but not accepted has no promise, because maintenance goes first.
No fairness is put on resets: they may come at any time or never, and a reset drops
what was waiting.

## 5. What the checks found

* `BlockingCacheStaleDirty`: INVALIDATE clears `valid_bits` and leaves
  `dirty_bits`, and the maintenance scan tests `dirty_bits` alone, so a later
  FLUSH writes a discarded line to memory; the C++ reference
  (`model/cache_reference.cpp:170`) tests both. In two ways it can overwrite newer
  data: lines A and B are dirty in ways 0 and 1, INVALIDATE, B is loaded into way 0
  and stored to, FLUSH writes the new B and then the stale B of way 1.
  With INVALIDATE and the self-test alone, or without INVALIDATE, every property
  is proved.
* `HerdOracle`: the parser of herd7's output ends the list of states at "Ok"
  and not at "No", and reads the lines that follow as the outcome (0, 0). The
  committed report allows (0, 0) for SB_FENCE, the outcome the fence forbids.
* `StoreBufferFault`: a hart that waits at a FENCE or on a full ring when its
  store fails can never execute the firmware that clears the fault.
* Without a run of their own:
  * In `l1_dcache_nonblocking.sv` the lowest MSHR replays first (line 172). If the
    CPU takes responses more slowly than misses complete, MSHR 0 is answered, used
    again and finished again before the next response is taken, and a finished miss in
    MSHR 1 is never answered: TLC finds this cycle when `mshr[1] # None ~> mshr[1] =
    None` is checked under fair channels. The read address is chosen in the same way
    (line 177), so it may change while `arvalid` waits for `arready`, which AXI4 does
    not permit.
  * The pair of registers by which the flow judges a litmus test keeps the last load
    of each hart. For MP_FENCE that drops hart 1's first load, so the forbidden
    outcome cannot be seen. `OutcomeAllowed` compares all loads and the final memory
    instead.
  * Of the eight mutation detectors of `run_coherent_model.py`, two can tell a mutant
    from the program (`DetectorsDiscriminate`); three also report an unmutated run of
    their own program, and three are counted without a check.
  * `check_ownership` of the trace checker can never fire, whatever the rows say:
    `EventCheckerProofs!Coherence`.
  * With the seed 0x6d2b79f5 the stall generator of the transport starts at zero and
    stays there: with any backpressure no request is ever accepted.
  * The arbiters' aging never acts in this transport: one transaction for each hart
    and a grant that is held bound the wait to one overtaking (`OvertakenOnce`).
  * `gen_coherent_coverage.py:26` indexes traces named `*_enriched.jsonl`, but the
    performance runs name theirs `*_events.jsonl`
    (`run_coherent_performance_rtl.py:60`), so these are never found.

## 6. Theorems

All theorems hold for every value of the constants that the named assumptions
admit. Each main invariant was first checked by TLC.

**`MsiTwoCacheProofs`** (0 is a value and a tag, there is an index and a word, `None`
is none of the values or requests). `Coherence` is the inductive invariant: it joins
exclusive ownership, clean shared lines and the single transaction, and none of the
three is inductive alone. That a shared line is clean needs exclusive ownership (a
commit of another cache's modified copy must not make a third copy stale), and both
need that the request in `req` is the owner's while the controller works.
`TypeCorrect`, `CoherentCaches`, `SingleTransaction` and `DirtySurvival` follow.
`Refinement`: the current word of an address is the modified copy's or memory's; the
step lemmas show that `Execute` changes that map at the written word at most, that a
reset falls back on memory, and that every other action leaves it alone.

**`StoreBufferProofs`** (any number of harts, words and values; a drain delay within
`sb_age`'s eight bits). `Invariance` proves `IInv`, a conjunction per hart of `Ring`
(counters and slots agree), `StoreFlight` (a store in flight copies the oldest entry,
which stays), `Fault` (a pending fault names it, and nothing drains), `LoadCurrent`
(the core waits for the load in flight, and no entry would forward it) and `Phase`
(request, port and reply exclude one another). `StoreFlight` needs `Ring` at the edge at
which a store enters; `Fault` needs `StoreFlight` for the failing entry to be the oldest;
`LoadCurrent` needs `Phase`. `OrderedDrains`, `FaultIsPrecise` and `LoadsAreCurrent`
are its parts. `Refinement` maps a ring to the FIFO of its counted slots, oldest first.

For the litmus runs on two harts (`TwoHarts`: `Hart` is 1 and 2, and the bridge's words
are the tests') the same module proves the invariant `LInv`: there is a global memory order
`g` of the loads and stores performed so far, and for each hart the positions `s` of the
stores in its buffer, such that `g` keeps the program order RVWMO preserves and explains
what the loads returned and what memory holds (`Explained`). A store is performed when it
reaches memory, a load when it reads memory. A forwarded load is performed when it
completes, and comes last, unless the hart's oldest store has reached memory and is still in the ring:
the other hart may have overwritten it since, so the load takes its place right after what
its own hart performed last (`Block` says that this is always possible). Each step extends `g` by one event
at most (`EdgeExplains`, `StoreExplains`, `FetchExplains`), and longer orders explain what
shorter ones did (`SourceStays`, `OtherHartOrder`). When all is performed, `g` is one of
the orders `Allowed` enumerates: `OutcomesAllowed`. The proof uses of a program only that
it is two sequences of at most four instructions.

**`OperationalModelProofs`** (any set of addresses that has `x` and `y`, any data of one
to 255). `Inductive` proves `IInv`, which has a part for each kind of simulation. `Plain`
is about one without a mutation: its caches are coherent (`Caches`: a modified copy is
the only one, shared copies equal memory, a valid copy holds a datum), no FENCE has passed
a store, no load has raised, and a memory order `g` of the events performed so far
explains registers, buffers, and for each word the datum of its modified copy or memory
(`Held`). `g` needs `Caches`, since a read miss returns `Held` only if at most one copy is
modified (`ReadsHeld`), and `WriteKeeps` shows that a drain changes `Held` at its word
alone. A store reaches a cache in the step in which it leaves the buffer, so every
event comes last when it is performed, unlike in the hardware. `DualModified` is about the run
with the write that leaves two modified copies. `Outcomes`: at the end `g` is one of the
orders `Allowed` enumerates, for the litmus tests and for every generated program, with
FENCEs after its stores or not (`RunsAre`: each is two sequences of at most four
instructions). `CoherentCaches` and `Detectors` follow. `Verdicts`: a pair that SB_FENCE
forbids would put each hart's load before the other's store in `g`, and the pair MP_FENCE
forbids asks for a load that hart 0 does not have.

**`TransportProofs`** (two harts and two banks, as in the hardware; any words, values,
requests and injected fault; `None` is none of these). `Inductive` proves `IInv`, a
formula for each hart and each bank: `MasterInv` (a transaction whose address was taken
is in the target of its bank, and a queued route is its own), `TargetInv` (a target in
use carries the request of one hart, whose address has this bank, and expects the data
of the write it has latched), `HomeInv` (a port of the home is in use exactly while
its target waits), `HoldInv` (who holds a grant still asks) and `AgeInv` (who was
overtaken is granted next). None is inductive alone: that the data latched for a write
belongs to its address needs the route of its hart, which needs that the target still
has the address. `OneRequestServed` and `OneOvertaking` follow. `Refinement` adds that a
request on its way to the home does not match the fault (`Spared`), and shows that an
edge takes answers, fails one request at most, or changes nothing the ports can tell.

**`BlockingCacheProofs`** (one or two ways, any number of sets, beats, tags, lanes and
byte values). `Control` proves `Base`, for any commands: what each register means in
each controller state, that a victim fits its way, and that the line asked for stays
absent until its refill is installed, from which `NoDoubledLine` follows. `Data` adds
`DataInv`: dirty lines are valid, a clean valid line equals memory, a burst carries a
valid dirty line, and how far a scan, a write burst and a refill have got. It holds
under `SafeCommands`: INVALIDATE is not used, or only with the self-test. This is
exactly the condition that the finding above violates. `CleanLines`, `BurstsCarryLines`
and `Refinement` have it as their assumption.

**`NonblockingCacheProofs`** (any lines, beats, values, accesses, identifiers and FIFO
depth; `None` is no request, register, victim or beat). `Inductive` proves `IInv`: what a
valid way holds (`CellInv`, `WaysDiffer`), what a miss holds (`MissInv`: until it is
installed or has failed its line is nowhere and its way is invalid, and the beats that
came equal memory), `SetsDiffer`, `VictimCanReturn`, `WbInv` (the victim is in no way,
and memory has the beats it took) and `Balance` (the answers the CPU expects are in the
FIFO or owed by a miss). An edge may accept, install, replay and restore at once, so the
proof describes each register cell's next value by the one thing that can happen to it
(`CellExclusive`, `NextFree`, the `*Step` lemmas); that no two of them meet in a cell needs
`SetsDiffer` and `VictimCanReturn`, and these need that a miss's line is absent.
`TypeCorrect`, `VictimReturns`, `AnswersBalance` and `LinesHaveOneHome` follow.
`Refinement` reads a line where it is (`SeenPresent`, `SeenVictim`, `SeenMemory`) and
shows that an edge changes it by the one write that is performed, that at most one
request leaves the queue of its line (`HitServed`, `ReplayServed`, `NothingServed`), and
that a hit never overtakes a request a miss holds for the same line.

**`EventCheckerProofs`** (any tags, sets, words and values). `Coherence`: whatever the
rows say, the reference caches stay coherent. `Refinement`: the checker accepts and
rejects exactly the rows that `LoggedMemory` does, so its two caches with their victims,
interventions and write-backs say nothing beyond one flat memory.

**`EvidenceFlowProofs`** (any goals, any number of them in a row, with edits and cleans
in between). The invariant `IInv`: a gate that has not failed stands at some line of its
recipe, and `Table` holds for the lines before it, which lists the reports each line has
made sound (`Made`: fresh, whole and without a failing row) and the directories it has
left current (`Left`: filled, with no old file). Nothing is assumed of what earlier goals
left: at the start of a gate the table is empty. A line enters what it writes from what the
table already holds (the `Effect` lemmas), and a later line that writes it again leaves
it sound (`Advances`). Reports that a line writes before they count (`model_trace`,
`code_coverage`, `hole_review`, `coherent_holes`) enter the table at the last line that
settles them. What the coverage line leaves for the review of its holes is the one fact
that passes from a line to the next outside the table (`Reviewable`). `PassedTable` reads the result
off the full table: `Fresh`, `CompleteReports`, `FailuresCount` and `QuotesReports` are
the run's four invariants. The order of both recipes is used line by line, so a recipe
that is reordered against its inputs has no such table.

Left to TLC:

* All liveness (`EveryRequestAnswered`, `EveryAccessCompletes`, `EveryTestFinishes`,
  `EveryOperationEnds`): fairness and ENABLED are outside the prover's reach.

Every safety invariant and every refinement that a passing run checks has a theorem.

## 7. Not modelled

* The vendored core: only its APB access cycle appears. Of the vendored fabric, bursts,
  addresses outside both banks and permissions, which the transport does not use.
* Mailbox words other than the fault status, and the decode error of an access outside
  both windows. A mailbox write overtakes buffered stores; the firmware's FENCE before its
  done flag is what orders them.
* Sub-word accesses to shared memory, which the documentation puts out of scope.
* Parity and SECDED, and the standalone array self-test.
* The C++ scoreboard of the L1 cache, the testbenches and the formal harnesses: stimulus
  and checks, from which environment assumptions and documented properties are taken.
* In the flow: `make -j`, the text of documents and drawings, the remaining goals, and
  the scripts that build firmware, import vendored sources, install tools and write the
  litmus files.
* Performance counters and monitors.

## 8. Plan

Done: all modules of the table above, with the proofs named. What is left, in this order:

1. Liveness of MSHR 0.
2. `CacheIntegrity`: bit errors, parity and SECDED in `BlockingCache`.
3. `SramBist`: March C-minus finds every stuck cell.
4. The C++ scoreboard against `WriteBackMemory`.
