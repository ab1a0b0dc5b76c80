# P3: a TLA+ development of the Protected Point-to-Point gateway

P3 is a VPN-like gateway from 2010: a Linux kernel module encrypts the traffic
between the subnets behind a *primary* and a *secondary* gateway, and the two
replace the session keys every few packets without closing the session. A
user-space daemon configures the module and feeds it keys; a user interface
talks to the daemon over two FIFOs. The modules here model the parts that carry
the program's logic, TLC checks them on small instances, and TLAPS proves the
central ones for every instance.

`PROJECT.json` lists components, runs, mutants, the map from definitions to
source lines, hazards and theorems. Paths below are relative to `src/src/P3/`.

## Inventory

| component | source | state | operations | module |
|---|---|---|---|---|
| session rekeying | `ksrc/p3ksession.c`, `p3kpri_session.c`, `p3ksec_session.c`, `p3kprimary.c` | `p3session`: `sseq`, `rID0`, `rID1`, the Rekey flag, the new keys, eight contexts | `start_rekeying`, `replace_key`, `rekey_session`, `parse_ctl_message`, `build_*_message` | P3Session, P3SessionSMP |
| packet path | `ksrc/p3knet.c`, `p3linux.c` | route table, host list, active networks, session lock | `packet_handler`, `p3_lookup`, `p3send_control`, `p3send_packet`, `obfuscate`, `deobfuscate`, the hooks | P3Packet, P3Gateway |
| crypto contexts | `ksrc/p3kcrypto.c`, `ksrc/moc_src/aesalgo.c`, `aes.c` | the contexts, `crypto_lock`, `lockheld` | `p3_init_crypto`, `p3_rekey`, `p3_encrypt`, `p3_decrypt`, the cipher | CryptoCtx, AES |
| key ring | `src/p3pri_key_server.c`, `ksrc/p3kcrypto.c`, `src/p3crypto.c` | `head`, `tail` and the buffer in the shared RAM disk | `init_key_serv`, `buffer_handler`, both `p3_get_key` | KeyRing |
| kernel configuration | `ksrc/p3kprimary.c`, `p3ksecondary.c` | `primain`/`secmain`, host, net and session lists | `parse_p3data`, `build_p3table` | P3Gateway |
| kernel module | `ksrc/p3linux.c` | RAM disk, device, hooks, raw sockets | init, exit, ioctl, hooks, `p3net_utils` | P3Gateway |
| system handler | `src/p3system.c`, `p3primary.c`, `p3secondary.c`, `p3utils.c` | configuration, descriptors | `init_system`, `parse_config`, `system_handler` | P3Config, AdminFifo |
| user-space network | `src/p3net.c`, `p3pri_net.c`, `p3sec_net.c` | listener, session | `p3listen`, `p3session` | P3Config |
| administration | `src/p3admin.c`, `ui_src/p3fifo.c` | request and answer FIFOs | `send_request`, `get_response`, `get_request`, `admin_handler`, `send_response` | AdminFifo |
| user interface | `ui_src/p3config.c`, `p3admin.c`, `p3command.c`, `p3anonymous.c`, `p3net.c` | definitions, settings, forked listeners, sessions | `get_config`, `handle_def`, `get_list`, `save_config`, `handle_session`, `anon_handler`, `net_receive` | UIConfig, UIAnon |
| Android port | `src/android/` | as the secondary | its own `init_system`, `parse_config`, `main` | P3Config, AdminFifo |
| S3 | `../S3/src` | none | a skeleton | - |

How they interact. The daemon reads its configuration file line by line and
passes every remote host to the kernel module by ioctl as soon as the next one
begins, then sends a raw packet to every host, from which the module learns the
`okfn` it needs to send anything of its own, and keeps the key ring in the
shared RAM disk full. The netfilter hooks call `packet_handler` for every
packet; it calls `p3_lookup`, which on the primary starts a rekeying whenever
`sseq` is a multiple of 64; `start_rekeying` takes keys from the ring and sends
REPLACE_KEY; the secondary's `replace_key` answers REKEY with the number of its
first packet under the new keys; the primary's `rekey_session` answers in the
same way and switches; the secondary's `rekey_session` switches. While the Rekey
flag is set a host drops its data. The user interface writes requests into one
FIFO and reads answers from the other; for anonymous sessions it forks listeners
that inherit its FIFOs and settings.

What is hard here:

- **delivery**: control messages are ordinary IP packets, without
  acknowledgement, retransmission or timer; the receiver finds the key for a
  packet only from its sequence number; requests and answers over the FIFOs
  are three writes each, with a time-out on one side only;
- **boundaries**: the 32-bit sequence number wraps and skips 0, the ring's
  indexes are compared with unsigned arithmetic, packets are cut into blocks at
  offsets computed from their own bytes, ids index arrays of their exact size;
- **partial failure**: sending, allocating, getting a key, each step of loading
  the module or of starting the daemon can fail in the middle, and several
  statuses are not looked at;
- **concurrency**: `packet_handler` runs on every CPU, in softirqs and in
  process context, also while an ioctl adds a host or the module is unloaded;
  the session lock covers only single increments and flag changes; a context is
  used after its lock was released; the key ring has no common lock at all;
- **processes**: interface, listeners and daemon die and start again
  independently, while the FIFOs keep what was written.

## Modules

### P3Session: the exchange, one handler per step

`sess[h]` is host h's `p3session` with its `p3keymgmt`: `sseq`, `rID0`, `rID1`,
the Rekey flag, the pair of new keys and two generations of contexts, each with
the keys of the four directions (data/control, encrypt/decrypt). `net[h]` holds
the packets on their way to h: the number in the header, the keys of the outer
and inner encryption, the message. `used` only serves a bound.

| action | code |
|---|---|
| `StartRekeying`, `start_rekeying` | `p3_lookup`'s test, `start_rekeying`, `build_newkey_message`, `p3send_control`; then the rest of `packet_handler` for the packet that triggered it: dropped, or sent under the old key when the message could not be |
| `SendData`, `DropData` | the outgoing half of `packet_handler` |
| `ReceiveData`, `ReceiveGarbled` | the incoming half: a user's packet; a control packet opened with a wrong key |
| `ReplaceKey` | `replace_key`, and `packet_handler` clearing the flag when it reports an error |
| `RekeyPrimary`, `RekeySecondary` | the two `rekey_session` functions, with `p3_rekey` |
| `Lose`, `Duplicate`, `Arriving` | the network (external) |

`Env` selects the misfortunes a run includes: lost, duplicated and reordered
packets, control messages that cannot be built, encrypted or queued (before or
after the number was taken), contexts that cannot be created, a key server
without a key, index messages. A data packet whose encryption fails after it
took its number is the same as a lost one.

Abstractions. A key is a value; the data and the control key of one exchange
come from one fresh value, because they are always fetched, sent and installed
together (each has its own field, and the failures separate them). An index is
`NoKey` in a message: the secondary's key array is never allocated in this
code, so an index is always answered with an error. Decryption with a wrong key
gives garbage: then a control packet is not recognised, or its command is
unknown (`packet_handler` clears the flag) or one without effect.

### P3SessionSMP: the same handlers, step by step

Extends P3Session with the contexts in which `packet_handler` runs, `Thread`: a
set of triples of host, CPU and "soft" or "proc". `thr[t]` is where a thread is
in the handler and its local variables, `slock` who holds the session lock. A
step reads or writes the session at one point; a critical section is one step
that ends with the lock held, followed by `p3unlock`. A softirq interrupts the
process context of its CPU, never another softirq. `p3send_control`'s three
readings of `sseq` are steps of their own: a packet encrypted with another
number than its header shows is recorded as sealed with no key. What a receiver
does with such a packet (the first block is garbled) is not modelled further;
in the runs where it can happen the violation comes first. `p3_rekey` is one
step (it runs under `crypto_lock`); CryptoCtx takes it apart.

`was` is a history variable for the refinement mapping: a handler takes effect
when its packet leaves, or when it returns if it sends none.

### KeyRing: the shared buffer of key material

The producer `buffer_handler` and the consumer, the kernel's `p3_get_key`, with
one step per store to the shared memory. `fresh` is the set of 8-byte pieces
that were written and never handed out. The consumer's tests use one load of
`tail` (between them nothing makes the compiler load it again); `key->size` is
unsigned and `head`, `tail` are not, so differences are computed modulo
`UIntMod`. `Gen` says what the user's `p3_get_key` yields: a new piece (keys
from a file, `p3FIXED_KEYS`), the bytes that were in the structure before (the
random generator's build, whose `memcpy` has its arguments exchanged), or none.

### CryptoCtx: the life of the contexts

`ctx[s][k][g]` is the context of session s for one of the four kinds, g = 1 the
current and 0 the previous generation; `live` the allocated ones, whose
addresses are used again; `lock` and `lockheld` the lock and the global flag by
which `p3_rekey` tells `p3_init_crypto` that it holds it. `InitEnter`,
`CreateCtx`, `CreateFails` and `InitExit` are `p3_init_crypto`, called for every
host that is defined and for every new session of a host
(`ksrc/p3kprimary.c:410`, `448`), whatever contexts the host has and whoever uses
them: what it finds in a slot it overwrites, without `DeleteAESCtx`, and `lost`
records it. `RekeyLock` to
`RekeyUnlock` are `p3_rekey`; `LookUp` and `UseCtx` are `p3_encrypt` and
`p3_decrypt`, which use a context after they have released the lock. `fault`
records an allocation that failed and the one overlap the flag does not
prevent: `p3_init_crypto` of a new session while another thread's `p3_rekey` is
between setting and clearing `lockheld` takes no lock.

### AES: the cipher

The table-driven cipher of `moc_src/aesalgo.c` in the mode P3 uses (CBC, in
place, whole blocks), a step per iteration of the code's loops: key expansion
for the three key lengths, the turned keys of decryption, rounds, chaining. The
tables are given by what they tabulate. Next to the code's state a history
variable follows the standard's definition.

### P3Packet: a packet's bytes

Sizes, offsets and block numbers of one packet on its way through
`packet_handler` or `p3send_control`, `obfuscate` and, on the other host,
`deobfuscate`. Byte k of the packet is the offset k; the clock's microseconds
and the bytes that move the block borders are inputs. Encryption keeps bytes in
place and appears as its demand for multiples of 16.

### P3Gateway: one gateway's module

Loading (`P3INIT`, one step per resource, each may fail, with the ladder of
`Undo`), unloading (`P3EXIT`), configuration (`parse_p3data`: a host and its
networks one by one, since hooks run in between) and the fate of every packet:
`Lookup` is `p3_lookup`, `Accept`, `FromHost`, `RawPacket`, `SendLocal`,
`SendForward` the branches of the hooks and `packet_handler`, and `Oops` the
branches in which the code follows a pointer nobody has set. The raw packet is
two steps, because the networks become active before its `okfn` is stored.

### P3Config: the daemon's start

`init_system` of the three builds (`role`) with every failure, and
`parse_config`, one step per line of any file made of `Lines`: the structure
that is used again for every remote host, the list of subnets with its cached
element, and what is sent to the kernel when the id changes or the file ends.
Then the raw packets, the listener or the connection, and the administration
FIFOs. A line is a record of its kind, number, key and value.

### UIConfig: definitions of the user interface

Reading (`get_config`, `parse_def`, `handle_def`), changing by request, listing
(`get_list`) and saving (`save_config`) of local, group and remote definitions.
A definition is a record of its levels, numbers and value. The array of group
names is modelled with its size, so that its overruns show. `NoLevel` is a third
or fourth level that is missing or unknown: `parse_def` lets it pass with a
token of -1 (`ui_src/p3config.c:457-470`), and the branches of the handlers that
refuse a level look up its name for their message at that index (`Refusal`).

### AdminFifo and UIAnon: interface, listeners and daemon

AdminFifo holds the two FIFOs as sequences of the three parts a request and an
answer are written in, the user interface's `send_request` and `get_response`
and the daemon's select loop, `get_request` and `admin_handler`, step by step,
with the kernel's rules for the ends of a FIFO (`Kept`, `DReads`, `DWrites`).
UIAnon extends it with the process around it: the commands that change the
anonymous-session settings, the forked listeners with their copies of the
settings, `p3listen`, `p3validate`, and `net_receive`/`net_transmit` over a
stream that delivers in pieces. Either side may be killed and started again.
A listener that OFF or quit has sent SIGTERM is `told` and ends in a step of its
own (`Die`), at any time after; until then it keeps the FIFOs, its port, its
settings and its session, and a listener forked meanwhile finds the port taken
(`Listen`). A peer is an address of one version of IP in one of its subnets: one
of another version than the subnet's is compared as whatever was on the stack,
so that `Admits` leaves open whether it is let in. `ConnectFailed` is a new
connection that has failed by the time `p3validate` looks at it, which replaces
a live session.

### MC modules

The constants of the runs; symmetry of the keys other than the configured one
(they are only compared); in MCSessionFaults a history variable that tells the
behaviours in which no packet was overtaken; in MCUIAnon the constraint on what
is combined with what.

## Runs

| run | shows |
|---|---|
| `session_lossy` | loss, reordering, duplicated data, failing sends: `KeysInStep` (never more than one key apart, and then the secondary is silent), `PrimaryOpensInOrder`, `LateOpens`, `SwitchOnlyInRekey` |
| `session_live` | delivery in order, data lost and duplicated, control messages kept, refused key indexes, across a wrap of the number: `SecondaryOpens`, `RekeyEnds`, `KeysConverge` |
| `smp_atomic` | one handler at a time per gateway, with loss, failing sends and a key server without keys: P3SessionSMP implements P3Session |
| `smp_cpus` | two CPUs on the primary: `OneStart`, `EncryptedWithID`, `HandlersReturn` |
| `ring_safe` | `InBounds` and `NoTornKey`, for mixed key sizes |
| `crypto_cpus` | two CPUs, two sessions: `LockExcludes`, `SlotsLive`, `GracePeriod`, `NoLeak`, `LockReleased` |
| `aes_cipher` | `AsStandard` (round by round, and the standard's example) and `Inverts` |
| `packet_trip` | `RoundTrip`, `PacketsLeave`, `PadInside`, `WorkArea` |
| `gateway_safe` | `NoPlaintext`, `NetworkSafe`, `FailedClean`, `Routed` for both roles |
| `config_files` | all files of up to five lines: `AsWritten`, `RawReady`, `FaultExplained` |
| `uiconfig_save` | load, change, save, load: `RoundTrip`, `MembersKept`, `FaultExplained` |
| `ui_process` | `InStep`, `Answered`, `SettingsApply`, `Framed` with time-outs, kills and restarts of the interface |

Each property has a mutant of the modelled code that breaks it.

Bounds.

- Session runs: a sequence space of 7 to 16 numbers and a rekeying every 2 or 3
  numbers, so that two or three exchanges, and where the run is about it the
  wrap, happen within `MaxSeq`; at most `MaxNet` data packets in flight when
  another is sent (control packets are not bounded); at most `MaxPerKey` numbers
  under one key, which bounds the traffic of a host whose exchange has failed,
  and keeps the numbers from wrapping within two generations of keys; as many
  keys as can be alive at once. Deadlock is not checked: users may stop sending,
  and the bounds stop them.
- The ring uses 84 bytes: like the real 4084 it leaves the remainders 4 modulo
  16 and 20 modulo 32, which decide where the indexes wrap. Deadlock is checked.
- `crypto_cpus` has one kind of context (the four are treated alike) and three
  addresses, fewer than slots, so that freed memory is used again by either
  session and memory runs out once new sessions have lost contexts. After a failed
  `CreateAESCtx` the lock may stay held for ever, so deadlock is not checked;
  states after the overlap described above, of which the properties say
  nothing, are not followed.
- `packet_trip`: sizes on both sides of every class limit, clock values for
  every block count and several orders, the bytes that move a border furthest
  either way and not at all; deadlock checked.
- `gateway_safe`: two hosts that share a network, four networks for a table of
  three (the code's eight, scaled), one packet at a time; deadlock checked.
- `config_files`: lines with ids at, inside and beyond both ends of arrays of 3
  hosts and 2 networks (the code's 32 and 8).
- `uiconfig_save`: every kind of definition with valid, invalid and boundary
  values, and with levels missing; files of up to three lines or a complete base file with changes.
- `ui_process`: two requests in each of two lives of the interface (a third
  life only while nothing has gone wrong and no listener runs), a daemon that
  may be killed but is started once, two listeners, two messages; `OneAtATime`
  keeps requests, sessions and definitions from being combined with all of each
  other, and with `ToldLater` a listener that was told to end goes on beside
  disturbed requests only in the first life. The theorems of UIAnonProofs know none of these bounds. The programs
  may stop, so deadlock is not checked.
- `aes_cipher`: keys of the three lengths and a refused one; no, one, two and a
  part of a block.

Fairness. `FairSpec` of the session: packets that are not lost arrive and the
receive handlers run (weak fairness of `Receive`); nothing is assumed of the
users. `SMPFairSpec`: a CPU that is not interrupted executes its code, and gets
a lock that is free again and again (strong fairness: spinlocks are ticket
locks; without it, two CPUs that keep dropping packets can starve a third).
`FairSpec` of CryptoCtx: a thread inside one of the functions goes on (kernel
code under a spinlock is not preempted), and `CreateAESCtx` returns, with or
without a context. KeyRing's `FairSpec`:
`system_handler`'s select times out after at most a second and calls
`buffer_handler` (`src/p3system.c:1379-1384`, `1468`), a kernel function runs to
its end, and the next packet that finds the rekeying due asks again.

### Counterexamples

Six more configurations are kept beside the runs. TLC finds the property
violated: each shows that something the code's own documentation says does not
hold in general.

| configuration | property | shows |
|---|---|---|
| `MCSession_wrap.cfg` (MCSession) | `LateOpens` | when the number wraps, packets numbered before the wrap are opened with the wrong key (`ksrc/p3knet.c:332`) |
| `MCSession_loss_live.cfg` (MCSession) | `RekeyEnds` | one lost control message holds back a host's data for ever: nothing is sent again and no timer clears the flag (`ksrc/p3kprimary.c:547`) |
| `MCSessionSMP_newkey.cfg` (MCSessionSMP) | `NewKeysShared` | a second CPU overwrites the new keys after the message with the first ones was built (`ksrc/p3kprimary.c:537`) |
| `MCSessionSMP_irq.cfg` (MCSessionSMP) | `RekeyingReturns` | a softirq spins on the session lock the process context of its own CPU holds (`ksrc/p3linux.h:150`) |
| `MCKeyRing_later.cfg` (MCKeyRing) | `TryLater` | a ring filled exactly once around looks empty for ever (`src/p3pri_key_server.c:142`) |
| `MCKeyRing_reuse.cfg` (MCKeyRing) | `NoReuse` | a call that finds no key at the start of the buffer still moves the head past the tail, and old keys are handed out again (`ksrc/p3kcrypto.c:135`) |

### Other disagreements the modules show

Session and keys:

- with `Env = {"dupctl"}`, a REKEY delivered twice makes a host switch again,
  outside any exchange (`rekey_session` never looks at the Rekey flag);
- with the threads `TwoOnSecondary`, a second CPU of the secondary sends data
  with the old key beyond the announced number, because `replace_key` sets the
  flag after its answer has left (`PrimaryChooses`), or takes a number while the
  answer is being encrypted (`EncryptedWithID`);
- with the threads `TwoOnPrimary`, a second CPU decrypts a packet between
  `p3_rekey` and the update of `rID0`, `rID1` (`PrimaryChooses`), and a packet
  numbered before the exchange is encrypted with the key after it
  (`SecondaryChooses`);
- with `Gen = {"same"}`, the build with the random generator, `NoReuse` fails at
  the first key: the `memcpy` of `src/p3crypto.c:69` goes the wrong way;
- a failed `CreateAESCtx` outside `p3_rekey` leaves `crypto_lock` held; inside
  it, both generations stay on one context, which the next rekeying deletes
  while it is current;
- a new session of a host that has contexts overwrites them without freeing
  them, and so does the first session after the host was defined, whose
  definition creates contexts for tests ("Temporary"): `NoLeak` except `lost`.

Packets and gateway:

- a SYN without an MSS option never leaves: `obfuscate` gives up once the option
  was added (`PacketsLeave` excludes the kind "addmss");
- the gateway's own packets from an address other than the configured one leave
  in clear, and TCP or UDP from the gateway to a local-subnet address, or a
  local packet to a remote subnet, follows a null pointer (`NoPlaintext` and
  `NetworkSafe` except them: `last.src = "me"`, `hook # "out"`);
- a route is entered before its host pointer is set, and networks become active
  before the `okfn` is stored: the two windows named in `NetworkSafe`;
- the ninth network is only a warning: it travels in clear;
- a failed load at the RAM disk leaks the character device, a failed
  `init_p3net` leaks `primain` and the routes; `P3EXIT` frees the tables before
  it removes the hooks.

Daemon:

- ids equal to the array sizes index one past the end, id 0 follows a null
  pointer; when the start fails, what was configured stays in the kernel; the
  shipped primary configuration writes one subnet number twice; a host whose
  lines are not contiguous is sent twice; the first remote host keeps the
  built-in intervals; Android sends its raw packet to the first host only;
- only the primary's `main` calls `system_handler`: the mains of the secondary
  and of Android sleep, and every request of their interface times out, where
  `src/p3secondary.c:51` says it listens.

Interface:

- a group whose number equals the count kept so far does not raise it, and the
  array made from the count at the first remote is never made again; memberships of SEC and NET groups are not saved;
  a local IPv6 address is read back as IPv4; groups above 254 are saved and then
  refused; the saved file is never given its final name;
- a definition whose third or fourth level is missing or unknown reads before
  the tables of level names (`ui_src/p3config.c:459-463`; the branches at 702,
  825, 871, 903, 929, 1005, 1138): the reason "level" in `FaultExplained`;
- a request that is read before it is complete is dropped (the daemon does not
  wait as the interface does); the status 0 of `send_request` ("0 = OK") is also
  returned at end of file, for an answer with another identification and for a
  short one; a late answer of an earlier interface is taken for the present
  one, because identifications restart at 1; one descriptor is lost per request;
- turning anonymous sessions on twice forks a second listener, whose bind fails,
  and the first is never stopped; the child's remotes never reach the parent;
- turning them off does not wait for the listener ("TODO: Use SIGKILL if
  shutdown unsuccessful", `ui_src/p3command.c:387`): it may still admit by its
  copy of the settings, and when they are turned on again before it has ended
  the new listener has no port and ends, with `anonpid` naming it;
- a subnet of one version of IP does not keep out peers of the other
  (`ui_src/p3anonymous.c:491-503`), and a connection that has failed already
  takes the place of a live session with the same address (`526`, where the
  status asked for is the new connection's);
- a length or data cut in two by the network is parsed wrongly; one byte of a
  length and then two are never a length, and what follows is written behind
  the two bytes there are for it (`ui_src/p3net.c:758-803`). The model stops
  counting there.

## Proofs

`KeyRingProofs`: `TypeCorrect`, `Bounded` (`InBounds`) and `Untorn`
(`NoTornKey`), for every buffer of at least 64 bytes, every set of key sizes
within {16, 32} and every `Gen`. The properties are not inductive. The
invariant `IInv` adds: the head is a multiple of 16 or a wrap away from it and
the tail of 8 (`Aligned`), so that `head - 8` never underflows while the
producer tests it; what the producer has established when it is about to write
(`ProducerInv`); and how the consumer's old copy of the tail relates to the
real one, which can only have moved forward, or wrapped, since (`TestInv`,
`RewoundInv`, `CopyInv`). A buffer below 40 bytes would be torn: the assumption
is needed.

`P3SessionProofs`: `TypeCorrect` for every environment, and under `Benign` (no
duplicated control packet, no failing allocation, a key server that has keys;
loss, reordering, duplicated data, failing sends and index messages all
allowed) `InStepAlways` (`KeysInStep`) and `SwitchHeldBack`
(`SwitchOnlyInRekey`), for every sequence space, key space and traffic.
`KeysInStep` alone does not say why an old message cannot do harm.
`ExchangeInv` does: at most one exchange is under way; each message in flight
determines the flags and new keys of both ends (`ReplaceInv`, `AnswerInv`,
`SwitchInv`); and a message sealed with keys its receiver no longer holds is
never opened (`ContextInv`, from the freshness of the keys). The three
assumptions of `Benign` are the ones the code needs: a duplicated control packet
makes a host switch again, a failed allocation leaves contexts of two keys
(`p3_rekey`'s status is ignored), and without a new key the old one is installed
again.

`CryptoCtxProofs`: `Excluded` (`LockExcludes`), `NoneDangling` (`SlotsLive`),
`NoneLost` (`NoLeak`) and `Survives` (`GracePeriod`), for any number of threads,
sessions, kinds and addresses. The inductive invariant adds what the lock and
the flag `lockheld` say of each other (`Discipline`, `HolderWorks`), that the
slot `p3_rekey` fills has a copy in the previous generation (`Overwritable`),
that what a new session has lost stays allocated and in no slot (`LostInv`), and where a context in use is to be found (`InUse`): in a slot of
its session or among the lost. `NoLeak` excepts what is lost; it
holds after failed allocations too, the others until one fails; the overlap
with a new session is excluded in all of them, as `fault` says.

The choice of keys by number is in the same module. `RangeInvariance`,
`LateOpensThm` (`LateOpens`), `PrimaryOpensInOrderThm` (`PrimaryOpensInOrder`)
and `SecondaryOpensThm` (`SecondaryOpens`), under `Benign` and for behaviours in
which no number wraps (`Low`: a run of a handler takes two numbers at most).
Without `Low` the first is false, as `MCSession_wrap.cfg` shows; TLC found the
same bound, and `session_lossy` satisfies it throughout. `RangeInv` extends
`ExchangeInv` by the numbers: a packet in flight under either key its receiver
holds lies in the range that `rID0` and `rID1` give that key (`Ranged`);
nothing is sealed with new keys that are still on offer (`Offered`); the
secondary's answer is the last packet it has numbered (`AnswerLast`), and the
number of the primary's parts the two keys (`AnswerParts`). `PriOK` and `SecOK` say in addition
that what is in flight in order is sealed with a key the receiver holds; the
secondary's also needs a network that neither loses nor reorders, as a lost
REKEY leaves it a key behind. `session_live` checks `SecondaryOpens` across the
wrap, which the theorem leaves out.

`P3SessionSMPProofs`: `OneStartThm` (`OneStart`), for any set of threads and any
environment, and `EncryptedWithIDThm` (`EncryptedWithID`) when the secondary's
handlers do not overlap (`OneOnSecondary`); for the primary alone
(`PrimarySealed`) it needs no such assumption. `SMPInv` says where each handler
can be (`Flows`), that one token goes round, which is the thread past the flag,
REPLACE_KEY, the thread that answers it, or REKEY (`OneToken`), that the flag of
the primary is set as long as it does (`Flagged`), and that a packet under
construction was numbered and encrypted with the `sseq` of now (`Sealing`): the
flag keeps data from taking a number meanwhile. On the secondary the flag is set
only after the answer has left, hence the assumption: with two threads there the
property is false (`ksrc/p3ksec_session.c:179`).

`ImplementsSessionThm`: P3SessionSMP implements P3Session (`ImplementsSession`),
for any spaces of keys and numbers, any traffic and any environment but one.
The assumptions: one softirq on each gateway (`OneEachHost`; with two, a
packet can be numbered before and encrypted after a switch of keys, as no step
of P3Session does); `p3_rekey` allocates its
contexts (`"nomem" \notin Env`), as the mapping's `Finished` completes a
rekeying that has begun, and cannot know how many contexts it will get; and the
next number does not wrap (`BelowWrap`), because packets in flight are a set and
their age is a difference of numbers. `smp_atomic` goes past the wrap on its
instance. The session lock is not assumed to help: what makes the steps of a
handler one step is that nothing else touches its own gateway's session, and
that its one packet leaves at one moment.
The inductive invariant `RefInv` says for each pc what the handler has done
since `was` that P3Session has not seen (`Doing`): for a control message, which
session it was built from (`Base`) and how far the packet is (`Built`); for one
that could not be sent, that the session is what `AfterSend` leaves (`Failed`);
for the secondary's switch, how many of its parts are done (`Switching`). Once
the packet has gone, `Leaving` says what remains, which `Finished` anticipates.
Besides, `RefInv` has what the guards of P3Session need at that later moment,
although the handler tested them when it began: the keys it picked are still
new (`Picked`), the packet it holds is still the oldest (`WasOldest`), there is
still room (`RoomFor`). A step then either leaves the mapped state alone
(`Silent`, `GoesOn`, the lemmas `...Refines`) or is the effect of the whole
handler (`Commits`, `Effect`; from them `Consumes` for handlers that send
nothing, `DataLeaves` and `ControlLeaves` for the others). The proof corrected
the model: a key counts as new only if no handler still has it in its hands or
in the session it began with (`HeldKeys`); before, `BuildNewKeys` could pick a key that
the mapped state still held.

`P3ConfigProofs`: `AsWrittenThm`, `RawReadyThm` and `FaultExplainedThm`, for
files of any length whose lines hold any ids, keys and values, any sizes of the
two arrays and all three applications. Assumed is the form of a line (`LinesOK`)
and that the arrays are not empty. The properties look at the list that was
sent and at the whole file; what keeps them going from line to line is `IInv`:
`sncfg` is NULL or one of the collected host's own subnets (`SnOK`, which fails
if it is not reset with the structure), subnet ids in a list are distinct and
are those of the block read so far (`Match`), the host collected is that of the
last remote line (`LastOK`), `remhosts` holds the ids sent and the one being
collected (`Registered`), and `snet` is set once a host is (`NetsOK`). A line is
a chain of small facts: what it does to the structure (`Applied`, found by
`RemoteSubnetDoes` and its like), what it does to the blocks of the file
(`SameBlocks`, `NewBlocks`), and that the two agree (`MatchApplied`). The blocks
are matched with the hosts by their ranks, for which cardinalities of growing
sets are enough: no induction over the file is needed, as the specification's
own steps are the induction. The proof corrected the model: several conditions
were `CASE`s whose guards overlap, where TLA+ leaves the choice open and TLC
takes the first; they are `IF`s in the order of the code now.

`P3GatewayProofs`: `NoPlaintextThm`, `NetworkSafeThm`, `FailedCleanThm` and
`RoutedThm`, for both roles, any hosts, networks, masks and table size. Assumed
is what the constants mean: a mask covers known addresses, every host is a
network of its own (`ConfigOK`), the names of the gateway itself are no hosts
(`NamesOK`). `GatewayInv` is what the order of the steps establishes: the
resources held while loading are a prefix of the list (`Loading`), the host
being configured is in the list and its networks before `cfg.i` are in the table
(`Adding`, `Table`, `Owns`), a network in the table has its host pointer but for
the one being added (`Pointers`), and the active local subnet its `okfn` but
between the two steps of its raw packet (`LanRaw`).

`P3PacketProofs`: `RoundTripThm`, `PacketsLeaveThm`, `PadInsideThm` and
`WorkAreaThm`, for every length below 65536, every content and every clock
(`SizesFit` states the fields' widths and the code's limits). `PacketInv`
follows the packet: the borders `obfuscate` cuts rise and lie apart (`Cut`), a
block has one header, with its bytes behind it, exactly when it was moved
(`Headers`, `Moved`), what is written and what the other blocks still need make
up the length the work area was given (`Filled`), and `deobfuscate` has read the
headers up to its index (`Sorted`). That a chain of headers leaves none out
needs induction over the offsets: it is done by the least counterexample, as the
library's induction theorems cannot be instantiated.

`UIAnonProofs`: `InStepThm`, `AnsweredThm`, `SettingsApplyThm` and `FramedThm`,
for any number of requests, lives of the interface and of the daemon,
descriptors, listeners, messages and subnets. `FifoOK` lists the phases of an
undisturbed exchange (`Phase`: at rest, asking, heard, answering, failing), who
has which end of which FIFO open in each (`Opened`, which is what makes the
kernel keep or discard what was written), and that nothing of an earlier
interface is left (`OnlyOwn`) unless `ev` says so. `AnonInv` adds the settings
that the parent and the listener not told to end have in common and that every
session fits its listener's own copy (`Settings`, `Fits`), told or not, and that the
bytes of a session read so far, buffered and on the wire are one sequence of
messages (`Framing`, `Stream`). Proving it corrected the model: a third
interface may start while the system application is still closing the FIFO of
the second, which `UIStart` did not count among the disturbances (`leftover`).

Every invariant above was checked with TLC before it was proved, but `RefInv`,
whose quantifiers range over sets TLC cannot enumerate: there the refinement
itself was checked, on the instance of `smp_atomic`.

Only model-checked:

- liveness (`RekeyEnds`, `KeysConverge`, `HandlersReturn`, `LockReleased`): out
  of the prover's reach;
- `SecondaryOpens` across the wrap of the number;
- `RoundTrip`, `MembersKept` and `FaultExplained` of UIConfig: `SaveConfig` is
  one step that flattens nested sequences into the file, and what it computes
  for every configuration is induction over data;
- `AsStandard` and `Inverts` of AES: both are statements about arithmetic in a
  finite field, computed by recursion over bits, bytes and rounds.

## Not modelled

- heartbeats: `build_heartbeat_message` is never called and the handlers are
  stubs; the other control messages (user messages, key arrays, REKEY_TEST)
  are never sent;
- a second configuration of a host already known to the kernel module (of a new
  session of such a host, only what it does to the contexts), reading,
  writing and mapping the RAM disk, IPv6 (a stub in this code);
- the daemon's `p3listener`, `transmit` and `receive`, which nothing calls (the
  interface's versions are in UIAnon); the primary's half of the Android port
  (`src/android/p3system.c:242-1082`), which is not built; the secondaries'
  `system_handler`, which is never reached; `external_cmd`; p3primaryplus, which
  differs from the primary by its name;
- answers in shared memory blocks; menus, prompts and message texts of the
  interface;
- the AES library's other modes and its headers (`hw_accel.h`, `merrors.h`):
  vendored, unused;
- S3: a skeleton without logic.

## Plan

Done: all components but S3, and proofs of all safety properties of P3Session,
KeyRing, CryptoCtx, P3Packet, P3Gateway, P3Config, AdminFifo, UIAnon and
P3SessionSMP, and of the refinement of P3Session by P3SessionSMP. Left:

1. P3Session across the wrap: `SecondaryOpens` with numbers compared as the code
   compares them.
2. KeyRing, CryptoCtx and P3Session composed: the status of `p3_get_key` and of
   `p3_rekey`.
