# Specifications of linux_kernel_magic

The repository is a collection of small C programs, kernel modules and eBPF
tracers that show Linux mechanisms at work. This directory holds TLA+ models of
the ones with a state worth checking, the TLC configurations that check them on
small instances, and TLAPS proofs of nearly all the safety properties, for every
size of the instances. Source paths below are relative to `src/`.

## 1. Inventory

| Component | State it keeps | Operations | What is hard |
|---|---|---|---|
| `io_uring/file_uring2.c` | counters `insize`, `write_left`, `offset`, `reads`, `writes`; one heap block per request; the ring | queue reads, reap, turn a read into a write, requeue, drain | completions in any order, short transfers, retries, a full ring, early returns |
| `io_uring/file_uring_single_buffer.c`, `file_uring_multi_buffer.c` | `insize`, `offset`, `reads`, `writes`, `flag`; blocks; the ring | queue a batch of reads, receive them and queue writes, receive the writes | leftovers of a batch that stopped early, waits that cannot return |
| `io_uring/file_uring.c` | `offset`, `i`, the ring, file position of the destination | queue all reads, submit once, append in completion order | order, ring capacity, file sizes that are multiples of the block |
| `io_uring/normal.c` | two stdio streams | read, write, close | errors that appear at the last flush |
| `io_uring/socket_uring_server.c` | ring, `ConnInfo` per request on the heap, descriptors | accept, receive, send, drop | ownership of records, reuse of descriptors, mixed batches of completions |
| `io_uring/socket_uring_normal.c` | ring, one buffer, record packed in `user_data` | the same | one buffer for all, completions that are not what they look like |
| `mqueue/*` | a queue name, queues, both processes' descriptors | open, send, receive, close, unlink | start order, an old queue, a full queue |
| `eBPF/tc_trace.bpf.c`, `xdp.bpf.c` | ring buffer to user space | parse a packet, verdict, copy the payload | bounds at every header, lengths at the capacity, a full ring |
| `eBPF/tc_trace.c`, `xdp.c` | qdisc hook, filter or XDP program of an interface; per process flags | load, attach, poll, detach, clean up | two loaders at once, jumps to one cleanup label, kills |
| `eBPF/test.bpf.c`, `test.c` | hash map of file names, ring buffer | entry probe, return probe, poll | threads of one process share a map key |
| `timer_list.c`, `tasklet/`, `workqueue/`, `complete/`, `task_work/` | a timer, tasklet, work item, completion, task work | schedule, callback, unload | callbacks that race unload |
| `driver_demo/`, `ioctl/` | device number, class, cdev, node, `/proc` entry; `device_status` | register, open, read, write, ioctl, unwind | what a failed load leaves for the next, users inside a module that goes |
| `netdev/netdev_demo.c` | NAPI state, references to the physical device | open, stop, poll, transmit, unregister | a poll that never completes against `napi_disable` |
| `del_module/force_rmmod.c` | the reference counters of another module, per CPU | overwrite, add up | CPUs that change, references that come and go |
| `io_uring/socket_uring.c`, `socket_uring_client.c` | ring, one buffer | accept, receive, answer, close | blocking sends inside the loop, clients that go |
| `sendfile/copy.c` | two files | one `sendfile` | a short transfer, unchecked opens |
| `inotify/*`, `aio/aio.c` | event buffer and offset; control block, eventfd | read and walk events; submit, wait, collect | event boundaries; two channels for one completion |
| `eBPF/uprobe_go*` | ring buffer | probe, print | slots used again, strings without terminator |
| `eBPF/kprobe_sendmsg.c`, `lsm_control.c` (and the `main` of `test.c`, `uprobe_go.c`) | `err`, `stop`, attachment | load, attach, wait, clean up | jumps to one cleanup label |
| `semaphore/`, `per_cpu/`, `list.c`, `kfifo_test.c`, `container_of.c`, `get_physical_addr*.c` | fixed local data | one pass in the init function | little: one thread, fixed inputs |
| `eBPF/kprobe_sendmsg.bpf.c`, `lsm_control.bpf.c`, `fetch.go` | none | filter, print | little: functions of their arguments |

How they interact: the programs are separate. Inside one program the actors are
the process and the kernel side of its ring (`io_uring/`), the server, the
kernel and its clients (socket servers), two processes over a queue (`mqueue/`),
probes on several CPUs and a reader in user space (`eBPF/`), several loaders on
one interface, or insmod, rmmod, the users of a module and what the kernel calls
in it (kernel modules). `PROJECT.json` lists the hazards of each at its line.

What makes each correct: a copy that reports success is the source, and no wrong
byte is ever written; a block or a record has exactly one owner; no wait that
cannot return; a client gets its own bytes back, and everyone is accepted;
messages on one queue are neither lost nor reordered; a verdict depends on the
packet only and a copy stays inside packet and buffer; an event tells the truth
about the call, once and in order; a loader leaves the interface as it found it
and harms no other; a module that is gone has no user, no callback and nothing
registered.

## 2. Modules

| Module | Models | Composes |
|---|---|---|
| `FileCopy` | abstract: bytes arrive in their right places in any order; success only when all are there | |
| `FileUring2` | `io_uring/file_uring2.c` | implements `FileCopy` |
| `FileUringBatch` | the two batch programs (`setting.variant` = "single" or "multi") | |
| `FileUring` | `io_uring/file_uring.c` | |
| `NormalCopy` | `io_uring/normal.c` | implements `FileCopy` |
| `SocketRing` | environment: ring, descriptors, TCP connections, clients (no code of the repository) | |
| `SocketUringServer`, `SocketUringNormal` | the two echo servers | extend `SocketRing` |
| `Mqueue` | `mqueue/mqueue_sender.c`, `mqueue_receive.c` | |
| `HttpTap` | `eBPF/tc_trace.bpf.c`, `xdp.bpf.c` (`Variant`) | |
| `UnlinkTrace` | `eBPF/test.bpf.c` and the poll loop of `test.c` | |
| `TcTrace`, `XdpTrace` | the loaders `eBPF/tc_trace.c`, `xdp.c` | |
| `SendFile` | `sendfile/copy.c` | implements `FileCopy` |
| `SocketUringHttp` | `io_uring/socket_uring.c` | extends `SocketUringNormal`: same ring, set-up and loop, other handling of a receive |
| `UprobeGo` | `eBPF/uprobe_go.bpf.c` and `handle_event` of `uprobe_go.c` | |
| `SkelLoader` | `main` of `kprobe_sendmsg.c`, `lsm_control.c`, `test.c`, `uprobe_go.c` (`program`) | |
| `Inotify` | `inotify/inotify.c`, `inotify_epoll.c` (`program`) | |
| `AioRead` | `aio/aio.c` | |
| `DeferredWork` | the five deferred work modules (`mechanism`) | |
| `CharDevice` | the three character devices and the `/proc` file (`program`), with the user programs | |
| `NetDev` | `netdev/netdev_demo.c` | |
| `ForceRmmod` | `del_module/force_rmmod.c` | |
| `FileUring2Proofs` | theorems about `FileUring2` | |
| `OtherCopiesProofs` | theorems about the four other copies | extends `MCOtherCopies` |
| `SocketUringServerProofs` | theorems about `SocketUringServer` | |
| `SocketUringNormalProofs` | theorems about `SocketUringNormal` and `SocketUringHttp` | extends `MCSocketUringNormal` |
| `MqueueProofs` | theorems about `Mqueue` | |
| `EventReadersProofs` | theorems about the taps, both tracers, the inotify programs, the asynchronous read | extends `MCEventReaders` |
| `TapLoadersProofs` | theorems about the loaders | extends `MCTapLoaders` |
| `KernelModulesProofs` | theorems about the kernel modules and `ForceRmmod` | extends `MCKernelModules` |
| `MCOtherCopies` | one copy program per behaviour | `FileUringBatch`, `FileUring`, `NormalCopy`, `SendFile` |
| `MCSocketUringNormal` | echo server with one buffer or HTTP server | `SocketUringHttp` |
| `MCEventReaders` | one reader of kernel events per behaviour | `HttpTap`, `UnlinkTrace`, `UprobeGo`, `Inotify`, `AioRead` |
| `MCTapLoaders` | one loader per behaviour | `TcTrace`, `XdpTrace`, `SkelLoader` |
| `MCKernelModules` | one module per behaviour | `CharDevice`, `DeferredWork`, `NetDev`, `ForceRmmod` |
| other `MC...` | settings, model values for TLC | |

Small programs with the same question share a run: `which` is chosen by the
initial state, only that program takes steps, and the state of the others stays
as it began.

Variables carry the names of the C variables (`insize`, `write_left`,
`cqecount`, `hook_created`, ...). `pc` is the place in the function; one action
is the code between two places where another actor can be noticed, with every
call in it. Each source of failure is a member of `Faults`, and the action of a
failing call is enabled only when its fault is in the set. In `FileUring2`
`Faults` is a constant. Elsewhere it is fixed by `Init`, together with the
program variant or the start order where there is one, out of the sets the
configuration offers; a property that a fault would break then names that fault
in its hypothesis, so that what a program does not survive can be read off its
properties.

**File copies.** `sq`, `inflight`, `cq` are the requests queued, taken by the
kernel and completed. A block is named by its file offset, which is handed out
once. The byte of the source at position `i` is the number `i`; `Hole` is a
position never written, `Junk` a byte of memory nobody filled. So "the right
byte" is `dest[i] = i`, and a byte that went to a wrong place or came from
uninitialised memory is visible. `cq` is a set in `FileUring2` and `FileUring`
(the kernel completes in any order, so the order of the queue adds nothing) and
a sequence in `FileUringBatch`, where entries that are not marked seen stay at
the head. A submission takes all entries, or with fault "submit" some or none.
A NULL sqe that the code dereferences, or a failed `malloc` in the batch
programs, ends the program with status `SIGSEGV`.

**Socket servers.** `inflight` holds requests each with their number (two equal
ones can be under way), `cq` is a sequence of which the server handles a batch
of at most `CQE_LEN` and then advances past. Byte `k` of client
`c` is `<<c, k>>`. A request holds the file its descriptor meant when it was
submitted, as the kernel's does; the lowest free descriptor is the next one
given out. `Info` is the memory `malloc` hands out; exhausting it is not
modelled (the code does not survive it: `memset` before the NULL test). The
unused `io_uring_get_sqe` of both `main`s leaves a request with zeroed fields,
which the kernel completes as a no-op. In `socket_uring_server.c` its user data
is NULL and it is skipped; in `socket_uring_normal.c` and `socket_uring.c` zero
reads as an accept. An answer of the HTTP server is the content of the one buffer
when `render` reads it; the request line and the file are data. `render` is two
steps: what it reads and its first send, and the rest of the sends with the close,
which may be held up by a client that does not read.

**Message queue.** A queue lives on while somebody has it open; a name can be
unlinked under a process that holds the queue. `Order` says who starts first. A
queue of an earlier run, with or without a message in it, may have the name. A
message that fills the buffer puts its terminator one past it, on an unused byte
or on `mq`: the model takes either.

**HTTP taps.** A packet is its protocol fields and its length; the offsets are
the real header sizes. `CAP` is the payload capacity (256 or 1024 in the code,
small in the runs; the tc test compares with `CAP - 1` and asks for `CAP`). The
header lengths come from the packet and may be less than a header, even zero; a
packet is well-formed (`Complete`) when they are not.

**Tracer and loaders.** A probe reads through the pointer `bpf_map_lookup_elem`
returned in a later step, and when another thread of the process has deleted or
replaced the element in between, the read returns any name that may be there by
then. In `TcTrace` the interface has one hook and one filter at priority and
handle 1; destroying the hook flushes the filter. In `XdpTrace` a program
attached through a link refuses `bpf_xdp_detach`; a program of somebody else
(`Foreign`, there from the start) does not. `UprobeGo` keeps the bytes of each
slot of the ring, each byte tagged with the call it came from, since a slot is
not cleared. In `SkelLoader` and `XdpTrace` `err` is "junk" until it is assigned, and
returning it may give 0 or not.

**inotify and AIO.** An event is an operation and the length of its name; the
buffer is read by offsets, so a walk that leaves the boundaries finds nothing.
The kernel merges equal neighbours and replaces what does not fit by one overflow
event, for which no line of `display_event` sets `operate`. In `AioRead` a
completion is put into the ring and counted in the eventfd in two steps.

**Kernel modules.** insmod, rmmod and the callbacks run on different CPUs. What
an exit function waits for is modelled by what the kernel call waits for:
`del_timer` for nothing, `tasklet_kill` and `cancel_work_sync` for the callback,
`remove_proc_entry` for handlers that run. In `CharDevice` a load registers
things one by one, `left` is what earlier loads did not take back, and a NULL or
error pointer that is dereferenced is "oops". A module can be live without class
or node, since the results of `class_create` and `device_create` are not looked at;
it is then opened through a node made by hand. `ForceRmmod` has the counters of
every CPU, which start with the reference that loading the other module took and
gave back, perhaps on different CPUs; its init function may be on another CPU at
every step.

## 3. Runs

| Run | Instance | Shows |
|---|---|---|
| `FileUring2_faults` | 7 bytes, blocks of 2, depth 3, every fault | block ownership, counters that never go below 0, a free entry for every requeue, no wrong byte, blocks of the kernel untouched |
| `FileUring2_copy` | 5 bytes, depth 2, the faults `copy_file` copes with (`Handled`), interrupted waits included | implements `FileCopy`, never waits in vain, ends |
| `OtherCopies` | batch programs: 5 bytes, depth 1 and 2, four fault sets; `file_uring`: every size up to 6, depth 3, no fault or all; `normal` and `sendfile`: 6 bytes | ownership, unchecked `io_uring_get_sqe` never NULL, only bytes that were read written, success means complete, the programs with a ring end; `normal` and `sendfile`, with every fault or none, implement `FileCopy` but for one unnoticed failure each |
| `SocketUringServer_faults` | two clients, 2 bytes each, batches of 2, four descriptors, every fault | records and descriptors have one owner, echoes in order under short sends |
| `SocketUringServer_live` | the same, clients may leave early, no kernel errors | each client's bytes come back once and in order, everyone accepted, everything echoed |
| `SocketUringNormal` | either server, two clients, 2 bytes in all (both of one client or one of each), with and without one reset and clients that do not read their answer | one request per connection and none on a closed descriptor, own bytes in order for a client while nobody else sends and otherwise no invented ones, everyone accepted, HTTP requests answered |
| `Mqueue` | capacity 2, up to 8 messages; any order with every fault, or sender first with none | nothing lost, doubled or reordered on a shared queue, clean end, both end |
| `Mqueue_order` | the order of `mqueue/README.md` | **violation**: the receiver waits for ever |
| `EventReaders` | both taps with packets cut around headers and capacity, a ring of one event; three threads, alone or two in one process, map of 2, ring of 2; Go strings of up to 4 bytes for events that hold 3, two slots, four calls; five inotify events, a queue of 3, a buffer that holds one or several, an interrupted call, a failing `epoll_create`; one asynchronous read | verdicts, captures inside the packet, arguments of the right call, no stale map entry, events once and in order, everything reported |
| `TapLoaders` | three processes of `tc_trace` or `xdp`, or one of the other four loaders; every call failing, kills | when a running tap can lose its filter, links own programs, what exit status 0 means, interrupts stop |
| `KernelModules` | two users, two loads, no fault, all, all but `cdev_add`, or all but `class_create` and memory; each mechanism; two packets; two CPUs and two references | nobody inside a module that is gone, nothing left of it, results there when signalled, counts not too low, insmod, rmmod and ifdown return |
| `ForceRmmod_readme` | two CPUs, two references, nobody else active | **violation**: the count is not cleared |

**Bounds.** Seven bytes with blocks of 2 and depth 3 give four blocks, the last
one partial, one more than the ring can hold, so that reads, writes and requeues
compete for entries and the outer loop runs several rounds; five bytes and depth
2 are the same situation with one block less, small enough for liveness. For the
batch programs a full batch and a partial one are reached at both depths, and
leftovers of an abandoned batch meet the next. `FileUring` takes every size up to
6, hence the empty file, multiples of the block and both sides of the ring's
capacity. Two clients with two bytes and a buffer of two bytes give whole and
split messages, a descriptor table of four forces reuse, and a batch limit of two
leaves completions for the next round. In `SocketUringNormal` the clients send two
bytes together (`MaxTotal`) and one of them may reset (`MaxResets`): one client
with two bytes, whole or split, for the order and the repetition of echoes, or two
clients with one byte each for the shared buffer; with liveness and no symmetry
more is out of reach. Symmetry over clients is used in the run of invariants only. Packets need one of each header size, the
truncations at every bound the code tests, and payloads from none to one past the
capacity; two packets and a ring of one event give the full ring. Three loaders
are needed for the case in which one detaches the filter of another after a third
flushed its own. Go strings reach one past the capacity of an event and every slot
is used twice. The inotify buffer holds one long or several short events, and the
queue is shorter than what happens, so that reads cut the stream in every way and
the overflow is reached. Two loads in a row are needed to meet what the first left
behind, two users for one to be inside while the other opens. Two CPUs are enough
for the writes, the sums and the references of `ForceRmmod` to fall on the same or
on different ones. Counters that would grow without bound are capped by named
constants: `MaxSize`, `MaxBytes`, `MaxTotal`, `MaxResets`, `MaxFd`, `MaxLines`, `MaxSent`, `MaxPackets`,
`RingSize`, `MaxCalls`, `MaxEntries`, `MaxEvents`, `MaxQueued`, `MaxInterrupts`,
`MaxTimeouts`, `MaxLoads`, `MaxGets`. All sizes are constants that the
configurations give small values, also in the modules that put several programs
together, so that the theorems speak of every size.

**Deadlock** is checked for `FileUring2`, which must go on or end. It is off where
the system may rest: a server with no client left to serve, queues and loaders
that have ended, readers with nothing to read, modules nobody loads; and for the
batch programs, which after a failed read wait for a write that does not come.

**Fairness.** Weak fairness of the program: a runnable process is scheduled.
Where a wait may be interrupted (`WaitFails`, fault "intr") the interruption is
no part of it: nobody owes a signal, so that a wait with nothing in flight is not
rescued by one and shows as a wait that never ends.
For the kernel, that it carries out a request it has taken; in `FileUring2`,
where a request may come back with EAGAIN or short and be queued again, strong
fairness per block: the kernel does not refuse one block for ever. Socket
servers: weak fairness of the server and of the kernel per connection; clients
owe nothing. The HTTP server owes no step while a client that is there and does
not read holds up a send (`Held`), and `EveryoneServed` leaves out the behaviours
in which that lasts for ever. The echo servers' sends are asynchronous, and what
is echoed is taken to fit into the socket's buffer: a client that never reads is
not modelled there. `Mqueue`: both processes run and the user types a stop message
within `MaxLines` lines. `EventReaders`: the programs run and the kernel
completes a read; nothing needs to happen in the watched directory. Loaders: the
main function runs; nobody owes an interrupt, and `AllStop` speaks of the ones
that come. Kernel modules: init and exit functions, users inside a call, and what
the kernel has scheduled go on; nobody owes a load, an unload or an open.

### Where a property has to make an exception

The models showed the following; each is a case the property of that program
leaves out by name, and none is stated as promised by a text of the repository
unless quoted.

- `file_uring2.c`: the drain takes a short write for a whole one (line 200) and a
  refused submission ends the loop as if all was read (line 127): status 0 for an
  incomplete copy. A `malloc` that fails with nothing outstanding waits for
  nothing (line 136), and a truncated source is read for ever (line 164).
- Batch programs: after a failed read the last wait never returns
  (`file_uring_single_buffer.c:88`; `CopiesEnd` therefore leaves failed reads out); failed and short writes and interrupted waits
  are not noticed by `main`; `file_uring_multi_buffer.c:71` writes the whole block
  after a short read.
- `file_uring.c` appends blocks in the order of completion (line 114), and
  dereferences NULL for more than `DEPTH` blocks (line 79).
- `normal.c` prints "File copied successfully." without looking at the result of
  `fclose` (line 49). `PlainRefineFileCopy` allows success for a copy that lacks
  no more than stdio's buffer then (`Overlooked`), and nothing else.
- `socket_uring_server.c`: the timeout of line 41 ("3秒超时" at line 37) is
  overwritten by the accept prepared in the same sqe (line 42); after a failed
  accept no other is armed (line 182); what a short send leaves is lost.
- `socket_uring_normal.c`: with two clients one can get bytes of the other, which
  `OwnBytes` does not forbid (it asks for bytes that somebody sent, and no more
  than were received); the
  no-op of line 147 is taken for an accept on descriptor 0, though line 168 says
  "if cqe->res > 0, it means success"; after a failed send a receive is queued on
  the closed descriptor (line 187).
- `tc_trace.bpf.c`: a payload of exactly 255 bytes is reported empty (line 86);
  `CaptureRight` says nothing of the length of this one capture.
- `tc_trace.bpf.c:71` and `xdp.bpf.c:78` say of the test that follows "确保 Payload
  中至少有一些数据（防止握手期间的纯 ACK 包空跑）" (make sure that there is some
  payload, to keep out the bare ACKs of the handshake), but `payload > data_end` lets
  an empty payload through, and it is reported as an event without content. The
  model has the test as it is written: `CaptureRight` holds with such events. This
  disagreement has no run of its own.
- `test.bpf.c`: of two threads of one process in `do_unlinkat`, one can go
  unreported or be reported under the other's name (key at lines 32 and 48).
- `tc_trace.c`: the loader that made the hook flushes the filter of another that
  runs (line 123); a ring that cannot be made leaves the filter and status 0.
- `xdp.c` assigns `err` only when the attach or the handler fails: after a ring
  that could not be made (line 91) it may return 0, and after a regular end
  something else (lines 52 and 102). `StatusTruthful` names the first and does not
  claim that a stopped loader returns 0.
- `eBPF/ebpf.txt:86` says that an XDP program may stay after Ctrl+C. The comment
  at `xdp.c:70` says so of the old way to attach only, which is commented out;
  with the link of line 75 it does not happen (`XdpLinkOwnsProgram`, whose mutant
  is the old way).
- `xdp.c:100` ("恢复网络", restore the network) removes a program of somebody else
  that was attached without a link.
- `lsm_control.c:29` returns an `err` that was never assigned; `uprobe_go.c:75` and
  `kprobe_sendmsg.c:50` return 0 after a failure; `test.c:58` and `uprobe_go.c:102`
  poll a ring that could not be made.
- `uprobe_go.bpf.c:59`: after a shorter argument the reader prints the rest of an
  older one, since the slot is not cleared and no terminator is copied.
- `socket_uring.c`: a client that stays and does not read a long answer blocks the
  loop in `send` (lines 74 and 78), and with it every accept; a client that resets
  while it is answered ends the server (SIGPIPE, same lines); a client that leaves keeps its descriptor (line 142).
- `mqueue_receive.c:36`: the terminator of a full message may overwrite `mq`, and
  the loop then never ends.
- `inotify.c:8`: after an overflow of the queue `operate` is uninitialised.
- `sendfile/copy.c:28` prints "Successfully copied" and returns 0 for a part: the
  exception (`Overlooked`) of its half of `PlainRefineFileCopy`.
- `inotify_epoll.c:54` and 58: when `epoll_create` or `epoll_ctl` fails the program
  runs on and is told of nothing.
- `aio.c:24` allocates 1024 bytes for a read of 4096 (line 41). The model has no
  addresses and says nothing about it.
- `timer_list.c:30` does not wait for a callback that runs, and the callback arms
  the timer again; `complete_demo.c:22` and the callback of `task_work_demo.c` may
  run after the module has gone.
- `driver_demo.c:81` unregisters major 0 and leaves the device registered;
  `driver_demo_new.c:94` leaves number and class, `ioctl_demo.c:64` the class, when
  `cdev_add` fails. Both ignore what `class_create` and `device_create` return: with
  a class that could not be made, because of what an earlier load left or for want
  of memory, the module goes live without a node, and its exit function, after it
  gave the number back, dereferences the error in `device_destroy`
  (`driver_demo_new.c:104`, `ioctl_demo.c:75`). `device_write`
  clears the memory before it tests the pointer.
- `ioctl_demo.c:26`: of two users one can read back the status of the other, which
  `ResultSeen` does not forbid; it forbids values that nobody set.
- `netdev_demo.c:15` never gives back its reference to the physical device, which
  cannot be removed any more once a packet was forwarded.

Two disagreements with a text of the repository have a run of their own:

- `Mqueue_order`: `mqueue/README.md` starts the receiver first (lines 9 and 10).
- `ForceRmmod_readme`: `del_module/README.md` (lines 26 and 27) gives `m_decs` the
  count of `lsmod` and then removes the module. The code overwrites the counters
  of the one CPU it runs on, where loading the module may already have counted
  (line 16 there quotes the kernel); the total becomes 0 only when the two values it overwrites
  were equal, as they are on a CPU that had no part in the count.

## 4. Proofs

`FileUring2Proofs` proves for every `N`, `BUF_SIZE > 0`, `DEPTH > 0` and every
set of faults (`ConstantsAssumption`): `TypeCorrect`, `RingOwnershipHolds`,
`AccountingHolds`, `SqeAlwaysAvailable`, `NeverCorrupts`, and the action
property `KernelOwnsBlocks`.

None of these is inductive alone. The invariant `IInv` adds

- `Blocks`: a live block's `offset` and `iov_base` move together, its rest and
  what is done add up to `first_len`, only the last block of the file is shorter
  than `BUF_SIZE`, live blocks do not overlap, and `insize + offset = N`;
- `Contents`: the part of a block already read holds the source's bytes, the
  whole of it once it is a write; a completion never claims more than was asked;
- `WriteLeft`: while the loop runs, `write_left` is `insize` plus the lengths of
  the blocks being read. The lengths are all `BUF_SIZE` but perhaps one, which
  gives the sum without a recursive definition. It is what keeps `write_left`,
  a signed `off_t` that the loop compares with 0, from going below it.

`RingOwnership` is needed for `Accounting` (the counters count blocks, and one
completion per block is handled at a time), `Accounting` for `SqeAvailable` (a
completion's block is not in the queue, and there are at most `DEPTH` blocks),
`Blocks` and `Contents` for `NoCorruption`. One lemma per conjunct (`StepType`,
`StepOwnership`, `StepAccounting`, ...) has one step per action; actions that
only move `pc` or change the ring without touching a block are grouped.

The second part of the module assumes `Benign`: submissions are not refused and
writes are not short. Neither can be dropped (see the first entry of the list
above). `CInv` adds to `IInv`: a completed write has put its block in the
destination (`Writes`), every queued byte is copied or its block is live
(`Covered`), and what holds in the drain and at the end (`Ending`). From this: `CopyIsComplete` (status 0 means
every byte was copied), `NothingLeaks` (and every block freed), and `Refinement`:
the initial states map to initial states of `FileCopy`, a kernel write is a
`Deliver`, the final step a `Succeed` or `Fail`, and everything else stutters.

`OtherCopiesProofs` (`ConstantsAssumption` of `FileUringBatch`, `SizesAssumption`):

- Batch programs: `BlockOwnershipHolds`, `SqeAvailableHolds`, `NoJunkHolds`, from
  `BatchInv`. Its parts: `Place` (which counters go with which `pc`), `Owned` (a
  live block is in exactly one place), `Room` (blocks in the queue against the
  depth), `Lengths` (what a request asks for and a completion claims, for every
  environment that the property does not leave out, and what was read to fill it) and `Progress`, which follows
  a batch: every byte below the block to be queued next is in the destination or
  its block is live, and what has been received and is still to come adds up. The
  leftovers of an abandoned batch are why `Owned` and `Room` must hold without
  `Progress`, which assumes that no unnoticed failure happens.
- `file_uring`, when nothing fails and the blocks fit in the ring: `UringInv` says
  that the number of completions handled is that of the blocks appended, that all
  of them but the last of the file are whole, hence the length of the destination,
  and that every byte of them is in it. Together with the batch programs this is
  `CopiesCompleteHolds`.
- `normal` and `sendfile` implement `FileCopy`, where their result is the exit
  status and the message that goes with it, but for one step each (`Overlooked`,
  `PlainRefinement`), for every set of faults: `NormalInv` orders what was read,
  written and flushed and bounds what stdio holds back, `SendInv` ties the result
  of the call to what it wrote.

`SocketUringServerProofs` (`RingAssumption`, and `EnoughMemory`: at least two more
records than clients): `InfoOwnershipHolds`, `FdOwnershipHolds`, `EchoInOrderHolds`,
`EchoIntegrityHolds`, for any clients, descriptors, buffer size and faults.
`ServerInv` says that each record is the user data of exactly one request or
completion (`Owned`), that the request is the one its record tells (`Asked`), that
there is one record for the accept and that descriptors of connections differ,
while the descriptor in the completion of an accept belongs to no record yet
(`Descriptors`); and for the bytes (`Echoes`) what a client has got while its
connection waits, how far it is behind when its buffer holds the last `n` bytes,
and that a new connection has received nothing. `EnoughMemory` stands for a
`malloc` that succeeds. That it is enough is proved by counting (`RoomForTwo`):
when a connection was just made, the records in use belong to different clients,
so that the two the server needs, for the read and the next accept, are free.

`SocketUringNormalProofs` (`RingAssumption`, `BatchAssumption`): `OneRequestHolds`
and `OwnBytesHolds`, for any clients, descriptors, buffer size, completions per
round and faults. These servers keep no record of a connection, so that the
invariant `OneBufferInv` is about descriptors.

- `Shapes`: what requests and completions look like, whatever happens. The no-op
  of the first, unprepared entry completes as an accept that made descriptor 0,
  and is told apart only by what the invariant says of descriptor 0.
- `Kept`, for both servers: at most one request or completion not yet handled is
  about a descriptor (`Unique`); if there is one, the descriptor is a connection,
  or the standard input; a request in the kernel is for the connection its
  descriptor still refers to; two descriptors are never one connection
  (`Descriptors`). Who is sent to has sent something, and a receive that brought
  nothing means that the client is gone (`Heard`).
- `EchoKept`: every connection has its request, and a client has got all that was
  received from it but the bytes of the request or completion about it, which are
  in the buffer if nobody else has sent anything (`Ledger`). Without faults a
  client that has closed has got everything (`Settled`), so no send fails.
- A send that fails closes the descriptor and then receives from it: after that
  `Kept` is lost, a number can be given out while a request is still about it. For
  a client that is the only one to have sent, the connection closed is its own, and
  nothing can be sent to it any more (`Gone`), which does not depend on `Kept`.
  That is why `OneRequest` asks that the echo server meets no faults, and
  `OwnBytes` only that no send is cut short.
- Without faults every byte in the buffer and in an echo is one that was received
  from some client, and a client gets no more than was received from it: the part
  of `EchoIntegrity` that holds when several send.
- `HttpKept`: a request is received from a client once, its first byte opens the
  buffer while nobody else has sent one, and what is answered is closed (`Pages`).

One lemma per kind of step carries each part (`KeptConnects`, `EchoKeptSends`,
`HttpKeptReceives`, ...), from lemmas about the ring (`PostedOne`, `SubmittedOne`,
`HandledOne`): a step moves the one thing about a descriptor to the next place.
`CountOne` ties this to the cardinalities of `OnDescriptor`. The proof found the
premise of `EchoIntegrity` on short sends, which the run never has: what is cut off
is not sent again.

`MqueueProofs` (`MqueueAssumption`): `NothingLostHolds`, `CleanEndHolds` for any
capacity, messages and faults. `MqInv`: which queues exist and who holds which
(`QueuesInv`), what is in them (`MessagesInv`, `DeliveryInv`: sent is received and
then queued, on a queue both hold), and that a stop line is the last one on both
sides (`StopInv`).

`EventReadersProofs` (`HttpTapAssumption`, `ReadersAssumption`,
`EventsAssumption`): `VerdictRightHolds`, `CaptureRightHolds` for all packets and
capacities; `NoStaleEntryHolds`, `ArgumentTruthfulHolds` for all threads,
processes, event sizes and rings; `ReportedInOrderHolds` for all lengths of events,
buffers and queues. `ReadersInv` has a part per program: `TapInv` (an event in the
ring is that of a reported packet), `UnlinkInv` (no entry is stale, the entry
of a thread without siblings is that of its own call, and so are the events in the
ring), `UprobeInv` (a byte of a slot is NUL or what some reported call had at its
place; in an event not yet printed it is no later call's, and the event's own within
its length), `NotifyInv` (what was
queued is what was shown, then the rest of the buffer from the offset, then the
queue; the offset is the end of an event) and `AioInv` (what the eventfd counts is
in the ring). The proof of `VerdictRight` found the premise on header lengths
(`Complete`) that the earlier packets of the run had hidden.

`TapLoadersProofs` (`TcTraceAssumption`, `ForeignAssumption`): `TapsStayHolds`,
`XdpLinkOwnsProgramHolds`, `StatusTruthfulHolds` for any number of loaders.
`LoadersInv`: a tracing process without its filter lost it to a maker of the hook
that has ended, and one that ended without an error has no filter any more, unless
setting up the ring fails (`TcInv`); a process holds a link exactly while its
program is attached, `err` is assigned by two failures only, and one whose ring was
made leaves the loop when it is stopped (`XdpInv`); what `err` holds at each label
and which call failed (`SkelInv`).

`KernelModulesProofs` (`CharDeviceAssumption`, `CpusAssumption`):
`OpenKeepsModuleHolds`, `NothingOutlivesModuleHolds`, `ResultSeenHolds` for any
users, loads and packets; `CountNotLowHolds` for any number of CPUs. `ModulesInv`:
where a callback can be at each point of load and unload (`DeferredInv`,
`ThreadInv`), the states of NAPI (`NetInv`), what is registered at each label and
who can be inside (`DeviceInv`), and for the forced removal (`ForceInv`) that the
decs added up are no more than those of the same CPUs now, and the incs added up
with those still to come no less than all of them were at the barrier.

Two of these need induction over data: sums over CPUs (`Sums`) and offsets in a
buffer of events (`Ends`), both recursive functions. The induction theorems of the
library take an operator, which the provers cannot instantiate; `SetInduction`
derives what is needed from `WFMin` and `NatLessThanWellFounded`, which speak of
sets. That the recursive definitions define anything is proved by the same
induction (`SumsAre`, `EndsAre`).

Only model-checked: all liveness (`Terminates`, `CopiesEnd`, `EveryoneServed`,
`EverythingEchoed`, `BothEnd`, `EverythingReported`, `AllStop`, `ModulesSettle`),
which needs fairness and is out of the prover's reach here; and the two
violations. Every invariant and every safety action property of a passing run is
a theorem.

## 5. Not modelled, and the plan

Left out for good, with the reason:

- `semaphore/semaphore_demo.c`, `per_cpu/percpu_demo.c`: the semaphore is taken and
  released twice in a row by the init function, the per-CPU counter is touched by
  the init function only. Nothing runs concurrently.
- `list.c`, `kfifo_test.c`, `container_of.c`: one pass over fixed inputs; the
  algorithms are the kernel's.
- `get_physical_addr.c`, `get_physical_addr2.c`: straight-line walks of structures
  that the hardware and the kernel decide.
- `eBPF/kprobe_sendmsg.bpf.c`, `lsm_control.bpf.c`: functions of their arguments
  that keep nothing; `fetch.go` is the traced sample.
- `io_uring/socket_uring_client.c` is modelled as far as a server sees it. Its
  receiving thread and its retries of `connect` are not.
- Texts, profiles, pictures and build files.

The models are complete along this plan, and so are the proofs of safety.
