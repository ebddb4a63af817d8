# A TLA+ verification project for libiscsi

libiscsi is an asynchronous iSCSI initiator. An application submits requests
with `iscsi_*_async` calls, drives the library with `iscsi_service()` from its
own event loop, and gets one callback per request. This directory holds TLA+
models of the parts of the library that decide *when* and *in which order*
things happen: the numbering of commands, the PDU queues, the completion of
requests, the counters by which initiator and target follow each other, login,
reconnect and threads; and of the parts that decide what goes over the wire:
CDBs, parameter data, and the cutting of data into PDUs.

All paths below are relative to the root of the repository (`src/`).

## 1. Inventory

| Component | State it keeps | Operations | Hard behaviour |
|---|---|---|---|
| Serial numbers (`lib/pdu.c:50-83`) | `itt`, `cmdsn`, `statsn`, `expcmdsn`, `maxcmdsn` | compare, post-increment | wrap-around, reserved tag |
| Session counters (`lib/pdu.c:477-515`, `lib/login.c`) | the four counters and the login phase | login replies, `iscsi_process_pdu_serials` | windows that shrink, StatSN of PDUs without a task tag, first StatSN |
| PDU queues, TCP transport (`lib/pdu.c`, `lib/socket.c`) | `outqueue`, `outqueue_current`, `waitpdu`, `is_corked` | queue, write, dispatch of replies, timeout scan, cancel | partial writes, nested service calls, callbacks that call back, expiry of queued and of waiting PDUs |
| SCSI commands (`lib/iscsi-command.c`) | `scsi_task`, DataSN of a command PDU | command, reply, DATA-IN, R2T, DATA-OUT, cancel | data-out trains that outlive their command |
| Task management (`lib/task_mgmt.c`) | none of its own | abort task, abort task set, LUN and target resets | local cancellation combined with a request |
| NOP (`lib/nop.c`) | `nops_in_flight` | ping, answer to the target's ping | immediate PDUs overtaking queued ones |
| Data transfer (`lib/iscsi-command.c:77-295`, `lib/socket.c:569-1056`) | iovec cursors, what was written of a PDU | cutting into PDUs, the read and write loops | partial reads and writes, buffers and PDUs that end inside each other, cursors after a reconnect |
| Login and logout (`lib/login.c`) | phases, CHAP state | login, replies, logout | multi-step negotiation, mutual CHAP, redirection, cork |
| Connect and reconnect (`lib/connect.c`) | `old_iscsi`, `reconnect_deferred`, backoff | connect, full connect, reconnect, defer | swap of two contexts, re-queueing |
| Context (`lib/init.c`) | everything | create, destroy, options, URLs | destroy with requests pending |
| Multithreading (`lib/multithreading.c`) | `iscsi_lock`, service thread | start, stop, lock, signal | lock sections of two threads, lost signals |
| Sync API (`lib/sync.c`) | `struct iscsi_sync_state` on the caller's stack | one call per asynchronous one, `event_loop` | callbacks that come after the call returned, semaphores |
| SCSI marshalling (`lib/scsi-lowlevel.c`) | none | CDBs, parameter data, mode pages, both ways | limits of fields, replies that were cut |
| Discovery (`lib/discovery.c`) | none | text request, parsing | order, incomplete replies |
| iSER (`lib/iser.c`), checksums, tools, tests | | | see section 9 |

How they interact: an `iscsi_*_async` call builds a PDU, numbers it from
`iscsi->cmdsn` and hands it to `iscsi_add_to_outqueue`, which sorts it by
CmdSN; if it became the head the call itself runs `iscsi_service(POLLOUT)`
before it returns. The write loop pops PDUs while the target's window
(`maxcmdsn`) allows it and links them into `waitpdu` *before* the first byte is
written. The read side matches replies with `waitpdu` by task tag, runs the
callback, and unlinks the PDU afterwards. Every service call ends with a
timeout scan of both lists. A callback may call any of these functions again.
When a session is lost the context is copied aside (`old_iscsi`), the whole
connect sequence runs on a fresh one behind the same pointer and file
descriptor, and `iscsi_reconnect_cb` issues the old requests again. With the
service thread, requests are queued by any thread and served by that one.

What makes each component correct:

* serial numbers: the comparison is the order of RFC 1982; tags are unique;
* counters: the acknowledged StatSN follows the target, the window is what the
  target granted;
* queues: CmdSNs on the wire are contiguous, nothing stale or torn is written,
  DATA-OUTs follow their command in order;
* completion: every request gets exactly one callback, whatever mixture of
  replies, timeouts, cancellations, failures and destruction it meets, and
  memory is not used after it was freed;
* liveness: on a healthy connection every request is answered;
* transfer: every byte goes where it belongs, once, within negotiated limits;
* marshalling: the target reads what the application asked for, and the
  application reads what the target sent and nothing else;
* login: no session without the proofs, parameters and digests agreed on;
* reconnect: no request is lost, doubled or reordered, attempts are counted,
  and a reconnect ends;
* threads and synchronous calls: success means that the call's own reply has
  come, every call returns, no number is lost.

The hazards, each at its line, are listed in `PROJECT.json`.

## 2. Modules

| Module | Models | Composes |
|---|---|---|
| `Serials` | uint32_t serial arithmetic, `iscsi_serial32_compare`, `iscsi_itt_post_increment`; the width is the parameter `Half` (2^31 in the program) | |
| `SessionSerials` | `cmdsn`, `expcmdsn`, `maxcmdsn`, `statsn` through login and full feature phase | `Serials` |
| `SessionSerialsProofs` | theorems about `Serials` and `SessionSerials` | `SessionSerials` |
| `TaskService` | abstract specification: what the asynchronous API promises (`include/iscsi.h`) | |
| `Lists` | taking elements out of a list of PDUs (`include/slist.h`), the first of some | |
| `ListsProofs` | the lemmas on `Lists` and on insertion that the proof modules share | `Lists` |
| `PduQueue` | the life of every outgoing PDU of a logged-in session | `Serials`, `Lists`, refines `TaskService` |
| `MCPduQueue` | symmetry set for TLC | `PduQueue` |
| `PduQueueProofs` | lists of PDUs and the call stack: types, one owner, at most one callback, the refinement of `TaskService`; then no request lost, resets complete every task, no torn PDU, no use after free on connections that fail | `PduQueue`, `ListsProofs` |
| `NumberingProofs` | CmdSNs: none stale, none skipped; no use after free, and DATA-OUTs in order, on connections that do not fail | `PduQueueProofs` |
| `ScsiCdb` | every CDB builder and CDB unmarshaller of `lib/scsi-lowlevel.c` | |
| `ScsiData` | parameter data: `*_getfullsize` and `*_unmarshall` | `ScsiCdb` |
| `ModePages` | mode pages, parsed and marshalled | `ScsiData` |
| `ScsiCommands` | the task every `iscsi_*_task` call of `lib/iscsi-command.c` hands to `iscsi_scsi_command_async`, sense data | `ModePages` |
| `SyncCalls` | every call of `lib/sync.c`: whether it starts, which callback it has, what it cancels | `ScsiCommands` |
| `Discovery` | `iscsi_process_text_reply` and the copy in `iscsi_discovery_cb` | |
| `Wire`, `MCWire` | an application and a target that talk in commands and parameter data | `ScsiCommands`, `Discovery` |
| `Transfer`, `MCTransfer` | the data of one command between buffers and socket | `ScsiCommands` |
| `TransferProofs` | frames, tiling, limits of unsolicited data and reads of `Transfer`, byte by byte | `Transfer`, `ListsProofs` |
| `Threads`, `MCThreads` | callers, service thread, lock sections, frames | `Lists`, calls of `SyncCalls` |
| `ThreadsProofs` | control, callbacks and frames, numbers of `Threads` | `Threads`, `ListsProofs` |
| `Login` | what a login request says and what a response changes | |
| `Connection` | connect, login, probe, reconnect, logout, driven by `iscsi_service` | `Login` |
| `ConnectionProofs` | mutual authentication and what both ends agree on, over every path of the login; then the books of a context: counting PDUs over the queues, kept by every function below the service loop | `Connection`, `ListsProofs` |
| `ConnectionStepsProofs` | the books over the login and every step; one owner, no request lost, commands in order, attempts counted once | `ConnectionProofs` |

### PduQueue: state and actions

`outqueue`, `current` (`outqueue_current`), `waitpdu`, `cmdsn`, `expcmdsn`,
`maxcmdsn`, `is_corked`, `is_loggedin` and `reconnect_deferred` are the fields
of `struct iscsi_context`. A PDU is its opcode class, task tag, CmdSN and
DataSN; the flags of the code are functions of the opcode class. `leaked`
holds PDUs that were unlinked from a list and neither completed nor freed.

`agenda` is the call stack of the one thread: what the library functions that
are active still have to do, innermost first. It is what makes the nesting of
the code visible: `iscsi_add_to_outqueue` pushes a service call (write loop and
two scans) in front of the rest of its caller (the loop of
`iscsi_send_data_out`, the code of `iscsi_process_pdu` behind the callback), a
callback that may call the library stays on the stack until it returns, and a
failed write skips the scans of its own service call only. The frames `hang`
(waiting for a spinlock the thread holds) and `undefined` (a freed PDU was
used) are ends of a behaviour.

| Actions | Code |
|---|---|
| `CommandAsync`, `NopOutAsync`, `AbortTaskAsync`, `ResetAsync`, `LunResetAsync`, `LogoutAsync` | the calls of `lib/iscsi-command.c`, `lib/nop.c`, `lib/task_mgmt.c`, `lib/login.c`, local cancellation included |
| `CancelTask`, `CancelAllTasks`, `DestroyContext`, `CallbackReturns` | cancellation, destruction, the end of a callback |
| `SendDataOut` | one round of the loop of `iscsi_send_data_out` |
| `PollOut`, `Tick` | the application's event loop calls `iscsi_service` |
| `WriteStops`, `WriteStale`, `WritePop`, `WriteBlocks`, `WriteError`, `WriteDone` | the paths of `iscsi_write_to_socket` |
| `ScanOutqueue`, `ScanWaitpdu` | the two halves of `iscsi_timeout_scan` |
| `Reply`, `DataIn`, `R2T`, `Reject`, `MalformedReply`, `TargetNopIn`, `TargetPing`, `FinishPdu`, `FinishReject`, `FailRead` | `iscsi_process_pdu` and the functions it dispatches to, before and after the callback |
| `ReadError` | POLLERR, POLLHUP, a failed or empty `recv` |

The target (`atTarget`, `tgtExp`, `owed`, `r2ts`, `pings`) is external: it
takes numbered PDUs in order, answers what it has received, asks for data, and
announces any window between closed and `Window` commands. Time is abstract:
in a run with `Timeouts`, any PDU may be found expired at any scan, which
covers every choice of timeout value and clock.

The session runs with `iscsi_set_noautoreconnect(iscsi, 1)`, as the test tool
and applications with their own recovery do: a failed connection ends in
`iscsi_defer_reconnect`.

### SessionSerials

One TCP connection delivers the target's PDUs in order, so sending a PDU and
processing it is one step. `Chap` chooses whether a user name is set; the code
takes over the target's first StatSN only in that case (`lib/login.c:1294`).
`Room` is what is left of a granted window.

### Wire

The application does one job: a command about blocks; a list of unknown length
fetched in two requests, as `utils/iscsi-ls.c`, `iscsi-inq.c` and
`iscsi-rtpg.c` do, while `TargetChanges` may replace the list between them; a
mode page read, changed by a bit and written back, as `iscsi-swp.c` does; sense
data; or a discovery. A task is a record with its CDB as a function of byte
numbers, transfer direction and length, and iovecs as sequences of lengths. A
64-bit number is a pair of 32-bit ones. Parameter data are sequences of bytes.
The operators named `Std...` say how a target that follows SPC and SBC reads a
CDB and lays out its answer; they are the reference the code's operators are
checked against, written from the standards' layouts and not from this code.
A byte that the code copies from behind the end of a reply is `Wild`.

### Transfer

A byte of the transfer is named by its position in the application's buffers,
so that an invariant can say where each byte went. `Command` is
`iscsi_scsi_command_async` with immediate data and the train of unsolicited
DATA-OUTs; `WriteHeader`, `WritePayload`, `WritePadding`, `WriteDigest` and
`WriteDone` are the stages of `iscsi_write_to_socket`, each of which takes any
number of bytes the socket may accept; `R2T`, `DataIn` and `Status` come from
the target; `ReadVector`, `ReadPlain` and `ReadDone` are the read loop;
`Reconnect` issues the command again under other negotiated limits. A digest is
the sequence of bytes it was computed over. `TransferAssumption` says what the
calls and the sessions are: lengths that are not negative, as the types of the
code have it, and segment and burst lengths that are not zero, as
RFC 7143 wants the keys (section 4). `Sums(iov)` is the
running sum by which `iscsi_iovector_readv_writev` looks up a position.

### Threads

`pc[t]` walks thread `t` through a synchronous call: take a number
(`TakeNumber`), queue the PDU (`Enqueue`), then `Signal` and `WaitSem` with the
service thread, or `Kick` and the rounds of `event_loop` without. `svc` walks
the service through `which_events`, `poll`, reading, testing the head of the
queue, popping it and sending. A lock section is one step; all else interleaves.
`frame[t]` is the `struct iscsi_sync_state` on the stack, with an age: a
callback that finds another age writes into a frame that is gone, which is
recorded in `wild`. The synchronous resets, of a unit too, cancel everything
before they do anything else, in the thread of the caller (`CancelFirst`);
that is done even when the request is then refused. `TimePasses` lets
`scsi_timeout` expire, `LinkDown` breaks
the connection for good.

### Login and Connection

A C function is an operator from the context record to the context it leaves,
callbacks included, because a call runs to its end before the next begins; an
action is one call of the application or one event in `iscsi_service`. `c.old`
is `old_iscsi`, `c.early` says that `next_reconnect` lies ahead, `c.fd` is the
state of the socket, `c.tgt` is what the far end has seen on this connection,
`c.app` what the application has asked for and been told. Where `connect(2)`
may fail on the spot both outcomes are taken.

A request that is queued from a callback becomes the head of the queue and is
written by a nested `iscsi_service`, which may find that a reconnect is asked
for, or fail to write. Three operators say when: `WriteFails` (a probe of the
connect sequence cannot be written; `ResetReply` is the target that answers and
closes the connection), `Interrupted` (one of the requests that `Reissue` queues
again cannot be written, or a Logout was dropped before it), and `KickOld` (a
command that the application adds to `old_iscsi`). If the nested call does start a reconnect, or
cancels everything under the callback that is running, a queue is left with a PDU
whose `connect_task` is about to be freed, or `old_iscsi` is overwritten when the
callback returns. `app.astray` marks this step. What the program does afterwards
is undefined, so the behaviour ends there, and each property says what it claims
of the step itself. Section 5 lists the ways into it.

A login response has a current and a next stage of its own, as in the code: the
proofs of a mutual login are asked for by the former (`MustProve`) and the phase
becomes the latter. `SkewedReplies` are responses whose stages are not those of
the request; `skewed` remembers that there was one.

## 3. Runs

| Run | Instance | Shows |
|---|---|---|
| `ordering` | 3 requests (read, write, nop, task management), callbacks that issue new ones, one R2T per write with up to 2 DATA-OUTs, unsolicited data, one ping, window 2, counter wraps | CmdSNs contiguous; DATA-OUTs in order and never for a completed task; the command of a burst is still there after each nested service call (`NoUseAfterFree`); no torn PDU |
| `teardown` | 3 requests, socket errors, logout, cancel-all (from callbacks too), resets, destroy | no request dropped without its callback, resets complete every task, nothing stale |
| `timeouts` | 3 data-out commands or task management requests that may expire at any scan, R2Ts with 2 DATA-OUTs | renumbering leaves neither hole nor duplicate nor stale number |
| `promise` | 2 requests, every call and every failure at once | types, one PDU per request and none after its callback (`OneOwner`), at most one callback per request, and `PduQueue` implements `TaskService` |
| `progress` | 2 requests, window of one command, fairness | every request is answered |
| `session_serials` | 12 numbers, window 3, any first StatSN, sessions of any length | acknowledgements follow the target, the window is the granted one |
| `transfer` | 10 calls with buffers of 0 to 4 bytes, 4 sessions on either side of each limit, one reconnect, one ping | exact frames, tiled data, limits of unsolicited data, reads that land, transfers end and only missing room makes them fail |
| `wire` | 22 block commands with counts 0, 1, 255 ... 65536 and addresses at the 21-bit and 32-bit limits, 11 lists of up to 3 elements with first requests of 8 to 64 bytes, 6 mode pages, sense data, discovery | the target, the transfer length and the unmarshaller all say what was asked, lists are complete or prefixes, no stray bytes, pages survive a rewrite, order is kept |
| `threads` | 2 threads, service thread, every call of `lib/sync.c` accepted and refused, 2 calls of the main thread, window 1 | success means answered, late callbacks only after failures, numbers accounted for and only immediate PDUs stale, calls return |
| `login` | mutual CHAP, digests, one command, two faults or surprises, responses that skip stages included; fairness | sequence, agreement on parameters, mutual authentication; reconnects and commands end |
| `reconnect` | two commands, one task management request, two faults | one owner of the connect_task, none lost, order kept, attempts counted |
| `v_queued` | as `reconnect` | section 5 |

Every property of a passing run has a mutant: a variant of a definition, kept
beside it in its module and named in `PROJECT.json`, that changes the code the
way a plausible bug would and makes TLC report the property.

**Bounds.** `Half = 4` gives 8 numbers and sessions start at 6, so the counter
wraps after two commands; windows and gaps stay below `Half`, as they do in the
program by a factor of 2^30. Three requests are one waiting, one being written
and one queued, or a removed one with one in front and one behind, which is
every relative position the code's loops tell apart; two suffice where the
property is about one request (`promise`) or about waiting (`progress`).
`MaxUnsolicited`, `MaxData`, `MaxR2T` and `MaxPing` bound the number of DATA-OUT
PDUs, R2Ts and pings; two DATA-OUTs of one burst have an order and leave room
for a service call between them. `timeouts` and `promise` do not check for
deadlock, because `hang` and `undefined` end a behaviour there. In `transfer`
the transfers are 2 to 8 bytes, segments 2 to 4 and bursts 2 to 9: large enough
for a PDU to span three buffers, a buffer to span three PDUs, padding of every
length and a burst that ends inside a segment. In `wire` the lists have up to
three elements and the first request cuts them before, inside and behind each
element. In `threads`, two calls of one thread reuse a frame, two threads meet
in every pair of lock sections, and a window of one closes. In `login`
and `reconnect`, `MaxFaults = 2` allows a failure and a failure of its recovery,
and is what it takes to nest one reconnect in another (an Asynchronous Message and
the loss of the connection).
`LoginLimit` and `UaLimit` stand for the 10 of the code and are reached;
`MaxRetries = 1` lets both a retry and the limit happen. The runs of
`Connection` do not check for deadlock: an application may be done, a
reconnect may be wedged, and a behaviour that goes astray ends (section 5).

**What a run leaves out, and why.** The runs differ in which calls and failures
are switched on, since some combinations break a property for a reason that is
itself a finding or a hazard: expiry of several requests loses callbacks
(so `teardown` has no timeouts), `iscsi_scsi_cancel_task` on a queued command
leaves a hole in the CmdSNs (so only `promise` has it), expiry or cancellation
of a read that is partly written leaves half a PDU on the wire (so `timeouts`
has no reads, and `NoTornPdu` is checked without expiry and cancellation: it
shows that the write loop finishes what it began, and would not catch these two).
A write that fails inside `iscsi_queue_pdu` takes the command away from under the
loop that sends its data, so `NoUseAfterFree` is checked in `ordering`, on a
connection that works; with socket errors and unsolicited data it is
false (section 5), and what holds then is the theorem `NoUseAfterFreeFailing`.
`promise` has everything switched on except calls from callbacks, with which
`AtMostOnce` is false (section 5). In the same way `NumbersAccounted` and
`PostedCallsReturn` excuse behaviours in which a PDU was cancelled or timed out
half sent, `SessionInSequence`, `NegotiatedAgree`, `NoneLost` and the liveness
properties of `Connection` name the states they excuse, and each such state is
described in section 5; `OneOwner`, `NoneLost`, `OrderKept` and the liveness
properties claim nothing once a context is astray. `MCSenses` has at most one
sense descriptor.

**Fairness.** `progress`: weak fairness of the library's own steps: the
thread does not stop in the middle of a function. Weak fairness of `PollOut`:
the application polls for what `iscsi_which_events` returns, as the API demands,
and calls `iscsi_service`. Strong fairness of `WriteDone`: a connection that
again and again takes some bytes takes all of a PDU in the end, even if each
single attempt may block. Strong fairness of `Reply` and of a target that opens
its window: a target that is asked again and again answers. No fairness is
assumed of the application's calls, of failures or of expiry.
`transfer`: weak fairness of the next step of a transfer as a whole: a
connection takes or brings some bytes in the end, and a target goes on with a
command it has begun. `threads`: weak fairness of each thread, of the service
thread (the scheduler runs them, poll returns at the latest after
`poll_timeout`), of its start and its stop and of the target's answers, and
strong fairness of `Send`: a socket that takes part of a PDU takes the rest in
the end, although it may be full at any one call. `login`: weak fairness of
`Progress`, that is, of sockets becoming ready, a target that answers, time that
passes and an application that calls `iscsi_service`; which of them happens is
open, and faults, being bounded, end. `FairSpec` writes this formula out:
`CanProgress` is what `ENABLED <<Progress>>_vars` comes to, which TLC confirmed in
every state of `login`; as a predicate of the state it is evaluated much faster.

## 4. What is proved

`SessionSerialsProofs` is checked by TLAPS for every `Half >= 3`, every window
below `Half` and every set of first StatSNs:

* `CompareCorrect`, `TagsCorrect`: comparison and tag allocation, for every
  width of the counter;
* `SessionCorrect`: `Spec => [](TypeOK /\ WindowIsGranted)`;
* `AckCorrect`: `Spec => []AckFollowsTarget`.

The last two assume that a user name is set or that targets start their StatSN
in the lower half of the numbers: without it they are false, since
`iscsi_process_login_reply` then compares the first StatSN with 0.
`WindowIsGranted` is not inductive: that `Forward` takes a new window end
exactly if it is larger needs the distance between the two, so the invariant
`SessionInv` adds that the window kept leaves room for at most `Window` commands
(`WindowInv`) and, for the StatSN, that during the login `statsn` is either
still 0 with the target's in the lower half or already one behind (`StatInv`).
The lemmas reduce the modular arithmetic to distances: `GrantLemma` says which
of two window ends `Forward` takes, `StatLemma` the same for a StatSN that is at
most one ahead.

`PduQueueProofs` is checked for any set of requests and units, every width, every
window, every bound and every choice of the switches
(timeouts, socket errors, rejects, early status, spinlocks, the calls made):

* `TypesCorrect`: `Spec => []TypeOK`, callbacks that call back included;
* `OwnerCorrect`: `Spec => []OneOwner`;
* `AtMostOnceCorrect`: `Spec => []AtMostOnce`;
* `PromiseKept`: `Spec => RefinesTaskService`.

The last three assume `CallbackCalls = {}`, and section 5 says why
the assumption is needed. `AtMostOnce` is not inductive: a reply appends a
status to whatever the request had before, so one has to know that a request
found in a list has had no callback, which in turn needs that each request has
one PDU in one list, and that the one exception, the PDU whose callback has just
run, is unlinked before anything else looks at `waitpdu`. That is `OneOwner`,
and `Inv == TypeOK /\ OneOwner /\ AtMostOnce` is inductive; `promise` checks its
three parts with TLC. The proof is in three layers. Lemmas on lists
(`RetainOwners`, `RenumberOwners`, `InsertOwners`) say who owns the PDUs of a
list after some were taken out, renumbered or sorted in. One lemma per group of
actions (`QueueingKept` ... `FinishKept`) shows that the action is of one form,
`Kept`: a set of unused requests is submitted, a set of pending ones gets one
status, and the lists lose the PDUs of the latter and gain those of the former.
`StepLemma` and `OutcomeLemma` conclude from that form alone that the invariant
is kept and that `TaskService` takes a step.

The second half of `PduQueueProofs` is about the same constants, and callbacks
may make any call unless it is said otherwise:

* `NoneLostCorrect`: `Spec => []NoneLost`, and `ResetCancelsCorrect`:
  `Spec => ResetCancels`, without expiry and LUN resets, the two that do drop
  requests (section 5). A request may leave `waitpdu` only when its callback
  has run, and it leaves it in a step of its own after the callback, so the
  invariant `LostInv` adds that every frame of the stack that is going to unlink
  a PDU belongs to a request that has had its callback (`UnlinkedIsDone`).
* `NoTornPduCorrect`: `Spec => NoTornPdu`, without expiry and cancellation. A
  frame that unlinks a PDU could take the one that is being written; `TornInv`
  says that the PDU of a request is queued, being written, or with the target or
  a frame that unlinks it, and in one of these places only.
* `NoUseAfterFreeFailing`: `Spec => []NoUseAfterFree` for connections that may
  fail at every step, with every call of the application, without expiry, when
  a burst is one DATA-OUT, data is solicited, and callbacks do nothing but cancel
  all tasks. These hypotheses are what the theorem needs and not what is
  convenient: a second DATA-OUT of a burst reads `cmd_pdu` after
  `iscsi_queue_pdu` may have run into a failed write, as the first PDU of
  unsolicited data does (section 5), and a callback
  that queues a request makes the call fail below `iscsi_process_pdu`. The
  invariant `ShallowInv` lists every call stack there is, with what the frame on
  top is going to use.

`NumberingProofs` is about every finite set of fewer than `Half` requests, every
first CmdSN, every width and window, so that the numbers wrap; `Half` is 2^31 in
the program:

* `NeverStaleCorrect`: `Spec => []NeverStale`, without expiry, rejects, LUN
  resets and cancellation of single tasks, which leave holes or numbers that are
  taken back out of order;
* `CmdSNContiguousCorrect`: `Spec => []CmdSNContiguous`, without expiry and any
  cancellation, rejects allowed;
* `NoUseAfterFreeHealthy`: `Spec => []NoUseAfterFree` on connections that do not
  fail, without expiry, rejects, LUN resets and cancellation of single tasks,
  with callbacks that do not cancel. Bursts of any length, unsolicited data,
  status that comes early and callbacks that queue requests are allowed: this is
  the other half of `NoUseAfterFreeFailing`;
* `DataInOrderCorrect`: `Spec => []DataInOrder` on connections that do not fail,
  without expiry, rejects and any cancellation, for a target that sends the
  status when it has the data. Bursts of any length, unsolicited or asked for by
  any number of R2Ts, with requests queued between their PDUs and in callbacks,
  logout and the end of the context are allowed. TLC finds the property violated
  when any one of the hypotheses is dropped, but for the one on LUN resets, which
  the invariants below ask for: a cancellation, an expiry, a reject, a failure or
  an early status completes a task whose DATA-OUT may be half written, or still
  in the queue.

A CmdSN is replaced by its offset from the first of the session (`Off`);
while fewer than `Half` numbers are in use the code's comparison is that of the
offsets (`OffCompare`). `LineInv` says that
there is an offset `lo` such that the commands in the queue are a row, with the
numbers `lo`, `lo + 1`, ... up to `cmdsn` in this order and the immediate PDUs
in front of them, that commands taken off the queue have numbers below `lo`,
that no more numbers were handed out than requests were made, and that the
target has neither counted nor announced anything beyond `lo`.
`ExactInv` adds that the target expects `lo`,
or the command being written in front of it. Neither property is inductive without
the row: that the insertion keeps
the order needs the numbers on both sides of the place, and giving numbers back
in `iscsi_cancel_pdus` needs that they were the last ones. `BackedInv` adds the
call stack: at most a write loop above at most one DATA-OUT train above at most
one callback with the step that unlinks its PDU. The command of the train has
not been freed, because a nested write loop that pops it links it into
`waitpdu` and reads no reply.
`FlowInv` follows one request: the queue holds its PDUs from one on, in order and
without a gap; the one being written is the one before them; the target waits for
what is being written and queued and for what the loop on the stack has yet to
queue. `Grouped` is why the next DATA-OUT of the loop goes behind those that are
there: none of them has a PDU of a later CmdSN in front of it, although calls
nested in the loop may queue later commands in between.

The invariants of these modules were checked with TLC before they were
proved, on the instances of `ordering` and `teardown` or smaller ones (up to
about 2,000,000 states; `ExactInv` on about 6,000,000 states of an instance that
was not finished).

`ThreadsProofs` is checked for any set of threads, any finite window, every set
of calls and however many of them are made, links that break and timeouts
included; it has no hypotheses but those on the constants:

* `ControlCorrect`: `Spec => [](TypeOK /\ Control)`: who may be where while who
  runs the service, and that a step of the service finds what the step before it
  has left, although the lock was released between them;
* `GoodMeansAnsweredCorrect`, `OnlyFailuresLeaveFramesCorrect`: the two
  properties of the frames;
* `NumbersAccountedCorrect`: `Spec => []NumbersAccounted`.

They share `Ways`: a PDU belongs to a call that was made, is in one place, and
goes from the queue to the socket to the target to a reply, never back. The
frames need `Answers` (a frame is finished with success only by its own
callback) and `LeftBehind` (the PDU of a frame that is gone is that of a call
that failed). `NumbersAccounted` compares cardinalities and is far from
inductive; `Held` says it in terms of the numbers: each one from `target.exp` to
`cmdsn - 1` is held by exactly one thread between its two lock sections, or one
PDU.

`ConnectionProofs` is checked for any sets of commands and task management
requests, all limits, any number of faults, with and without CHAP, mutual CHAP
and iSER keys, and every set of digests the application allows; its only
hypotheses are `LoginAssumption` (an allowed digest is one of the two, and there
is one) and the types of the constants:

* `OneLoginCorrect`: `Spec => []LoginInv`;
* `MutualAuthenticationCorrect`: `Spec => []MutualAuthentication`;
* `NegotiatedAgreeCorrect`: `Spec => []NegotiatedAgree`.

The responses of the target may have any stages. What a session is then worth
depends on them, and so both properties are about targets whose responses keep to
the stages the requests ask for (`skewed` says which do not; section 5). Neither
property is inductive. That the session has the digest of the response
that ended the login says nothing unless that response met the context its
request was sent from; so `LoginInv` says that at most one login request is under
way, that it is on `waitpdu` from the moment it is queued (until it is answered
there is no session, no `Logout` is queued, and nothing is corked or blocked),
and which keys the target has been sent by then in each phase. The hard part is
everything else: callbacks queue
requests, call each other, run in the loop of `iscsi_cancel_pdus`, and a
reconnect swaps the context under them. `Kept` is the frame all of them respect,
and is shown once for each operator of the model, innermost first. `LoginInv`
was checked with TLC on the instances of `login` and `reconnect` first.

The second half of `ConnectionProofs`, and `ConnectionStepsProofs`, are checked
under the same conditions, and `ConnectionAssumption`: the requests of the application have
positive numbers, and none is both a command and a task management request. With
any number of faults (`MaxFaults`), of attempts (`MaxRetries`, without end
included) and of redirects and unit attentions:

* `BooksCorrect`: `Spec => []BooksInv`;
* `OneOwnerCorrect`: `Spec => []OneOwner`;
* `NoneLostCorrect`: `Spec => []NoneLost`;
* `OrderKeptCorrect`: `Spec => []OrderKept`;
* `AttemptsCountedCorrect`: `Spec => AttemptsCounted`.

The three invariants count PDUs over the four queues of a context and its
`old_iscsi`, and none is inductive: the probe that fails is counted a second time
when its connect_task also waits in `status_cb`, and a request that is queued
again keeps its place only if everything that waits has a smaller number. The
invariant is `Books(c, << >>)`. It says who holds each connect_task (`Owned`:
`status_cb` has one exactly while the connection is being made, and
`iscsi_reconnect_cb` is in one place at most, and nowhere without an
`old_iscsi`), where each request is (`Requests`), that while a connection is made
or a login is under way nothing else is queued, and on the first connection no
reconnect is asked for (`Alone`), and that in each pair of queues the commands
are in order, those that wait before those still to be written, with numbers
that agree with `cmdsn` (`Ranked`).

Handlers take a PDU off a queue, run its callback, and that callback may
reconnect, cancel everything or run the service loop before the PDU is freed. So
the books are stated with the PDUs in hand: `Books(x, h)` counts the list `h`
along with the queues of `x`, and there is one lemma for each operator of
`Connection`, innermost first, that takes `Books(x, h)` to `Books(y, h')`. Two
things are excepted by name, both findings of section 5: `Stranded`, a redirect
whose `connect(2)` failed on the spot, which loses the connect_task of the
application, and `Excused`, a task management request queued during a reconnect.
A context that has gone astray (`app.astray`: a reconnect that began inside a
callback of the library, or of `old_iscsi` itself) is where the model stops;
`BooksInv` says nothing about it, and the properties exclude it by `Live`. What is
proved is therefore that requests and connect_tasks are kept by everything the
library does up to such a step, and for good in every behaviour without one. The
recursive function `CancelPdus` is dealt with as
before, with the least list of PDUs on which the books would not be kept.

`AttemptsCounted` is about steps, and a step of the model is a whole handler
with all that its callbacks do. The proof classifies what each operator may do to
`old_iscsi`: nothing (`Unmoved`), count one failure and ask for the next attempt
(`Failed`), or succeed (`Through`). It is one failure at most because `Failed`
leaves `pending` set, and the service loop, which runs last, does not count while
it is; a failure that is counted although `pending` is set comes from the holder
of the connect_task of `iscsi_reconnect_cb`, of which `Owned` says there is one. The step
in which a context goes astray is excepted: a reconnect nested in the success
step starts a count of its own. The property is one of
steps on purpose: it is not true that an attempt adds one over its whole life.
A PDU of an earlier attempt left in `waitpdu` may report that attempt once more,
in a later step; what holds is that this too is one count, by the only holder.

Two operators on queues are recursive functions (`OfKind`, `CancelPdus`). What
the proofs need of them holds at every position, and is shown by way of the
least position at which it would fail (`Smallest` in `ListsProofs`); that the
recursive function exists is shown the same way.

`TransferProofs` is checked for every set of calls and sessions that
`TransferAssumption` admits, that is, buffers of any number and any lengths, empty
ones included, transfer lengths that do or do not fit them, every limit a session
may have negotiated, R2Ts and DATA-INs that cut the rest of the transfer anywhere
up to those limits, reads and writes that the socket ends anywhere, pings in
between, and any number of lost connections:

* `TransferTypeCorrect`: `Spec => []TypeInv`;
* `FramesCorrect`: `Spec => []FramesAreExact`;
* `DataTilesCorrect`: `Spec => []DataTilesTransfer`;
* `UnsolicitedWithinLimitsCorrect`: `Spec => []UnsolicitedWithinLimits`;
* `ReadsLandCorrect`: `Spec => []ReadsLand`.

The one hypothesis with some weight is that segment and burst lengths are not
zero. The code takes the values of the login keys as they come
(`lib/login.c:1365-1394`), so a target that answers
`MaxRecvDataSegmentLength=0` is outside of the theorems: `iscsi_send_data_out`
then makes DATA-OUTs of no bytes for ever.

The cursor that `iscsi_iovector_readv_writev` leaves in an iovector (buffer
number and the bytes in front of it) joins one call to the next. `VecOK` says that it
`Fits`: its offset is what the buffers in front of it add up to. Only the
direction of the transfer moves it, and a reconnect puts it back. From that
`IovFinds` draws what one call does: it moves exactly the bytes at the
position asked for, wherever the PDU starts, or fails because the buffers are
too short. The four properties then need one invariant each.

* `FrameInv` says that what has been written of a PDU is a prefix of its `Frame`
  (header, its stretch of the buffers, padding, digest), cut off where the
  stage of the write loop stands, so that each stage appends what comes next.
* `PdusInv` follows *all* PDUs of a connection, those the target has, the one
  being written and those queued, as one sequence `Pdus`. It is tiled
  (`TilesOK`) and within the limits (`BurstOK`) from the moment the command is
  issued: a PDU only moves along it, a ping changes neither sum, and an R2T
  appends a train that starts where the sequence ends. A property of `got` alone is
  not inductive. `Settled` adds that nothing is under way when the response is
  there, so that the F bit has been sent.
* `ReadOK` says where each byte is that was read: `answered` bytes of the
  PDUs that are complete, and of the one being read those that have come
  and are not padding (`Here`).

That `Sums` satisfies its equation is not something the
provers know of a recursive definition, and is shown by way of the least length
of a prefix without partial sums; the sum of a concatenation, and that
sums grow, in the same fashion. `@@` of the module `TLC` means nothing to the provers, which is
why `ScsiCommands` has an operator `Merged` instead.
`TypeInv`, `FrameInv`, `PdusInv` and `ReadOK` were checked with TLC on the
instance of `transfer` (113,748 states) before they were proved.

What stays with TLC: liveness under fairness, since TLAPS proves neither
`ENABLED` nor fairness (`ReconnectEnds`, `CommandsEnd`, `TransfersEnd` and their
like); and what the parsers of `Wire` compute for all inputs (with `ScsiData` and
`ModePages`), which are folds and recursions over the bytes of a reply.
Model-checked only so far: `SessionInSequence` of `Connection`, which relates
the numbers in the queues to those the target has seen over every reconnect.

## 5. Findings

Where the code and a line of the repository disagree, a run may show the
behaviour; `PROJECT.json` quotes the lines.

* `v_queued`: `include/iscsi.h:532-534` says that commands sent while a
  reconnect is under way are queued and not processed before it has succeeded.
  They are queued on `old_iscsi`, whose descriptor is the one of the new
  connection (`lib/socket.c:258-263`), and a command that becomes the head of
  that queue is written at once, into the middle of the login.

Also met while modelling; the models contain these behaviours and the properties
excuse them by name or leave the case out:

*Completion* (`PduQueue`)

* Of several requests that expire in one scan only the first gets its callback:
  the second loop of `iscsi_timeout_scan` does not load `next_pdu`
  (`lib/pdu.c:943`, `:974`; `tests/prog_timeout.c:210` expects all of them).
  The loop of `iscsi_cancel_lun_pdus` is the same (`lib/pdu.c:1053`), against
  `include/iscsi.h:762-763`.
* When a write fails inside `iscsi_queue_pdu` (`lib/iscsi-command.c:281`, by way
  of `lib/socket.c:161`) and reconnects are switched off, `iscsi_defer_reconnect`
  runs the callback of the command and frees its PDU, which
  `iscsi_scsi_command_async` then reads for the train of unsolicited data (line
  290), as `iscsi_send_data_out` does after each DATA-OUT (line 102). In the model
  the frame that goes on becomes `undefined`.
* A callback that calls `iscsi_scsi_cancel_all_tasks` is invoked again, because
  its PDU is still in `waitpdu` (`lib/pdu.c:758`). If it then queues a request that
  is written before it returns, `waitpdu` is not empty and the PDU is unlinked
  and freed a second time (`lib/pdu.c:759`).
* A request that expires or is cancelled while its PDU is partly written is freed
  in mid-PDU (`lib/pdu.c:251`), and the next header follows its first bytes.
* Data-out commands other than WRITE(10/12/16) expire while their DATA-OUTs are
  queued (`lib/pdu.c:878`), which the comment above it describes as the hazard.
* The scan of `waitpdu` takes `iscsi_lock` twice for a WRITE (`lib/pdu.c:887`);
  with spinlocks it does not return.
* `iscsi_task_mgmt_abort_task_async` does not cancel the task and
  `iscsi_destroy_context` does invoke the callbacks of task management requests,
  both against `include/iscsi.h:757-761`.
* Without a user name a target whose StatSN starts at or above 2^31 is never
  acknowledged correctly (the hypothesis of `AckCorrect`).
* `iscsi_scsi_cancel_task` on a queued command leaves a hole in the CmdSNs
  (`lib/iscsi-command.c:2712`).

*Reconnect and login* (`Connection`)

* A reconnect is wedged in two ways (`Wedged`): `connect(2)` fails on the spot,
  so there is no descriptor and `iscsi_service` does nothing; or the connection
  is lost between the end of the login and the end of the probe, and
  `reconnect()` takes it for an attempt under way (`lib/connect.c:506`).
  `include/iscsi.h:1704-1710` speaks of retries without end.
* A reconnect begins inside the success step of another. In the loop of
  `iscsi_reconnect_cb` (`lib/connect.c:437-452`) the callback of a dropped Logout
  that the library itself had queued sets `pending_reconnect` (`lib/pdu.c:420`);
  the next command of the loop becomes the head of the queue and services the
  context, and since `next_reconnect` of a fresh context is 0, `reconnect` is
  called at once (`lib/socket.c:1086-1088`); the 3 seconds that `lib/connect.c:479`
  sets to "avoid a reconnect faster than 3 seconds" come behind the loop. The
  PDU of the last probe, whose callback is running and whose `connect_task`
  is freed afterwards, is still in `waitpdu` and is carried into the new
  `old_iscsi`, to be issued again; the rest of the loop adds its commands to that
  `old_iscsi`, too. This takes an Asynchronous Message, a command behind
  the corked Logout and the loss of the connection, and ends in `app.astray`.
* Contexts go astray in three more ways: a command
  submitted while a reconnect is under way finds the new connection dead, and
  `old_iscsi` starts a reconnect of its own, which loses its requests; the new
  connection fails under the first command that `iscsi_reconnect_cb` queues again;
  or it fails under a probe that is queued from the callback of the one before,
  when `old_iscsi` is hidden (`lib/connect.c:65-93`), so that the nested
  `iscsi_reconnect` takes the session for one without a reconnect and sets
  an `old_iscsi` aside that the wrapper overwrites when it returns. A task
  management request goes to the new context and is
  overwritten by the next attempt; its callback never runs.
* `include/iscsi.h:490-500` says that the callback of `iscsi_full_connect_async`
  can be invoked twice: "the callback will be invoked a second time once the
  connection is torn down". The code has no second call: the connect_task is freed
  after the first one (`lib/connect.c:116`, `:126`, `:160`, `:280`), and
  `iscsi_defer_reconnect` cancels PDUs and nothing else. `OneOwner` states what
  the code does, one call.
* `iscsi_defer_reconnect` after the last retry cancels the requests of the new
  context only.
* A redirect whose `iscsi_connect_async` fails frees the connect_task and calls
  nobody back (`lib/connect.c:250-252`).
* A redirect that comes after the security negotiation has begun: the first
  login request to the new portal has no InitiatorName (`c.late`).
* Both the proofs of a mutual login and the next phase are taken from the stages
  in the response (`lib/login.c:1302-1304`, `:1543`), not from those of the request.
  A response that leaves or enters other stages than were asked for is
  followed, so that the session may exist without proof or without the parameters
  having been offered (`skewed`). A redirect in the middle of the security
  phase keeps that phase (`late`), and has the same effect.
* A target that answers the first login request without an AuthMethod makes the
  initiator draw a new task tag and CmdSN in mid-login (`lib/login.c:1027`).
* The copy of a context that `reconnect()` makes loses `no_auto_reconnect`.

*Threads and synchronous calls* (`Threads`)

* The callbacks of synchronous task management and discovery calls do not post
  the semaphore their callers wait for with the service thread
  (`lib/sync.c:307`, `:1926`); on a connection that is lost for good no call
  returns.
* A synchronous call that fails leaves its PDU queued with a pointer into its
  frame (`wild`); only the connect calls clean up.
* An immediate PDU reads `cmdsn` without the lock and may be stale when it is
  written, which ends the connection; and the PDU popped need not be the one
  whose CmdSN was compared with the window.
* A command that is cancelled or times out half sent leaves a number that the
  target waits for.

*Marshalling* (`Wire`)

* READ(10) and its kin send the low 16 bits of a block count above 65535,
  COMPARE AND WRITE the low 8; READ(6) of no blocks asks for 256. Only
  `scsi_cdb_read6` refuses what does not fit.
* `scsi_cdb_readdefectdata12` overwrites its list flags; READ TOC counts one
  descriptor too few; a REPORT LUNS reply of 4 to 7 bytes has -1 LUNs; REPORT
  SUPPORTED OPCODES yields zero descriptors that are not in a cut reply; the
  last descriptor of a cut GET LBA STATUS reply may be partial.
* Standard INQUIRY data, serial numbers and identifiers are copied without
  looking at the size of the reply (`Wild`).
* `autoload_mode` is parsed as a Boolean; two fields of the control and
  disconnect pages overlap; pages with sub-page format are marshalled over
  their contents.
* `parse_sense_descriptors` steps by the additional length, without the two
  bytes of the header, so that a second descriptor is looked for inside the
  first.
* WRITE SAME with an iovec and no data pointer announces data and sends none
  unless NDOB is set; SANITIZE announces more than the buffer it was given.

## 6. Abstractions

* `PduQueue`, `Transfer` and `Connection` have one thread; `iscsi_lock` matters
  only to the thread that holds it. `Threads` has several, and leaves payloads,
  DATA-OUTs and reconnects to the others.
* A callback is either atomic (`CallbackCalls = {}`) or may make any number of
  calls before it returns. The CANCELLED callbacks of the cancellation paths
  are always atomic.
* Each request object is used once and is its own task tag; that tags are
  unique is the theorem `TagsCorrect`.
* `PduQueue` leaves payloads to `Transfer`; `Transfer` has one command and
  leaves the window to `PduQueue`; a malformed reply is one that takes the error
  path.
* In `Connection` numbers do not wrap, the command window and a full socket
  buffer are one condition, the values of keys are left out but for digests and
  immediate data (which the application has not switched off), and a CHAP proof is right or wrong.
* In `ScsiData` a few fields that are copied byte for byte are left out; texts
  are numbers.
* Not modelled: allocation failures, `nops_in_flight`, `min_cmdsn_waiting`,
  residuals, header digests, socket options, error strings.

## 7. Plan

1. (done) `Serials`, `SessionSerials`, `TaskService`, `PduQueue`; types, ownership,
   at most one callback and refinement proved.
2. (done) `Login` and `Connection`, `Threads` with `SyncCalls`, `Transfer`,
   `Wire` with `ScsiCdb`, `ScsiData`, `ModePages`, `ScsiCommands`, `Discovery`.
3. (done) Theorems: `NoneLost`, `ResetCancels`, `NoTornPdu`, `NoUseAfterFree`,
   `NeverStale`, `CmdSNContiguous` and `DataInOrder` of `PduQueue`; `GoodMeansAnswered`,
   `OnlyFailuresLeaveFrames` and `NumbersAccounted` of `Threads`.
   `MutualAuthentication`, `NegotiatedAgree`, `OneOwner`, `NoneLost`,
   `OrderKept` and `AttemptsCounted` of `Connection`. `FramesAreExact`,
   `DataTilesTransfer`, `UnsolicitedWithinLimits` and `ReadsLand` of `Transfer`.
   Left: `SessionInSequence` of `Connection`.
4. A refinement of `TaskService` by `Connection`, for sessions in which no
   request is submitted during a reconnect and no reconnect begins inside a callback.
5. iSER credits, if the behaviour of the verbs can be stated from the code.

## 8. Running

    tlc -workers 2 -config ordering.cfg MCPduQueue
    tlc -workers 2 -config transfer.cfg MCTransfer
    tlc -workers 2 -config wire.cfg MCWire
    tlc -workers 2 -config threads.cfg MCThreads
    tlc -workers 2 -config login.cfg Connection
    tlapm SessionSerialsProofs.tla
    tlapm ListsProofs.tla
    tlapm PduQueueProofs.tla
    tlapm NumberingProofs.tla
    tlapm ThreadsProofs.tla
    tlapm ConnectionProofs.tla
    tlapm ConnectionStepsProofs.tla
    tlapm TransferProofs.tla

## 9. Not modelled

`lib/iser.c`: each of its steps is a call into libibverbs or librdmacm whose
outcomes this repository does not define; what it shares with TCP is modelled.
Checksums and hashes (byte arithmetic with test vectors; out of TLC's reach).
Logging, URL parsing and option setters (no ordering, no concurrency). The
tables of `lib/scsi-lowlevel.c` that turn codes into text. `utils/` and
`examples/` but for the list fetching and the rewriting of pages in `Wire`;
`test-tool/` and `tests/`, which test targets and the library and were read as
statements of intent. `win32/`, `aros/` (system call shims).
