# A verification project for the DHCP programs of InternetApplications

The repository collects the programs of a networking course. Its core is a DHCP
server (`dhcp-server.c`) and a DHCP client (`dhcp-client.c`) that share
`dhcp-project.h`; beside them are a raw-socket client and small exercises on
sockets, files, processes and signals. This directory holds TLA+ models of the
server, of the client, of both together, of the options they exchange byte by
byte and of the smaller programs, the TLC configurations that check them, and
TLAPS proofs of their safety properties: for every pool, every number of clients,
every lease time, every file and every size of buffer.

Contents: [inventory](#inventory), [modules](#modules-and-the-code),
[runs](#runs), [bounds](#bounds), [fairness](#fairness), [proofs](#proofs),
[what the code does not do](#what-the-code-does-not-do),
[limits of the models](#limits-of-the-models), [plan](#plan).

## Inventory

### DHCP server (`dhcp-server.c`)

*State.* `lease_head`, a linked list of `struct lease_t` (time stamp, address,
MAC), the counter `num_of_lease` beside it, one buffer `dhcp_recv` in which the
reply is built over the request, and the wall clock. Nothing is on disk.

*Operations.* The receive loop of `main` dispatches on option 53 to
`dhcp_handle_discover`, `dhcp_handle_request`, `dhcp_handle_release` and
`dhcp_handle_inform`. All but the RELEASE build a reply with
`construct_dhcp_packet`, which calls the list's own operations: `check_ipaddr`
(may this client have this address), `allocate_ip` (the client's address, or a
random free one), `add_lease`; a RELEASE calls `delete_lease`.

*What is hard.* One process and no threads, but packets of several clients come
in any order, late and twice, and leases expire in between. A list, a counter
and a pool must agree: `allocate_ip` draws random addresses until one is free,
so a counter that is too low hangs the server and one that is too high turns
clients away.

*Correct when:* the counter is the list's length and no address is in the list
twice; the drawing loop ends; no address is granted while another client holds
it; a lease is lost only by a RELEASE of its holder; only pool addresses are
leased; an ACK records the client it goes to.

### DHCP client (`dhcp-client.c`)

*State.* The address of the interface (in the kernel); the globals `yiaddr`,
`dhcp_server_identifier`, `xid`, `lease_time`, `t1_time`, `t2_time`; the
process's alarm; the socket with its queue and a receive timeout of five
seconds.

*Operations.* A menu, or one operation and exit: `discover`, `release`,
`inform`, `renew`, `rebind`. Each sends a packet and loops in `recvfrom` until a
datagram with its xid comes or the timeout passes. `set_alarm` starts the alarm
for T1 from the ACK. The SIGALRM handler `lease_time_out` renews at T1, rebinds
at T2 and gives the address up at the end of the lease, and runs whole exchanges
to do so.

*What is hard.* The handler runs exchanges on the globals of an exchange it has
interrupted; the alarm can strike anywhere, in the middle of `set_alarm` too;
every stray datagram restarts the receive timeout; a NAK in a renewal starts a
discover inside the handler; waiting for the answer to a rebind (5 seconds) takes
longer than what is left of the lease then (4 seconds).

*Correct when:* an address with a lease always has an alarm that will end it; an
expired address is given up; the exchanges of main and handler do not mix; an
interface that has an address is not given another; only an ACK binds; the menu
comes back.

### How they interact

By UDP broadcast and unicast between ports 68 and 67. The client sends DISCOVER,
REQUEST, RELEASE and INFORM, the server OFFER, ACK and NAK. A client tells its
answers from others by xid alone, which is `rand()` after `srand(time(NULL))`:
the same for all clients that start in one second.

A client that ends leaves its address on the interface; a server that
is restarted has lost its leases.

*Correct when:* what a client holds is in the server's list under its name; no
two clients hold one address; a client that holds an address is not refused its
renewal. That a client configures only what was acknowledged to it is wished for too, but
the shared xid does not ensure it, and no property claims it.

### Option codec (`dhcp-project.h`)

`fill_dhcp_option` and `get_dhcp_option` on the byte array of `struct dhcp_t`. The
walk of `get_dhcp_option` ends at the option or at a zero byte, not at option 255;
both programs therefore end their packets with an option 255 of length 1 and a
zero byte behind it, or what `memset` left. The server's buffer `dhcp_recv` is never cleared and the
reply is built over the request. *Correct when:* each side reads what the other
has put in, whatever was in the buffer before.

### Raw-socket client (`simple-dhcp-client.c`)

Builds one frame from the options outwards (`dhcp_output`, `udp_output`,
`ip_output` with `in_cksum`, `ether_output`), injects it with pcap and looks at
captured frames until it takes one for the OFFER. *Hard:* lengths that count each
other, an uninitialised buffer, carries of the checksum, an answer that comes
before the loop is entered. *Correct when:* the frame is one others can read, the
checksum verifies, and the answer ends the wait.

### TCP file transfer (`l7-Server.c`, `l7-Client.c`)

The server serves one connection after the other: a file name, then the file in
blocks; the client stores it in a `.bak`. *Hard:* the name buffer is not cleared, a
file that cannot be opened makes the read loop endless, a client that goes away
raises SIGPIPE in the server, an old `.bak` is not truncated. *Correct when:* a
client that has finished has the file, and every client is served.

### UDP echo (`l6-EchoServer.c`, `l6-EchoClient.c`)

One receive buffer, terminated after each receive; nothing is sent back (that code is
commented out). *Hard:* a datagram as long as the buffer, a failed receive whose -1
becomes an index. *Correct when:* what is printed was sent.

### Append exercises (`l4-1.c`, `l4-2.c`)

Two programs that write at the end of `test1`. *Correct when:* run together they lose
and overwrite nothing.

### Not modelled

| part | why |
|---|---|
| `l3-lseek1.c`, `l3-readwrite1.c` | one process on a file of its own: a demonstration of `lseek`, and a loop that copies its input |
| `l5.c` | one library call (`gethostbyname` or `gethostbyaddr`) and `printf` |
| `l3-exec1.c`, `l3-fork1.c`, `l3-fork2.c`, `l3-signal1.c` | one system call each and `printf`; no state of their own |
| `dhcp_dump`, `usage`, `print_packet` | output only |
| `l8-report.MD`, `l8-packets`, `l8-images` | documentation |

`PROJECT.json` lists the components with their status, and every hazard with the
line where it bites and the properties that cover it.

## Modules and the code

```
DhcpPackets  <-  LeaseList  <-  DhcpServer  <-  MCDhcpServer        (TLC)
                     |             |        <-  DhcpServerProofs    (TLAPS)
                     |             +-- INSTANCE LeaseTable          (refinement)
                     +------  DhcpSystem  <-  MCDhcpSystem          (TLC)
                                   |      <-  DhcpSystemProofs      (TLAPS)
                                   +-- INSTANCE DhcpServer          (composition)
LeaseList     <-  LeaseListProofs  <-  DhcpServerProofs
                                   <-  DhcpSystemProofs
DhcpClient    <-  MCDhcpClient,    DhcpClientProofs
DhcpOptions   <-  MCDhcpOptions,   DhcpOptionsProofs
InCksum       <-  SimpleDhcpClient  <-  MCSimpleDhcpClient,  SimpleDhcpClientProofs
FileTransfer  <-  MCFileTransfer,  FileTransferProofs
Echo          <-  MCEcho,          ExerciseProofs
AppendFile    <-  MCAppendFile,    ExerciseProofs
```

* **DhcpPackets** - the constants of `dhcp-project.h` and the packet: the fields
  of `struct dhcp_t` and the options the programs read, as records. Addresses are
  numbers; 0 is `INADDR_ANY`.
* **LeaseList** - `leases` is the linked list as a sequence, `num_of_lease` the
  counter, `now` the clock. `check_ipaddr` is a predicate; `allocate_ip`,
  `add_lease` and `delete_lease` are actions on the list. The return value and
  the output parameter of `allocate_ip` are parameters of its action. When it
  returns -1 its output is any address, which is what a caller that does not look
  at the return value may read. The random draw is a choice among the addresses
  that are free.
* **DhcpServer** - one action `Receive(m)` per datagram, with one operator per
  handler and one for `construct_dhcp_packet`; `Tick` is the clock. A round of
  the loop is one step because the process does nothing else before the next
  `recvfrom`. `recv` and `sent` keep the last packet and what `sendto` was given.
  Four oddities of the code are kept. A missing option 50 of a REQUEST is read
  as option 54 (`RequestedAddress`). A missing option 50 of an INFORM without ciaddr leaves
  `option_value` unset, and what it points to is recorded and sent, or ends the process:
  anything in `Unwritten`, or `Segfault` (`AckUnset`). Option 53 is read after the reply's
  has been written: over it where it comes first, otherwise over it or in front of it
  (`MsgTypesRead`). With an exhausted pool the server sends a datagram of length 0
  (`EmptyDatagram`).
* **LeaseTable** - the abstract specification: each address has at most one owner
  and a time stamp; `Bind`, `Refresh`, `Unbind`, `Advance`.
* **LeaseListProofs**, **DhcpServerProofs** and the other `xxxProofs` - the theorems,
  [below](#proofs).
* **DhcpClient** - `pc` says where each of the two contexts, main and handler,
  is; main stands still while the handler runs. `timer` is what is left of the
  alarm, `pending` a SIGALRM not yet delivered, `wait` what is left of the
  receive timeout, `left` what is left of the lease on the interface's address
  (not in the code: the properties speak of it). An exchange is split at every
  `recvfrom` and wherever the handler could see it half done, so `set_alarm` is
  three steps: `SetT1`, `SetT2`, `StartAlarm`. `lease_time_out` is one action with
  one disjunct per branch of the code. If it interrupts main in `recvfrom`, that
  call fails with EINTR, since a socket with `SO_RCVTIMEO` is never restarted,
  and main's exchange returns. A datagram is an `Answer`, with the opcode and xid
  the client looks for, or a `Stray`; when xid changes in a new second, what is
  still in the socket becomes a stray.
* **DhcpSystem** - clients, the server and the network. The server is
  `DhcpServer` by `INSTANCE`, fed from `toServer`: what is proved of it holds here for
  the packets the clients send. `Packets` says which ones those are, and `TypeOK` that no
  client sends another. A client is
  one record: which `recvfrom` it is in, its interface's address, the globals, and
  two things the properties speak of (`grant`, where the address came from, and
  `expires`, the time of the alarm that ends the lease). The inside of an exchange
  and the first two alarms are `DhcpClient`'s matter; here an exchange begins
  (`discover`, `renew`, `inform`, `release`), and each datagram it receives is one
  step. `renew` stands for rebind too, which sends the same packet. `exit` ends a
  process at any time, `main` starts the next one on the interface as it
  was left, with a server's address where the command line names one, as the one-shot
  modes with an operation require (`CommandLine`); `Restart` does so with the server. xid is `now`, since `rand()` after
  `srand(time(NULL))` is a function of the second.
* **DhcpOptions** - `dhcp_recv` as a sequence of bytes, the packets `dhcp-client.c`
  builds (`ClientOptions`) and the replies built over them (`ReplyOptions`).
  Whether an address is granted is left open. The walk of `get_dhcp_option` is a recursive
  function of the index it has reached (`Walk`).
* **InCksum**, **SimpleDhcpClient** - `in_cksum` on a machine that keeps the low byte
  first; the frame as bytes in a buffer that starts uninitialised, one operator per
  output function, with the ten bytes that `memcpy` takes from behind `mac[6]` (`BehindMac`)
  uninitialised like the rest of the stack, then `main` with pcap as a queue of frames.
* **FileTransfer** - `backlog`, one `stream` of blocks per connection, the state of the
  server's loop, and each client with its `.bak`. Clients can be killed at
  any time (`Kill`), after which `send` may raise SIGPIPE and `recv` may fail (`RecvFails`): -1 is not 0, so
  the server opens what an earlier client left in `fileName`. A file that cannot be
  opened puts the server into `Spin`.
* **Echo** - `echoBuffer` with the byte before and the byte behind it, which belong to
  other variables and may change between two rounds (`Neighbours`).
* **AppendFile** - `test1`, `test2` and the offsets; one action per system call. Its
  specification is `AppendSpec`, so that `ExerciseProofs` can extend it beside `Echo`.
* **MCxxx** - the packets, frames, files and values of small instances.

Operators named `xxx_Yyy` next to `xxx` are variants with a slip a programmer
could make. None is used by a specification; put in the place of `xxx`, each
makes a property fail, which shows that the property says something of the code.

## Runs

`tlc -config X.cfg M` for the module M of the row.

| run | module and cfg | shows |
|---|---|---|
| server | MCDhcpServer, DhcpServer.cfg | the ten properties of the server below |
| client | MCDhcpClient, DhcpClient.cfg | safety and liveness of the client |
| system | MCDhcpSystem, DhcpSystem.cfg | two clients and the server while no lease runs out |
| system_one_client | MCDhcpSystem, DhcpSystemOneClient.cfg | one client with leases that run out, duplicates, every operation and a server that is restarted |
| options | MCDhcpOptions, DhcpOptions.cfg | the codec and the shared buffer |
| simple_client | MCSimpleDhcpClient, SimpleDhcpClient.cfg | the frame, `in_cksum` against RFC 1071, and the wait for an answer |
| file_transfer | MCFileTransfer, FileTransfer.cfg | safety and liveness of the file transfer |
| echo | MCEcho, Echo.cfg | the echo buffer |
| append | MCAppendFile, AppendFile.cfg | two writers of one file |
| alarm_lost, offer_taken_for_ack, address_held_twice | a cfg named after its property | a counterexample to what a comment says ([below](#what-the-code-does-not-do)) |

**server.**
`TypeOK`: every lease and every reply has an address, at worst one read where nothing was
written.
`ListConsistent`: the counter is the length of the list, addresses are distinct
(so stopping at the first node with an address, as the walks do, misses nothing),
and no lease begins in the future.
`AllocationTerminates`: whenever the counter lets `allocate_ip` enter its drawing
loop, an address is free.
`GrantRespectsLeases`: no OFFER and no ACK of a REQUEST grants an address another
client had an unexpired lease on.
`LeaseLostOnlyByRelease`: late, duplicated and foreign packets never remove a
lease, pass it on or turn its time stamp back.
`LeaseOutsidePoolOnlyByInform`: the one way an address outside the pool gets into
the list is an INFORM with an empty ciaddr.
`UnsetReadOnlyByInform`: the pointer that a missing option 50 leaves unset is used for an INFORM
without ciaddr alone. A REQUEST would reach the same line if its handler did not compare option 54,
which it reads instead, with the pool.
`AckRecordedUnlessTakenOver`: the address a client without one is acknowledged is in the
list under its name, unless the expired lease of another client had the address:
that node keeps its MAC.
`HolderIsAnswered`: a client the list has a lease of is never left without an offer, and is
never acknowledged with an address that is not its own; it says nothing of clients that are not in the list.
`ImplementsLeaseTable`: the list refines the abstract table.

**client.**
`AlarmWhileBound`: a client that holds a leased address and waits has an alarm
running or a SIGALRM on its way.
`ExpiredOnlyWhileHandling`: an address outlives its lease only while the handler
waits or is about to run, or for the few seconds of the last alarm.
`ExchangeKeepsItsXid`: while main waits, xid is the one main set.
`AddressNotReplaced`: the interface never goes from one address to another
without being empty in between.
`ExpiredAddressIsGivenUp` and `MenuComesBack`, once no more datagrams arrive (`Quiet`): an
address whose lease is over is given up, and every exchange ends.

**system.** Two clients compete for a pool of one address; datagrams are lost and
delayed, clients renew, release, end and start again.
`TypeOK` includes that the clients send only packets the server's proofs cover.
`HeldIsRecorded`: an address a client got by an ACK to itself is in the server's
list under its name; a lost or late RELEASE, a lost ACK or a new process does not
break this.
`NoAddressHeldTwice`: no two clients hold one address; it fails once leases run out
(`address_held_twice`).
`HolderNotRefused`: no NAK answers a renewal of an address while the client holds it.
All of them are stated for exchanges that begin in different seconds (`SameSecond = FALSE`). In one
second two clients share an xid, and one configures what was acknowledged to the other: with
`SameSecond = TRUE` TLC finds this in eight states. No comment of the code promises otherwise, so no
run is devoted to it, and that a client takes its own answers only is not a property here: with
different xids it would restate the test of xid.

**system_one_client.** `HeldIsRecorded` and `HolderNotRefused` for a client that is alone, with
leases that run out, duplicates and a server that may lose its list at any
time; `HeldIsRecorded` is claimed until it has. Being alone, the client is refused only an address
outside the pool; what a second client does to it after a restart is not covered.

**options.**
`PacketReadBack`: whatever went through `dhcp_recv` before, the handlers read from a
packet of `dhcp-client.c` what the client put into it.
`ReplyReadBack`: the client reads from a reply what the server filled in, over whatever packet it was
built and whatever is behind it in the client's buffer. In particular an OFFER and the ACK of a REQUEST
keep their lease times although `*msg_type` at `dhcp-server.c:289` points into the reply by
then. Nothing is said of lease times in the ACK of an INFORM: line 289 means to leave them out, and
does so only if option 53 of the INFORM lies behind the 39 bytes of the reply's front. The run has
packets of both kinds.
`TypeOK` bounds the buffer's used length.

**simple_client.** `TypeOK`: of the frame, only the ten bytes that line 280 copies from behind `mac[6]`
have never been written. `FrameWellFormed`: lengths, checksum,
ports, addresses and options of the frame agree. `AnswerEndsTheWait`: a reply
captured before or during `pcap_loop` ends the program. `ChecksumVerifies`: a receiver that adds words in
network order finds the checksum of `in_cksum` right, for even and odd lengths and any carries; it is evaluated
in the initial state, over `Data`.

**file_transfer.**
`FinishedCopyIsWhole`: a client that has finished has the file the server opened, whole, in
front of what an older, longer `.bak` keeps.
`WrongNameOnlyAfterLonger`: another file than the one requested by a client that is still there is opened only when
`fileName` was filled further before, by a longer name or by what was in it at the start.
`DeathSparesNoOther`: only a client that left in the middle of its file ends the server, and no
other client loses a file that had been begun.
`TransfersEnd`: while the server lives and has the files it comes upon, every connected client that is
not killed ends with its file, whole. If the server dies, no client waits for ever; the ones in its
queue are reset without a file.

**echo.** `PrintedWasSent`: no end of a longer word hangs on to a shorter one. It is about receives that
succeed; one that fails (`ReceiveFails`) writes its terminator in front of the buffer and prints what is there.

**append.** `FileIsMerge`: `test1` is what it was, then what both programs have written, each in its
order. `ReadStaysTrue`: what `l4-2` read from the start stays there although it seeks to 0 before it
writes. `CopyEnds`: the copy ends if `test2` is a file.

## Bounds

| bound | value | why it is enough |
|---|---|---|
| `Mac` | 2 | every property compares a client with another one; symmetric |
| pool | 2 addresses | full, half full and empty; and 0 and 9 outside it |
| server `IP_ADDRESS_LEASE_TIME`, `MaxTime` | 1, 1 | a lease of time 0 runs out at `now = 1`, and can be granted again then |
| `Xid` | 1 | the server only copies it |
| `Packets` | 64 | what `dhcp-client.c` builds, for every address, and packets for another server, without options, with an option 50 of another length or an option 53 behind others, with the unicast flag, of unserved types and with the opcode of a reply |
| `Unwritten` | 0 and the first pool address | what the unset pointer shows is an address that can be leased by others, or one that cannot |
| client times | 8, 4, 7 and a wait of 2 | 32, 16, 28 and 5 divided by four, the wait rounded up: the wait is longer than the rest of the lease after T2 and shorter than T2 - T1, as in the header |
| client `Addr` | 0 and two addresses | an ACK can name an address other than the one the client has; an OFFER names one of them |
| `QueueLimit` of the client | 1 | a datagram can arrive whenever the one before it has been read, so duplicates and late answers occur; with 2 and the datagrams of this repository's server the run passes too, in twice the time |
| `Forever` | twice the lease | `alarm` with a negative difference, which as `uint32_t` is over a century |
| system `Mac`, pool | 2 clients, 1 address | they compete for the address; the one-client run has 2 addresses |
| system lease time, `MaxTime` | 9 and 4; 2 and 4 (6 in `address_held_twice`) | no lease runs out, or each can run out twice |
| `Operations`, `SameSecond`, `Delays`, `Duplicates` | per cfg | the adversity of a run; `address_held_twice` has only what its counterexample needs |
| `CommandLine` | the server; 0 and the server with one client; 0 in `address_held_twice` | with the server's address a new process can renew and release at once what it finds on the interface; without one the server ignores it until an answer has named the server |
| `QueueLimit` of the system | 2 | a late datagram and a new one |
| `Foreign` packets, `Garbage` | 7, 4 | packets shorter than any of the clients', option 53 not first, behind the reply's front or missing; bytes that look like options behind a reply |
| `Data` of the checksum | up to 6 of 0, 1, 127, 128, 255 | sums with no, one and two carries, even and odd lengths |
| `Frames` | 7 | answers with and without an address, the own DISCOVER, and one frame that fails each test |
| `Files`, names | 3 files of 0 to 2 blocks, a missing one; names of 1 and 2 characters | a name can keep the end of another and be a file's name or not; an old copy is longer than every file |
| `NameBuffers` | 3 buffers of 3 bytes | `fileName` is uninitialised: zero, filled, and with a NUL in front of other bytes |
| `Window`, `JunkLimit` | 1, 1 | the server waits for the client; what a failed read sends is bounded |
| `ECHOMAX` | 2 | words shorter than, as long as and longer than the buffer |
| `ReadLimit`, `MaxLength` of the append run | 8, 24 | a read that gets all or part of the file; the bound stops only the endless copy of a directory |

`Interruptible` says where a second can pass and SIGALRM strike. `DhcpClient.cfg` lets it strike where the
client blocks, in `recvfrom` or at the menu, and between two calls (`MCOutsideWindows`), except in
four places where a property is false of the code: `request`, from the receipt of the OFFER to the
wait for the ACK (`ExchangeKeepsItsXid`, `AddressNotReplaced`); `bind`, from the receipt of the ACK to
`setup_interface` (`AddressNotReplaced`); and `arm_t2` and `arm_alarm`, inside `set_alarm` behind T1
(`AlarmWhileBound`, `ExpiredOnlyWhileHandling`). With any one of them added TLC refutes the properties
named. `SetAlarmStartsTimer.cfg` lets SIGALRM strike everywhere, and there the client loses its
alarm.

Deadlock is checked in the runs of the server, the client and the options. An exited
client of `DhcpClient` stutters (`Exited`). The other systems may stop: the clock of
`DhcpSystem` at its bound, the programs when they have ended or nothing more is sent.

## Fairness

`FairSpec` has weak fairness of `ClientStep`: the process runs when it has
something to do, which the scheduler of the operating system gives it. User steps and
arrivals have none: nobody need ever choose or answer. `Tick` has strong
fairness, because time passes whatever the user and the network do: a user who
keeps choosing from the menu disables `Tick` again and again without stopping the clock.

`FileTransfer` has weak fairness of the server and of each client that is connected, and none of
connecting or being killed; `SimpleDhcpClient` of the process and none of the network;
`AppendFile` of both programs. Each says only that the operating system lets a
process run that can.

`Quiet` is a premise and not a fairness assumption. Without it the properties are
false of the code, since every stray datagram restarts the five seconds of
`recvfrom`, in the handler too; traffic that never pauses keeps a client waiting.

## Proofs

`tlapm M.tla` for the module M of the row. Each of the 32 theorems states a property that a
run checks: the run shows it on a small instance, the theorem for all constants that satisfy
the assumptions below.

| module | theorem | statement |
|---|---|---|
| DhcpServerProofs | `TypeCorrect` | `Spec => []TypeOK` |
| | `ListIsConsistent` | `Spec => []ListConsistent` |
| | `AllocationAlwaysTerminates` | `Spec => []AllocationTerminates` |
| | `GrantsAreFree` | `Spec => GrantRespectsLeases` |
| | `LeasesAreKept` | `Spec => LeaseLostOnlyByRelease` |
| | `PoolIsKept` | `Spec => LeaseOutsidePoolOnlyByInform` |
| | `UnsetIsReadByInform` | `Spec => UnsetReadOnlyByInform` |
| | `AcksAreRecorded` | `Spec => AckRecordedUnlessTakenOver` |
| | `HoldersAreAnswered` | `Spec => HolderIsAnswered` |
| | `ListImplementsTable` | `Spec => ImplementsLeaseTable` |
| DhcpClientProofs | `TypeCorrect` | `Spec => []TypeOK` |
| | `XidIsKept` | `NoSignalBeforeRequest` gives `Spec => []ExchangeKeepsItsXid` |
| | `AddressIsNotReplaced` | `NoSignalBeforeBind` gives `Spec => AddressNotReplaced` |
| | `AlarmIsRunning` | `NoSignalInSetAlarm` gives `Spec => []AlarmWhileBound` |
| | `ExpiryIsHandled` | `NoSignalInSetAlarm` gives `Spec => []ExpiredOnlyWhileHandling` |
| DhcpSystemProofs | `TypeCorrect` | `Spec => []TypeOK` |
| | `HeldAddressesAreRecorded` | `~SameSecond`, `NoTakeOver` give `Spec => []HeldIsRecorded` |
| | `AddressesAreHeldOnce` | these and no restart give `Spec => []NoAddressHeldTwice` |
| | `RenewalsAreNotRefused` | these, and no restart or one client, give `Spec => HolderNotRefused` |
| FileTransferProofs | `TypeCorrect` | `Spec => []TypeOK` |
| | `NamesArriveWhole` | `Spec => []WrongNameOnlyAfterLonger` |
| | `FinishedCopiesAreWhole` | `Spec => []FinishedCopyIsWhole` |
| | `DeathIsContained` | `Spec => []DeathSparesNoOther` |
| DhcpOptionsProofs | `OptionTypeCorrect` | `Spec => []TypeOK` |
| | `PacketsReadBack` | `Spec => []PacketReadBack` |
| | `RepliesReadBack` | `Spec => []ReplyReadBack` |
| SimpleDhcpClientProofs | `TypeCorrect` | `Spec => []TypeOK` |
| | `FrameAlwaysWellFormed` | `Spec => []FrameWellFormed` |
| | `ChecksumAlwaysVerifies` | `Spec => []ChecksumVerifies` |
| ExerciseProofs | `OnlySentWordsArePrinted` | `Spec => []PrintedWasSent` |
| | `AppendsMerge` | `AppendSpec => []FileIsMerge` |
| | `PrintedStaysTrue` | `AppendSpec => []ReadStaysTrue` |

### Assumptions

TLC evaluates the named assumptions on every run.

* `AddressAssumption`: the pool is not empty, does not hold 0.0.0.0 or the
  server's own address, no address is the broadcast address, and an option that is missing
  is neither an address nor a MAC.
* `LeaseTimeAssumption`: the lease time is positive.
* `PacketAssumption`: what arrives is a packet, with any options or none. `UnwrittenAssumption`: what the
  unset pointer shows is read as an address.
* `TimeAssumption`: `0 < T1 < T2 < lease`, as in the header. `DerivedTimeAssumption`: if an answer
  with option 51 and without 58 and 59 can arrive at all, the times `set_alarm` derives then
  (`lease / 2` and `lease / 8 * 7`, integer division) are in order too and no earlier than the server's.
  They are for every lease time that is a multiple of 8, which `dhcp-project.h:68` recommends; they are not
  for 14 seconds. This repository's server never sends such an answer.
* `FileAssumption`: names are not empty, contain no NUL and are shorter than the buffer,
  whose last byte is NUL at the start. `EchoAssumption`: words contain no NUL, and the byte
  behind the buffer is NUL at the start. `AppendAssumption`: files are sequences of characters that
  `l4-2.c` does not write, so that one can tell whose a character of `test1` is.
* `OptionAssumption`: addresses have four bytes and packets are sequences of bytes; `NoOption`, which
  stands for an option that is not there, is not the value of option 53. `SimpleAssumption`: a
  hardware address has six bytes, and `Data` holds no more than `MostSummed` bytes, 65536: `in_cksum`
  adds 16-bit words up in an `int`, which has room for 2^15 of them whatever they are.

The hypotheses of a theorem are conditions under which the code has the property. The code does
not ensure them; the runs that check the property meet them, and without them it is false:

* `NoSignalBeforeRequest`: SIGALRM does not strike between the receipt of the OFFER and the wait for the
  ACK. `NoSignalBeforeBind`: nor between the receipt of the ACK and `setup_interface`; there both contexts
  can bind an address. `NoSignalInSetAlarm`: SIGALRM does not strike inside `set_alarm` behind T1;
  `alarm_lost` shows what happens when it does. `TypeCorrect` of the client needs none of them.
* `~SameSecond`: no two exchanges begin in one second. Otherwise they share an xid, and one client
  takes the other's answer; `srand(time(NULL))` does nothing against it.
* `NoTakeOver`: no lease runs out within the time looked at, or there is only one client. `address_held_twice`
  shows what happens when a lease does run out and goes to another client.
* No restart of the server: a server that has lost its list gives an address away again.
  `HeldIsRecorded` itself claims nothing any more once the server has restarted.

### The arguments

*Server.* The inductive invariant is `TypeOK /\ ListConsistent`. Its three
parts are needed together: `CountIsLength` alone survives every step, but
`AllocationTerminates` also needs that the addresses are distinct, for then the
number of leased addresses is the length of the list (`LeasedSize`), so that a
counter below the pool's size leaves a pool address free. `GrantsAreFree` needs the
distinct addresses too: `check_ipaddr` looks at the first node with an address
only.

The handlers reach the list in five ways, and each does one of four things to it:
nothing, a new time stamp for one node (`Touch`), one node more at the end
(`Appended`), one node less (`Removed`). `ReceiveEffect` shows this once, from the
handlers (`AllocateEffect`, `ConstructEffect`), together with what is known of the
packet in each case; `EffectTyped` and `EffectConsistent` show that each effect
preserves the invariant, and the action properties follow from the same
four cases. `RemoveAtProperties` says what removing a node does to the others.
`GrantsAreFree` goes through `CheckedIsFree` (an address that passes
`check_ipaddr` is not held by another client), `AllocatedIsFree` (nor is one
`allocate_ip` returns) and `ConstructIsFree`.

*Refinement.* With distinct addresses the node of an address is unique, so that owner and time
stamp of an address are functions of the list; each of the four effects is then a step of
`LeaseTable` or leaves the mapped table as it is.

*Client.* `ControlInv` says how the two contexts share the globals. Without any hypothesis: while the
handler runs main is in no wait, because an interrupted `recvfrom` has failed with EINTR and its exchange has
returned; main stands where SIGALRM can strike; and it never stands in a release, which has stopped the
alarm (`HandlerAlone`). Only where the handler can find main between the OFFER and the wait for the ACK, or
between the ACK and `setup_interface`, is more needed: outside the one, xid is main's while main waits
(`XidKept`), and outside both, a context that looks for an address finds the interface without one
(`NoAddressYet`). `AlarmInv` relates the times: an alarm
runs whenever a lease does, but for the moments of `set_alarm` and of a release, and what is left of the
lease is at least what the alarms still to come add up to (`LeaseOutlastsAlarm`). The expiry
property is the case in which no alarm but the last is to come.

*System.* `SystemInv` follows an address from the ACK to the interface. `XidsInv`: what is underway has
an xid of its sender, and a client's current xid belongs to nobody else; this lets the rest speak
of "the answers to this exchange". `SearchInv`: a client that looks for an
address has none. `OrderInv` and `ReleaseInv`: the server and the client see a client's packets in the
order of its exchanges, and a client whose RELEASE is underway holds nothing, so that no late
RELEASE removes a lease its client has taken again. `AckInv`: the address of an ACK that is
underway is recorded. `HeldInv`: so is every address that is held. With distinct addresses in the list no two
clients hold one address. Every step of a client is summarised by `Turn`, and a step of the
server by `ListServed` and `AnswerServed`, so that each part of the invariant is shown to survive
three kinds of steps and not twenty.

*File transfer.* `TransferInv` accounts for every block: of the file that was opened for a client,
what is written to the `.bak` and what is on the connection are, together and in this order, the first
`position` blocks while the server sends, and the whole file when it has closed the connection
(`Transferred`). The `.bak` is the old one from there on (`CopyInv`). A client no file was opened for
has nothing on its connection and has written nothing but junk (`UnservedInv`). A reset reaches only clients of
that kind and the one that was served, which is gone. For the name, `BufferInv` says that `fileName` has NULs from
`longest` on; what hangs on to a name was therefore below `longest` (`NameReceived`).

*Echo.* The word stands in front of its terminator, and no byte of it is NUL, so the string ends with
the word: in the buffer, or in the byte behind it if the word fills it (`ReceivePrints`). *Append.* What `l4-2` has read is a
prefix of `test1`, which only grows at its end (`ReadInv`).

*Options.* `Passes(s, code)`: whatever stands around the bytes `s`, a walk that begins at the first of
them and looks for `code` comes to their end; `Reads(s, code, data)`: it stops at an option with these
`data`. Both are about any surroundings, so they survive everything `recvfrom` and `memset` leave in a
buffer, and they compose: bytes that are passed and bytes that are passed are passed (`PassThenPass`),
bytes that are passed and bytes that are read are read (`PassThenRead`). An option is read under its own
code and passed under any other (`Group`), so what both programs fill in is read option by
option (`ClientIsRead`, `ReplyIsRead`). `MsgTypeOverwritten` is the one place where the reply depends on
the packet beneath it: if option 53 lies where the front of the reply is written, the byte the pointer
is left at is one of the front's, and none of them is DHCPINFORM (`FrontHasNoInform`); if it lies behind the front, it is what it was, and
that of a DISCOVER or REQUEST is not DHCPINFORM either. Of the lease
times in the ACK of an INFORM nothing is claimed (`GrantsOf`).

*Frame.* Each output function puts its bytes in front of those the one before has written and adds their
number to the length; `OptionsFilled` up to `EtherFilled` say so one by one, and `Frame` says what all 300
bytes are. The header's checksum is right by `ChecksumAlwaysVerifies`, which rests on three facts: the
words with the low byte first add up, modulo 65535, to 256 times the sum with the high byte
first, since 256 * 256 = 65536 is 1 there; two folds of a sum of 32 bits leave what is congruent to it and
is zero only for zero; and adding the complement makes a multiple of 65535 that is not zero.

*Merge.* What has been added to `test1` consists of characters of `test2` and of the letters of
`l4-2`, and is cut by `Filter` into what either program has written (`MergeInv`). `PlaceInv` says where in
`test2` the copy is. `FilterAppend` and `FilterWord` say what one more character or word does to either
part, and `Whole` that a word once written is not cut: each `H` is followed by its four letters, which
only bytes behind the end could change.

*Recursion over data.* `Walk`, `Total` and `Filter` are recursive functions, and the induction theorems of the
library take an operator as parameter, which the provers cannot instantiate. The facts about these
functions, that they exist, and that the walk ends, are proved by a minimal counterexample instead:
the numbers for which a fact fails form a set, which has a first element (`FirstNumber`, from the
well-foundedness of `<` on `Nat`), and one step of the recursion refutes it (`WalkExists`,
`AddExists`, `KeptExists`).

### Only model-checked

* The liveness properties `ExpiredAddressIsGivenUp`, `MenuComesBack`, `AnswerEndsTheWait`, `TransfersEnd` and
  `CopyEnds`: fairness and `ENABLED` are out of the prover's reach.
* The three properties that fail.

## What the code does not do

Three runs find a short counterexample to what a comment of the code says; the
quotations are in `PROJECT.json`.

| run | property | what happens |
|---|---|---|
| alarm_lost | `SetAlarmStartsTimer` | SIGALRM inside `set_alarm` sets `t1_time` to 0; if the handler's renewal fails, `alarm(t1_time)` is `alarm(0)` and the address has no timer |
| offer_taken_for_ack | `BindsOnlyAck` | after the REQUEST anything but a NAK is an ACK: a second OFFER binds an address that is leased to nobody |
| address_held_twice | `NoAddressHeldTwice` | the takeover of an expired address leaves the old name in the list, and the old holder is granted it again |

The models keep the following behaviour of the code as well. Each departs from what a
reader of the comments expects, and the properties are stated so as to allow it; no run
is devoted to it.

| line | what happens | where in the model |
|---|---|---|
| `dhcp-server.c:482` | `add_lease` compares addresses, not MACs: a client with a lease that asks for another address gets a second node | `add_lease` |
| `dhcp-server.c:483` | the ACK for an address with an expired lease refreshes the old holder's node: the server will NAK the new client's renewal | the exception of `AckRecordedUnlessTakenOver` |
| `dhcp-server.c:233` | an INFORM without ciaddr and without option 50: the server records and sends what an unset pointer shows, or crashes | `AckUnset` |
| `dhcp-server.c:289` | the ACK of an INFORM has the lease times the line means to leave out | `MsgTypesRead`, `MsgType`; no property demands them or forbids them |
| `dhcp-server.c:456` | the INFORM of a client without an address is leased 0.0.0.0, which counts against the pool; and `allocate_ip` does not look at time stamps, so that once the list is full, new clients that ask for no address are refused although every lease has run out | `allocate_ip`; `HolderIsAnswered` is about clients in the list |
| `dhcp-server.c:364` | the answer to a client with the unicast flag and no address goes to its ciaddr, 0.0.0.0 | `AnswerTo` |
| `dhcp-server.c:238` | the renewal of a client without a lease is acknowledged, with a random or uninitialised yiaddr, and not recorded | the last disjunct of `construct_dhcp_packet` |
| `dhcp-client.c:374` | SIGALRM between the OFFER and `setup_interface`: main and handler each bind an address | the steps `request` and `bind`, kept out of `Interruptible` in the passing run |
| `dhcp-client.c:752` | of a lease time such as 14, given without options 58 and 59, the derived T2 is before T1, and the handler calls `alarm(0)` or an alarm of a century | `SetT2`; `DerivedTimeAssumption` |
| `dhcp-client.c:634` | inform, renew and rebind run on an interface without an address and carry option 50 | `construct_dhcp_packet` of `DhcpClient` |
| `dhcp-client.c:452` | the ACK of another server to an INFORM replaces `dhcp_server_identifier` of a bound client | `ReceiveAck` |
| `dhcp-client.c:343` | two clients that begin in one second share an xid, and one configures the other's address | `SameSecond` |
| `dhcp-project.h:114` | an option 50 of an earlier packet is found behind a bare option 255 | `get_dhcp_option`; `PacketReadBack` is about the packets of `dhcp-client.c`, which do not end so |
| `simple-dhcp-client.c:165` | `dhcp_input` compares the opcode, which every reply has, with the type OFFER: the ACK or NAK to anybody ends the wait | `Accepted` |
| `simple-dhcp-client.c:280` | ten bytes of the stack behind `mac[6]` are sent as part of chaddr | `BehindMac`; the exception of `TypeOK` |
| `l7-Server.c:31` | a `recv` that fails is not told from one that succeeds: the old name is opened again for a client that is gone | `RecvFails` |
| `l7-Server.c:31` | the name of a file keeps the end of a longer one before it | the exception of `WrongNameOnlyAfterLonger` |
| `l6-EchoServer.c:40` | a datagram of `ECHOMAX` bytes is terminated outside the buffer | `Terminate` |

## Limits of the models

* `DhcpServer` takes options as decoded and lets an option be anything, which covers
  what `DhcpOptions` shows an earlier packet can leave in the buffer.
* A failed `sendto`, `ioctl` or `bind` only prints or exits, and is left out. So is the
  destination of the client's packets (`change_socket_setup`): the client's model
  has any answer arrive whatever was sent, and in `DhcpSystem` there is one server,
  which hears everything.
* `DhcpClient`: an answer always has options 53 and 54. The code uses what it reads as the two
  without looking at the length returned (lines 364, 389 and 393), so without them it would read where
  the pointer has been left by the option looked up before, or where nothing has set it.
* A step of the server reads the clock once where the code reads it up to three
  times in a row.
* The handler can strike between the steps of `DhcpClient`, not inside one: a
  SIGALRM between the return of `recvfrom` and the assignments after it is taken to
  strike before or after both. Its effect on `if_eth`, which `setup_interface` is about to give to
  `ioctl`, is not modelled.
* In `DhcpSystem` the last alarm strikes on time, a lease counts from the arrival of its
  ACK, datagrams between two hosts keep their order, and the empty datagram of an
  exhausted server reaches nobody. A duplicate arrives right behind the original (`Arrived`): a
  second RELEASE that arrives behind a later REQUEST of the same client does not occur here, though
  in `DhcpServer` packets come in any order. With `SameSecond` a client can take another's
  answer, or one its socket has kept from an exchange of the same second; the properties
  are therefore claimed without it.
* `FileTransfer`: `recv` fails only for a connection whose client is gone, and `accept` does not fail; a name is shorter than the buffer, not empty, and arrives in one piece; a block is what one
  `read` gives and one `recv` takes.
* `SimpleDhcpClient`: IP headers on the wire have no options.
* `Echo`: the byte on either side of the buffer stands for whatever variable the compiler
  puts there.
* Output, usage text and packet dumps are left out.

## Plan

1. The hazards the models leave out (`PROJECT.json` says why): the reply to a client that asked for
   unicast without an address, and `if_eth` between `setup_interface` and a SIGALRM.
2. The premises of the theorems about `DhcpSystem`: `HeldIsRecorded` for two clients whose leases run out
   but are not taken over.
