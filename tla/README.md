# A verification development for the RTU (rtu-a118)

The repository is the firmware of a remote terminal unit for oil wells: one
Linux process, about ten threads, one shared register map that is partly kept
in flash, Modbus servers and clients over TCP, UDP, RS485 and RS232, a ZigBee
network of meters, relay outputs and an SQLite history.  This directory holds
TLA+ models of its control logic, the TLC configurations that check them on
small instances, and TLAPS proofs of what matters most.

## 1. The system

### 1.1 Components, their state and their operations

| component | source | state | operations |
|---|---|---|---|
| start-up and watchdog | `rtu_a118.c`, `common/thread.c` | the global `rtu_a118_t`, one time stamp per thread | `main` opens seven message queues anew, initialises the map and the relays, starts the threads, then clears stale meter data and tests the thread times for ever |
| message queues | `common/pmsg_q.c` | one POSIX queue per thread, `O_NONBLOCK`, ten messages | `pmsg_q_send` (a full queue drops, nobody looks), `pmsg_q_receive` |
| register map | `data/map.c` | per well: internal registers `ram_x` with a type, a record and a read/write mark, the Modbus address map `ram_y`; `flash1` (shared), `flash2` (per well), both memory-mapped files | external read and write (address map, read-only check), internal read and write (flash, `msync`, ram), side effects of special registers (configuration broadcast, well type, sampling intervals, relays, clock, history) |
| configuration broadcast | `rtu_reset_flash1` and the handler of every thread | the queues, each thread's copy of its registers | write to `MAP_CONFIG1` sends `MSG_CONFIG_START` to six threads |
| RS485 master | `modbus_485/modbus485_master.c`, `meter/wired_*.c` | control state, sampling intervals and times, serial context | select and dispatch, three jobs (electrical parameters, actuator, synchronised sampling), messages served inside a job |
| RS485 slave, RS232 server | `modbus_485/modbus485_slave.c`, `modbus_232/modbus232_server.c` | serial context | receive, reply, reopen when the port settings change |
| TCP server | `network/tcp_server.c` | listening socket, descriptor sets, `fdmax`, port | accept, serve, close, listen again on a new port |
| TCP client | `network/tcp_client.c` | one connection, remote address, idle count | connect, serve, reconnect on timeout or on a new address |
| UDP server and heartbeat | `network/udp_server.c` | socket, six remote addresses, heartbeat interval, wall-clock time of the last one | serve, send heartbeats, listen again |
| ZigBee server | `zigbee/zigbee_tty_server.c`, `zigbee/zigbee.c` | saved radio parameters, serial context | frames from meters, AT configuration of the radio with retries, synchronised sampling |
| wireless meters | `meter/meter.c`, `meter/*_analysis.c` | per well and meter the sample time and address | analyse a frame, claim a well for a meter, clear stale data |
| relays, LEDs, reset button | `gpio/leds.c` | coil pins, button count | set a relay (a 5 ms coil pulse), restore relays at start, reset flash1 by the button |
| history | `data/data.c`, `data/sqlite_utils.c` | SQLite table, row count, first time | store a snapshot every ten minutes, trim, answer a history request |
| log | `common/rtu_log.c` | ring of messages under a mutex, UDP socket | append, send |
| Modbus library | `libmodbus-3.0.6` (modified) | serial or socket context, a message descriptor and handler per context | the receive loop also waits for the thread's message queue and runs the handler inside the receive |
| drivers, SQLite, cJSON, web server, tools | `driver`, `sqlite`, `cJSON`, `network/webserver.c`, `tools`, `test` | | not part of the modelled program |

### 1.2 How they interact

All threads share the register map; the functions `lock_modbus_rtu_lock` and
`lock_modbus_rtu_unlock` that bracket its reads and writes have their mutex
calls commented out, so map operations interleave at every memory access.
Threads tell each other about changes only by messages.  A serial thread reads
its queue in two places: in its own loop, and inside every Modbus receive
(`_modbus_rtu_select`), where the handler runs re-entrantly, in the middle of
the job the thread is busy with.

### 1.3 What is hard

* interleaved register writes, and handlers that read registers while they are
  being written;
* queues that drop when full, and messages that are sent before the store they
  announce;
* handlers that run inside a job and replace what the job is using;
* loss of power between a store, its `msync`, and the copy in ram; flash files
  that exist but were never filled;
* timers on the wall clock, which a register write can set;
* descriptors and contexts replaced while others still refer to them.


### 1.4 What makes each component correct

* **Configuration broadcast**: a change that was announced is acted upon by
  every thread, however many announcements were merged or dropped.
* **Register map**: what a Modbus master was told is stored survives a loss of
  power; a start or a reset never replaces stored settings by defaults; a loss
  of power while a flash file is given its defaults may leave registers of that
  file erased for good, but no others, and a well has a type in any case; a
  request lands where it says; a relay is as its register says.
* **RS485 master**: a cycle asked for by a load meter is sampled; every job ends,
  whatever the meters and the other threads do.
* **TCP server and client, UDP server, serial servers**: every descriptor that
  should be watched is, no other is; a request is answered, whatever was on the
  line before; no thread waits for a descriptor that has nothing for it (the send
  of an answer is another matter, section 4.1); a change of port or address takes
  effect; heartbeats are sent in time.
* **ZigBee server**: what the radio has acknowledged is what it has; every
  dialogue ends; new settings are taken up.
* **Wireless meters**: the data of a silent meter are cleared, and those of a
  live one never are.
* **Relays**: no coil stays energised, and the relay ends where the last write
  put it.
* **History**: the count kept in memory agrees with the table as far as the
  database lets it, the table stays within its limit, recent rows are kept,
  snapshots go on whatever the clock does; a request is answered by the first
  row after the minute it names has begun.

## 2. The plan

Modules in the order in which they were written; those above the line exist.

| module | models | abstract specification | proofs |
|---|---|---|---|
| `ConfigNotify`, `ConfigBroadcast` | sends, dropping queues and handlers of the configuration broadcast | `ConfigNotify` (sticky flags), implemented by `ConfigBroadcast` | `RegisterMapProofs`: types, `NoLostConfig`, the refinement, what the flags promise |
| `RegisterMap` | `map.c`: start, external writes, flash, `msync`, loss of power | | `RegisterMapProofs`: types, `Durable`, `SettingsSurvive`, `NeverErased`, `WritableRequestLands` |
| `Master485` | the RS485 master and its jobs | | `MetersProofs`: types, `SyncStands`, jobs advance |
| `TcpServer` | descriptors and rounds of the TCP server | | `TcpProofs`: types, `FdmaxCovers`, `RefsetExact`, `NeverWaits` |
| `TcpClient` | connect, time out, new address | | `TcpProofs`: types, `WatchesConnection`, `AddressCurrent`, `GivenUpWhenSilent` |
| `Relay` | coil pulses of `gpio_set_do`, several writers, the start | | `RelayProofs`: types, `CoilsRest`, `RelayFollows` |
| `ZigbeeConfig` | dialogues with the radio, retries, messages inside them | | `ZigbeeConfigProofs`: types, `Acknowledged`, `NestingBounded`, calls advance |
| `HistoryStore` | snapshots, the row count, deletions, requests | | `HistoryStoreProofs`: types, `TableBounded`, `RecentKept`, `FirstIsOldest` |
| `SerialServer` | RS485 slave and RS232 server, byte by byte | | `SerialServerProofs`: types (the buffer), `NoOverrun` |
| `UdpServer` | requests, heartbeats, the wall clock, reopening | | `UdpServerProofs`: types, `BeatInTime` |
| `WirelessMeters` | packets of meters against the clearing of silent ones | | `MetersProofs`: types, `ClearedInTime`, `LiveKept` |
| --- | | | |
| a composition of `RegisterMap` and `ConfigBroadcast` | settings stored, announced, read again | `ConfigNotify` | |
| `LoadDiagram` | the packets of a diagram, the mark of an old one | | |

## 3. The modules

### 3.1 `ConfigNotify` and `ConfigBroadcast`

A server thread stores registers of the `FLASH1` area and writes 1 to
`MAP_CONFIG1`; `rtu_reset_flash1` (`map.c:695-714`) then sends `MSG_CONFIG_START`
to six queues, one after the other.  `queue[c]` is the queue of thread `c`,
`todo[c]` the registers its handler (or its start) still has to read, `seen` and
`announced` number the stores that were read and announced.  `SendConfigStart(w)`
is one `pmsg_q_send`: a full queue drops the message.  `Receive` and
`ReadRegister` are a thread's handler; the thread takes no message while it is
in it.  `PowerCycle` is a loss of power: queues are made anew, threads read
what `flash1` holds.

A thread is *dedicated* if its queue carries `MSG_CONFIG_START` only.  For those
the code is right for a subtle reason: a full queue that drops an announcement
holds another one, which will be served later and makes the thread read
everything again.  `NoLostConfig` says so; `ImplementsNotification` says that
the dropping queue is a sticky flag (`ConfigNotify`), with
`flag[c] = (queue[c] # << >>)`.  Two queues are shared: that of the RS485 master
(`rtu_client`) carries `MSG_CONFIG2_START` and `MSG_LOAD_ELEC_SYSN` too, that of
the ZigBee server `MSG_LOAD_ELEC_SYSN` (`load_meter_analysis.c:176-183`).  There
the argument fails: an announcement can be dropped for good.

The TCP server and the TCP client answer requests with a blocking `send` that
has no time-out (`Hold`, `Release`).  While it blocks, the thread takes no
message; a master that never reads its answers keeps the settings out for ever,
and `EventuallyApplied` excepts that.

### 3.2 `RegisterMap`

`ram[w]` holds a well's `ram_x`, types, read/write marks and `ram_y`; `flash1`
and `flash2` are the mapped pages, `disk1` and `disk2` the files.  The three
steps of `map_init` are `CreateFlash`, `FillMap` and `StartThreads` (with
`gpio_do_init`); a request is `Request`, then for each address `WriteUnmapped`,
`SkipReadOnly` or `EnterWrite`, then, depending on the register's type, the
stores, the `msync` and the store to ram, each a step of its own since
`lock_modbus_rtu_lock` does nothing; `Reply` ends it.  A change of the well type
runs `map_item_remap` row by row, the reset button `reset_flash1_to_default`.
(The start installs a table in ram as a set of rows, which is the same as row by
row since a table names no register and no address twice; `RowByRow` in the MC
module says so of the instances, and TLC evaluates it.)
The kernel may write a page back at any time (`WriteBack1`, `WriteBack2`), an
`msync` may fail, power may be lost anywhere.

A flash file that was just made is on the disk before its defaults are
(`map.c:230`, `map.c:599`).  If power is lost in between, the next start finds a
file that is not new and gives it no defaults: its registers stay erased.  The
same happens to the registers of a well whose new type was on its way to the
disk, or whose `msync` failed.  `torn1`, `torn2` and `changed` are history
variables: power was lost over such a flash1, over such a part of flash2, and
the wells whose type no `msync` has confirmed yet.  `NeverErased` bounds the
damage: an erased flash1 register means a torn flash1, an erased flash2 register
a torn well (or a change of type that is under way), and the well type is known
in any case, since `ram_map_flash2_value_init` makes 1 of an unknown one.

The rows of the instances stand for the kinds of rows of the CSV files: a
`FLASH1` setting, a `FLASH2` setting of one well type, the well type and a relay
(`SYS`), a read-only register in ram, an address without a row.  Rows whose
default is -1, which are reserved and read as erased from the start, are left
out.  `Blank` is a register nobody has stored, not a value: a server that writes
0xFFFF stores a member of `Value`.

### 3.3 `Master485`

`pc` is where the thread is: in the loop (`select`, `schedule`, `dispatch`,
`over`) or in an exchange (`send`, `wait`, `read`, `fail`).  `ctrl` is
`master_485_ctrl`, which `msg_handler` may change in the middle of a job, and
`job` the job that runs.  `WaitAnswer` is the `select` of the modified libmodbus,
which prefers the message queue to the serial port, runs the handler, and then
goes on to read an answer that may not be there.  `line` is the request not yet
answered, `rx` the answers waiting in the port.  `MaxTries(j)` is how often an
exchange of job `j` is tried: 3 times in a periodic job, up to 6 failures in the
sampling of a cycle.  `owed` is a history variable: a SYNC came while no cycle was
being sampled, and its own has not begun.  `SyncStands` says that
`master_485_ctrl` then is that SYNC's, whatever ends, comes due or comes in; a
SYNC that comes during the sampling of another cycle is left out, since it only
replaces that cycle's parameters.

### 3.4 `TcpServer`

`own[f]` says what the process uses descriptor `f` for; `refset`, `rdset` and
`fdmax` are the variables of that name.  A round visits `rdset` upwards: `Accept`,
`ReceiveMessage` (with `Reset` when the port has changed), `Serve`.  `Reset`
closes the ready clients and the server socket and opens another; the others
become `"lost"`: open for ever, watched by nobody.  Other threads open and
close descriptors too (`OtherOpens`, `OtherCloses`), so a number can change its
meaning within a round.

`msg_handler` is a nested function whose loop over the ready numbers uses the
loop variable of the round itself (`tcp_server.c:83`, `tcp_server.c:137`).  It
leaves it past the old `fdmax`, so a reset ends the round (`next' = fdmax + 2`),
and a number that has got another meaning in it is not visited.  `NeverWaits`
depends on that: with a variable of its own in the handler (the mutant
`Reset_OwnLoop`) the round would go on to `accept` on a new server socket, or
receive from a new client, that has nothing for it.

`sending` is the client whose answer is being sent, `full` the clients that have
left so many answers unread that another one does not fit.  `Reply` waits for
such a client to read (`ClientReads`), which nobody obliges it to do: the one
wait of the thread that has no end of its own.

### 3.5 `TcpClient`

`node` holds the two remote addresses (IPv4 and IPv6), `turn` is `i % 2`, by
which the loop takes them in turn, `sock` the connection, `watched` its bit in
`fdset0`, `idle` the `j` of the code.  `ConnectToMaster` opens a connection or fails.  A
name that does not resolve is a third case: `modbus_connect` returns what
`getaddrinfo` returned, which is not -1, so the code resets `j` and goes on with
`ctx->s` still -1.  `SelectClient` finds `ready`; `TimeOut` counts, and closes the
connection when the count passes `MaxIdle` (200); `Receive` serves or closes;
`ConfigStart` and two `ReadAddress` steps are `msg_handler`.  The select and the
close of a time-out are two steps, so a request may arrive between them and is
lost with the connection.

The peer may die without closing (`"dead"`).  `silent` is a history variable: the
time-outs since the connection was opened or last served.

### 3.6 `Relay`

A latching relay (DO0 or DO1 of hardware version 2, `RTU_HW_VERSION` in
`data/map.h`) has a coil that switches it on and one that switches it off.
`pinA` and `pinB` are the pins, `closed` the relay, `reg` and `disk` its
register.  A write is `SwitchA`, `SwitchB`, `Slept`, `RestA`, `RestB`, each an
`ioctl` or the sleep of 5 ms, then `Store` and `Sync`; the threads interleave at
all of them.  `gpio_do_init` (`Start`) is a write of `main` before the servers
start.  A coil that was energised for all of a sleep has moved the relay
(`steady` holds the sleepers since whose beginning no pin has changed); any
shorter pulse may or may not have (`Move`).  At power-up pins and relay are
arbitrary.

`solo` and `parted` are history variables.  When two writes overlap, the relay
and its register may part (`parted`), and nothing in the code brings them
together until a write overlaps with no other (`solo`).  A change of the type of
well 1 parts them too: `map_item_remap` runs with `flash2_is_new` set and stores
the default of the register, 0, without a pulse (`map.c:516-519`, `map.c:325`;
`Remap`).  `RelayFollows` is what is left, and holds after any loss of power.

### 3.7 `ZigbeeConfig`

`want` are the nine radio registers, `saved` is `zigbee_conf_buf`, which the
thread compares them with.  `set_zigbee_para` is a record of `stack`: the
parameters it was called with, its step (the AT orders, a frame for each setting,
`WR`, `NR`), the tries of the step, and where the thread goes on afterwards.  The
wait for a reply is `_modbus_rtu_select` again: it serves a message first, and
`MSG_CONFIG_START` with other parameters pushes another call (`Start`).  The
inner dialogue runs to its end, then the outer one reads what may not be there,
and goes on with its older parameters.  Each level costs a frame of the thread's
C stack; `NestingBounded` says that only a change of the settings (or a start)
adds one, because `msg_handler` copies the parameters before it calls, so that
repeated messages find them unchanged.  `api`, `radio` and `kept` are the radio,
`line` its replies under way, `rx` the frames that have come, with those of
meters (`"junk"`).

`AtOrders` is one step for the nine orders of `set_at_order`: their result, an
`u8`, is compared with -1 and is never that, so the thread goes on whatever they
say.  Each order reads at most three bytes of what has come in
(`zigbee.c:515-533`), so the nine of them take three replies of nine bytes
(`Taken`); replies beyond these are still there afterwards, a broken one before
them, and can be taken for the acknowledgement of the new call's frames.
`gaveUp`, `stale` and `leftover` are history variables: since the last call began
an exchange was given up, a frame was sent with parameters that are not the
thread's any more, or late replies survived the orders.  `Acknowledged` holds if
none of them happened; if one did, the radio may be left with a mix, and nothing
tries again before the next change.

### 3.8 `HistoryStore`

`rows` is the table as the sequence of the times of its rows, `count` the
thread's `h_data_len`, `first` its `first_data_time`, `time0` and `timeCount`
the two timers.  `TurnIdle` and `TurnDue` are a turn of the loop with its one
message or second of waiting, `Insert` and `InsertFails`, `Delete` and
`DeleteFails` what follows a due snapshot, `Start` a start of the RTU with the
two queries of `thread_data`.  `asked` and `answer` are the registers of a
request, of which the queue only carries the number.  Rows have seconds, the
registers have minutes (`data.c:223`, `data.c:282`): a request finds the first
row later than the start of the minute asked for (`Later`), and is answered with
the minute of that row (`Minute`), which may be the minute asked for.
`AnswerFails` stands for the errors of the handler: no memory (`data.c:211`), a
query that fails (`data.c:233`), a row that does not unpack (`data.c:264`); the
registers then keep an earlier answer.  `stored` is a history
variable: how many rows were ever stored.

`sqlite_data_store_bin_data` returns 0 whatever happens, so `count` grows by
rows that are not there; `failedRows` says by how many, and deletions then come
too early by as much (`RecentKept`).  A failed deletion is not tried again before
the next snapshot (`TableBounded`).

### 3.9 `SerialServer`

The line carries bytes; a byte is a token of its frame and its place.  `got` is
what `receive_msg` has put into `msg`, `need` its `length_to_read`, `step` what
it will reckon next.  A byte read at the place it was sent for tells the class
of the function or the number of data; a byte read at another place, or a
disturbed one, may tell anything (`ClassOf`, `DataLength`).  `Timeout` is
`byte_timeout`, which there is only once something has been read.
`ServeMessage` is `_modbus_rtu_select` with a message, in the middle of a frame
or not; `Reopen` closes and opens the port after the second the handler sleeps,
and the receive goes on with a freed context: it may have the new port or have
to begin anew.  When a message is found and no byte, `select` has taken the port
out of the set and the loop does not put it back (`deaf`): the rest of the
frame is not seen before the receive ends.

`Answered` needs the master to leave a silence before it asks again: nothing but
a silence of 0.5 s brings `receive_msg` back to the beginning of a frame, so a
master that asks again sooner may never be answered after a disturbed byte.  A
port that does not open is never tried again (`up`).  The RS232 server is the
same with `MaxMsg = 0`.

### 3.10 `UdpServer`

A turn of the loop is `Select`, `Beat`, `Recv`, `Msg`.  `select` waits up to 3 s
(`MaxWait`, of which `waited` have gone by) if nothing comes: a heartbeat that
falls due just after it has begun is sent 3 s later.  `used` is what the thread
has read of its settings, with intervals raised to the least ones; `since` is
`time(NULL) - time0`, which `SetClock` changes.  `sock` is the port of the socket,
`"none"` after `modbus_tcp_pi_udp_listen` failed; as the port of `port_str` is
then the one in the registers, a message does not open it again.  `age`, `back`
are history variables: seconds a heartbeat has been waited for, seconds the
clock has been set back since the last.

### 3.11 `WirelessMeters`

main's pass over the meters (`Wake`, then `Check`, `Mark`, `Clear` for each) and
the ZigBee thread (`Packet`, `Answer`, `Stamp`, `Store`) share `sample` without a
lock.  `meter` holds what the meters do: sleep as they were told, send, fall
silent, come back.  The daily request for parameters takes the place of an
answer, so that day's packet does not renew the sleep.  `Meant` is the interval
main goes by: that of a load meter is in minutes and multiplied into a `u16`.
`quiet`, `steady` and `row` are history variables.

The flow meter's packets are stamped in slot `WL_FLOW_METER_NO` (9), while main
looks at the slots 7 and 8 of the actuators and clears the flow data by those: a
live flow meter loses its data again and again.  The kind is in the module, both
properties exclude it.  `Live` also excludes an interval of a load meter of more
than 1092 minutes, which wraps.

`row` counts the packets since which a meter is up, sleeps as its interval says,
and clock and interval are as they were; a meter is `Live` from the third on.
The first stamp can be written over by a pass that read the clock before it was
set, or found the meter silent just before; the second packet's data can then be
cleared by that same pass if they come within it.  A third one cannot, unless
the meter sleeps no more than a second, so that several packets fall into one
pass: `Live` excludes that, and TLC finds the data of such a meter cleared when
it does not.  So that ten intervals leave room for a sleep and the delay of a packet,
a packet comes less than twice nine seconds late (`PunctualAssumption`).

## 4. What the runs check

Every run explores its instance to the end.  Each property is also known to fail
for a mutant of the code (the definitions marked "Mutant").  The type invariants
are all proved; only a run of `RegisterMap`, where it is one of the hypotheses of
everything else, checks its own as well.

| run | properties | instance | why it is enough |
|---|---|---|---|
| `broadcast` | `NoLostConfig`, `ImplementsNotification`, `EventuallyApplied` | 2 writers, a dedicated thread that answers over TCP and a shared one, 2 registers, queues of 2, a store of each register | a full queue, two interleaved broadcasts, a store between two reads of a handler and an answer that blocks all happen; the theorems cover every size |
| `map_settings` | `TypeOK`, `Durable`, `NeverErased`, `SettingsSurvive` | 1 well, 2 well types, 2 servers, 1 failing `msync` | two servers interleave; power is lost between any two steps, repeatedly, also while the files are made and while a type changes; the theorems cover every size and every table |
| `map_many` | `WritableRequestLands` | 2 wells, 1 server, the button, a relay written with 0 to 2, requests of one to three registers | requests that span rows, unmapped addresses and read-only ones; both wells write the one relay.  Two servers at the relay are in the run `relay`; the theorem covers every size and every table |
| `master` | `SyncStands`, `SyncServed`, `JobsEnd` | one writer, all four messages, queue of 2, 2 tries and 3 failures, 2 samples, a late answer | every job is interrupted at each of its steps; the theorem covers every size |
| `tcp` | `FdmaxCovers`, `RefsetExact`, `NeverWaits`, `RequestsServed` | 3 numbers for sockets, 2 ports, queue of 2 | a server socket, a client and another client or another thread's descriptor exchange numbers, and a client leaves its answers unread; the theorems cover every size |
| `tcp_client` | `WatchesConnection`, `AddressCurrent`, `GivenUpWhenSilent`, `DeadPeerDropped`, `BothTried` | 3 addresses, queue of 2, 3 time-outs | addresses change while the thread is connected, reading and counting; the theorems cover every size |
| `relay` | `CoilsRest`, `RelayFollows`, `CoilsReleased` | 2 servers, values 0 to 2 | two servers can overlap for ever, and the type of well 1 changes at any time; the theorems cover any number |
| `zigbee` | `NestingBounded`, `Acknowledged`, `CallsEnd`, `TakenUp` | 2 sets of parameters, 2 settings, 2 tries, queue of 2, 2 frames under way, of which the orders take 1, one change or restart | calls nest to depth two, and a reply of one can come in another, before or after a meter's frame, and survive its orders; the theorems cover every size |
| `history` | `TableBounded`, `RecentKept`, `FirstIsOldest`, `StoresGoOn`, `Answered` | an interval of 2, a limit of 2 rows, deletions of 2, one failure of each kind, one start, a clock of 3 values, of which two are in one minute | the table fills, is emptied and fills again; a start comes before a deletion; rows are stored in and after the minute asked for; the theorems cover every size |
| `serial` | `NoOverrun`, `Answered`, `TakenUp` | two requests, an answer of another slave, a function unknown, an ADU of 20 bytes, 2 disturbances, messages or failures | a request is broken at each of its bytes, by each cause and by two of them |
| `udp` | `BeatInTime`, `Served`, `TakenUp` | 2 ports, intervals below and above the least, no remote server, a `select` of 3 s, the clock set once by up to 2 s | heartbeats, requests, answers and settings at each point of a turn; the theorem covers every size |
| `meters` | `ClearedInTime`, `LiveKept` | a sensor and a load meter, two intervals each, one a single second and one that wraps, 13 seconds, two changes | a packet comes at each point of a pass; a meter falls silent, is cleared and comes back; the theorems cover any number of meters and all times |

In `meters` times are scaled: ten intervals become two, a minute two seconds, a
`u16` three bits, a day three seconds.  The clock stops at `MaxTime`, and the run with it,
which is why deadlock is not checked there; in all others the system cannot stop.
The bound of `ClearedInTime` is tight: with a second less it is violated.

Bounds: `MaxVer` (stores per register), `MaxMsg` (the code has 10; two suffices
for "full" to differ from "one left"), `MaxFail` (failures of `msync`; of inserts, of deletions, of answers, and starts), `Taken` (3 in the code), `MaxRx`
(bytes, frames or datagrams waiting), `MaxEvent` (disturbances and changes), `MaxLate`
(answers waiting), `Resend` and `SyncFail` (3 and 6 in the code), `Points`
(up to 250), `MaxFd`, `MaxIdle` (200 in the code: the count only has to pass
through "one left" and "over").

### 4.1 What the code does that its documents do not say

The models follow the code in these points, and their properties are stated so as
to leave them out:

* a request that names a read-only register: `map_modbus_write_registers` passes
  it over without advancing in the values, so that the rest lands one register
  too late (`map.c:1299`; `SkipReadOnly`).  `modbus_write_registers.txt` of the
  library has each value stored at its address.
* a late answer: `check_confirmation` compares the function and the number of
  registers, and nothing is flushed before a request, so an answer that comes
  after its exchange was given up is taken for that of another request of the
  same shape (`modbus.c:900`; `Fits`).
* an interval that is announced before it is stored: `MSG_CONFIG2_START` is sent
  first (`map.c:939`; `WriteIntervalRegister`, `StoreInterval`), so that the master may
  keep the old one, although `modbus485_master.c:148` wants it updated.
* both coils of a relay: two servers that write opposite values within 5 ms
  energise both (`leds.c:97`; `SwitchA`, `SwitchB`), which the table of
  `leds.h:42-43` does not have.
* a torn flash file: `map.c:159-165` makes it, `map.c:284-331` fills it, and a
  start in between two losses of power takes it as it is.  The registers stay
  erased, flash1's until the reset button fills them, flash2's until the well
  gets another type or the register is written (`PowerLoss`, `torn1`, `torn2`).
* an answer that is not read: the `send` of an answer (`tcp_server.c:225`,
  `tcp_client.c:191`, `modbus-tcp.c:175-183`) has no time-out, so one client can
  stop the TCP server for all of them, its messages included (`Reply`, `Hold`).
* a new type of well 1: the relay's register becomes 0 and the relay stays
  (`Remap`), until the next write or start.
* late replies of the radio: those that the orders of a call leave in the input
  acknowledge frames they do not belong to (`AtOrders`, `leftover`).
* paging through the history: as the registers hold minutes, a request for what
  follows the last answer finds the same row again if it was stored after the
  start of its minute; a reader has to ask for the next minute (`Later`).
* the flow meter's stamp (`pressure_meter_analysis.c:247`, section 3.11).

### 4.2 Fairness

* `ConfigBroadcast`: weak fairness of each writer's next send, since no send to
  a queue blocks; strong fairness of each thread's own steps.  A thread waits in
  `select` on its queue, and its handler has no loop; the two TCP threads also
  send answers, which may block for ever (`Hold`, without fairness of `Release`).
  If each of them ends, the thread comes back to its `select`, and each round
  visits the queue: it takes a message in the end although sends go on
  blocking, which is strong fairness.  Writers are under no obligation.
* `Master485`: weak fairness of the thread.  Each of its `select`s has a timeout
  (5 s in the loop, the response timeout in an exchange).
* `TcpServer`: weak fairness of the thread, whose `select` has a timeout.  Its
  `accept` and receive have none and are disabled when nothing is there, which
  `NeverWaits` excludes.  The `send` of an answer has none either: `Reply` is
  disabled until the client has read, and no fairness is assumed of clients, so
  that `RequestsServed` excepts a thread that is blocked in it for good.
* `TcpClient`: weak fairness of the thread: `select` waits 2 s, `connect` is cut
  off by a send time-out of 2 s, a receive by the byte time-out.
* `ZigbeeConfig`: weak fairness of the thread; each wait in a dialogue has a
  time-out, and that of the loop ends when a message is there.
* `HistoryStore`: weak fairness of the thread, whose `select` waits a second at
  most; strong fairness of a due snapshot that finds memory.
* `SerialServer`: weak fairness of the thread, of the line, and of a master that
  does not give up a request and leaves a silence before it asks again.
* `UdpServer`: weak fairness of the thread, whose `select` waits 3 s at most and
  whose `sendto` is of datagrams.
* `WirelessMeters`: none, its properties are safety properties; that main's pass
  and the analysis of a packet take no more than a second is in `Tick`.
* `Relay`: weak fairness of `main`'s start and of each write that has begun;
  `gpio_set_do` waits for nobody.
* `EventuallyApplied` and `CoilsReleased` are stated for runs in which power is
  not lost for ever again.

## 5. What is proved

The proofs hold for every value of the constants that satisfies the module's
assumption.

**`RegisterMapProofs`**, of `RegisterMap` (assumptions `MapAssumption` and
`TablesAssumption`).  The latter is what the CSV files of `image/` have in
common: the rows of a well of one type name each register and each address once,
`map1.csv` holds the well type as a `SYS` row and shares no row with the tables of
the well types, which have no `FLASH1` rows, and a register that can be written
has the same address in every table.  `Invariance`: `Spec => []Inv`, and
from it `TypeCorrect` (`TypeOK`), `StoresAreDurable` (`Durable`),
`StartsKeepSettings` (`SettingsSurvive`), `RegistersHaveDefaults` (`NeverErased`)
and `RequestsLand` (`WritableRequestLands`).  `Durable` and `SettingsSurvive` are
parts of the invariant as they stand; the others need more:

* `MapOK`: what the maps in ram say of a register comes from a row of a table,
  and the well type stays a `SYS` register, so that a write to it is the change
  of the tables and not a store;
* `Untouched`: until the threads start, the pages are what was found on the disk;
* `DefaultsDisk1`, `DefaultsDisk2`: a file that is on the disk, that the present
  start did not make and that is not torn holds its defaults.  Of flash2 this is
  said well by well, of the wells whose type an `msync` has confirmed
  (`Confirmed`): a write-back may bring a new type to the disk before, or after,
  its registers;
* `SameType`: for those wells the disk has the type the page has, so that the
  registers the disk has to hold are those of the page; `RemapUnconfirmed`: a
  change of type under way is not confirmed;
* `Defaults1`, `Defaults2`, `TypeKnown`: what the pages hold from `FillMap` on.  A
  well whose type changes is in between: each row of its new table either has
  been filled or is still ahead of the thread that fills them (`Pending`), or is
  the one in its hand (`InRow`).  Both say "some thread": two may change one
  well's type at once;
* `OpOK` (a thread is where its counters say), `AloneOK`, `Current` and
  `Progress`: a request that nobody overlaps has landed as far as it has come,
  the last value being the one in hand.

**`RegisterMapProofs`**, of `ConfigBroadcast` (assumption `ConstantsType`: the
shared and the blocking threads are threads, the send order names threads, a
queue has room for one message).  `BroadcastTypeCorrect`: `BroadcastSpec => []BroadcastTypeOK`.
`ConfigNeverLost`: `BroadcastSpec => []NoLostConfig`.
`NoLostConfig` is not inductive: that a full queue still holds an announcement
needs `OneKindOnly` (a dedicated queue holds one kind of message), that a read
brings a thread up to date needs `AnnouncedIsStored` (nothing is announced that
was not stored).  `QueuesImplementFlags`: `BroadcastSpec => Notification!Spec`,
each step being a step of `ConfigNotify` or a stutter, under the same invariant.
`FlagsMissNothing` is about the abstract specification alone: sticky flags miss
no announced store (`Promise` adds that nothing is announced that was not
stored).  `BroadcastMissesNothing` carries that over to the queues through the
refinement.

**`ZigbeeConfigProofs`** (assumption `ZigbeeAssumption`: the settings are not
called as the other steps are).  `Invariance`, and from it `TypeCorrect`
(`TypeOK`) and `SettingsAcknowledged` (`Acknowledged`).  The property speaks of
the moments when the thread has nothing to do; `Converging` speaks of all
others: the settings are in place, or the innermost dialogue is on the way to
put them there (`Progress`), which covers the replies still under way, since an
outer dialogue may take one for its own.  It is asked only while `leftover` is
false: then the orders have left none but broken frames.  `PastOrders` says that a dialogue is
interrupted only past its first step, so no reply can be meant for that.
`CallsNestBounded` (`NestingBounded`) needs `Nesting`: parameters that were not
taken up yet make room for one call more.  `CallsAdvance` is the action property
`CallAdvances`: each step of the thread in a dialogue ends the innermost call,
takes it to its next step, its next try or nearer to the end of a try, or starts
another one for changed settings; the calls around it stay where they are, and
nothing but a start touches them otherwise.

**`TcpProofs`**, of `TcpServer` (assumption `TcpAssumption`).  `Invariance`:
`Spec => []Inv`, and from it `TypeCorrect`, `SelectCoversAll` (`FdmaxCovers`),
`SelectsOwnOnly` (`RefsetExact`) and `NeverStuckInReceive` (`NeverWaits`).  The
invariant adds `OwnExact` (the queue and the server socket are where the
variables say) and `StillReady` (what `select` found ready and was not visited
yet is ready still, and not above `fdmax`): a round that closes and opens sockets
of its own accord is over, one that drops a client is past it, and what other
threads and clients do takes nothing away.  `RefsetExact` and `FdmaxCovers` depend on each
other: that a dropped client was below or at `fdmax` comes from the latter, that
lowering `fdmax` by one loses nobody from `refset` having no other number there.

**`TcpProofs`**, of `TcpClient` (assumption `ClientAssumption`).
`ClientSpec => []ClientInv`, and from it `ClientTypeCorrect`, `SelectsOpenOnly`
(`WatchesConnection`), `ConnectsToCurrent` (`AddressCurrent`), and the action
property `GivesUpSilentOnly` (`GivenUpWhenSilent`).  `AddressCurrent` needs that
the address read first is still right when the second has been read, if nothing
was stored or announced in between (`FirstRead`), that there is no connection
while addresses are read (`ClosedForReading`) and none to anything but `node`
(`ConnectedToNode`); `GivenUpWhenSilent` that `j` counts the time-outs of the
connection there is (`IdleIsItsOwn`).

**`RelayProofs`** (assumption `RelayAssumption`).  `Invariance`:
`Spec => []Inv`, and from it `TypeCorrect`, `NoCoilLeftOn` (`CoilsRest`) and
`RelayFollowsRegister` (`RelayFollows`).  `CoilsRest` says nothing about the
time of the start; its strengthening `CoilsHeld` does: a coil that was energised
at power-up stays so until `main` has passed it.  `RelayFollows` needs that a
solo write has the relay to itself (`SoloAlone`) and how far it has got
(`SoloProgress`); a change of type disturbs neither, it only parts relay and
register (`RemapInv`).

**`HistoryStoreProofs`** (assumption `HistoryAssumption`: the table is no smaller
than a deletion).  `Types`, `TableStaysBounded`, `RecentRowsKept` and
`FirstStaysOldest`, from one invariant: the three properties and
`CountedClosely`, which bounds the drift of the count from above by the inserts
that failed.  `RecentKept` needs it: without it a deletion could be begun with
any number of rows.

**`UdpServerProofs`** (assumption `UdpAssumption`).  `Types` and
`HeartbeatInTime` (`BeatInTime`).  The wait is bounded because it is in the
reading of the clock or has been taken from it (`Reckoned`), and because once a
turn has found no heartbeat due the interval was not over when the wait of
`select` began (`NotOver`): the property lets that wait go by, after which the
next turn sends.

**`MetersProofs`**, of `WirelessMeters` (assumptions `MetersAssumption` and
`PunctualAssumption`).  `Types` and `SilentCleared` (`ClearedInTime`).  For each
meter `Timely` says what main has read (`Current`), what the sample time can be (`Sampled`: no later than the
stamp, unless main is about to clear the meter) and how old data can be at each
point of a pass (`Seen`).  `LiveDataKept` (`LiveKept`) is an action property, and
has an invariant of its own, `Lively`, of what the packets in a row have done:
after the first, silence and the rest of the sleep add up to the sleep (`InStep`),
and a pass under way has read clock and interval as they are, unless the packet
came within it (`Fresh`); after the second, the sample time is at most a second
behind (`Stamped`); and main finds the meter silent, if at all, before the second
packet, and is done with it before the third (`Spared`).  The argument is
`Limits`: ten intervals are longer than a sleep, the delay of a packet and a
second.

**`MetersProofs`**, of `Master485` (assumption `MasterAssumption`).
`MasterTypeCorrect`: the types, and that a thread in an exchange is within the
exchanges of its job and has a try left.  `SyncNotForgotten` (`SyncStands`) is
inductive together with the types because it says also that no job `"sync"` runs
while a SYNC is owed: the end of that job is what resets `master_485_ctrl`.
`JobsAdvance` is the action property `JobAdvances`: each step of the thread in a
job ends it, or takes it to a later exchange, another of its limited tries, or
nearer to the end of a try; serving a message sets none of this back, and the
other threads never touch it.

**`SerialServerProofs`** (assumptions `SerialAssumption` and `OwnAssumption`: a
request to the RTU is as long as its function and number of data say).  `Types`
has the bound that matters in C: `got` and `need` together never exceed the
buffer.  `EndsWithRequest` (`NoOverrun`) needs `Reckoned`: from what `need` was
reckoned at each step.

**Only model-checked**: the liveness properties, which are out of the prover's
reach (`EventuallyApplied`, `SyncServed`, `JobsEnd`, `RequestsServed`,
`DeadPeerDropped`, `BothTried`, `CoilsReleased`, `CallsEnd`, `TakenUp`,
`StoresGoOn`, `Answered`, `Served`).  Every safety invariant, every action
property without liveness and the refinement that the runs check are proved.
Of `JobsEnd` and `CallsEnd` the theorems `JobsAdvance` and `CallsAdvance` have
the safety half, that the thread's steps come nearer to the end and nothing
takes them back; that such a step is enabled and taken, and the descent along
them, are left to TLC.

## 6. What is not modelled

* `ConfigBroadcast`: what a thread does with what it has read.
* `RegisterMap`: the pulses of a relay (in `Relay`), a failing `msync` in `map_init`
  (the process exits), the broadcast sent by a write to `MAP_CONFIG1` and the
  `*v = 0` after it, the clock and history registers, internal writes of several
  registers at once, the record mark of a register.
* `Master485`: slave numbers, values and their conversion, the wall clock by
  which a job is due, the memory of a context freed inside a job (requests after
  it may succeed or fail).
* `TcpServer`: errors of `select`; how many answers fit before a `send` blocks
  (any number may); `FD_SET(-1)` after a failed listen, which
  writes outside the set; a receive is one step (its byte timeout is 0.5 s).  A
  listen may fail at any time: a port of 32768 or more is printed as a negative
  number (`%hd`, `tcp_server.c:96`), and nobody tries again until the next change
  (`tcp_server.c:151-155`).  A number the server closed and another thread
  reused may be closed a second time by a handler that still holds it; this is
  followed for the server's own numbers only.
* `TcpClient`: the blocking `send` of an answer, which is one step with its
  request (it is in `TcpServer` and `ConfigBroadcast`); `FD_SET(-1)` after a name that does not resolve, which writes
  outside the set; errors of `select`, which end the thread (a closed number
  in the set would be one, and `WatchesConnection` excludes it); failures of a
  reply; the registers of an address are read together.
* `Relay`: failing `ioctl`s and a device that does not open; the other outputs,
  which are set in one step; the LEDs, the interrupt thread and the count of the
  reset button; the rows of a change of well type other than the relay's (in
  `RegisterMap`).
* `ZigbeeConfig`: the contents of frames; a try in which no frame is made is one
  the radio does not hear; the packets of meters, which go to `WirelessMeters`.
* `HistoryStore`: compression (a row that does not unpack is in `AnswerFails`),
  the offset of a request and the wells (a request
  reads twelve registers into an array of six, `data.c:222`), a thread that
  finds no memory at its start.
* `SerialServer`: the memory of the freed context; broadcasts to slave 0; the reply,
  which is one step with its request.
* `UdpServer`: what a heartbeat and its answer contain; `FD_SET(-1)`; the
  addresses are looked up in one step; errors of `select`, which end the process.
* `WirelessMeters`: which meter may claim a well by its address, load diagrams
  (of which only the first 210 points are stored), meter parameters (those of
  the load meter are written from the address of a pointer,
  `load_meter_analysis.c:139`), the conversion of values.
* Start-up and watchdog: `thread.c:184-201` only logs.
* The log: a ring of lines that nothing reads back.
* LEDs, the battery voltage, the interrupt thread: outputs and inputs without a
  state of their own.
* Drivers of the kernel, the SQLite shell, cJSON, the library's unused functions, the
  web server (compiled out), scripts, tests.  They are most of the lines of the
  repository, and none of its control logic: the share of all lines the models
  stand for stays small for that reason.
