# SatPI in TLA+

SatPI is a SAT>IP server: clients ask it over RTSP or HTTP for a TV channel, it tunes a
DVB frontend (or reads a file, a child process or another stream instead), filters the
PIDs the client asked for, may have them decrypted by OSCam, and sends the packets by
RTP/UDP, RTP over TCP, or HTTP. This directory holds TLA+ models of that program, the TLC
configurations that check them, and proofs that TLAPS checks. All paths below are
relative to `src/src/` of the repository unless they say otherwise.

Contents

1. Inventory: the parts of the system, and what is hard about them
2. The plan
3. `StreamSession`: sessions and tuners
4. `StreamingThread`: the life of a streaming object
5. `PidFilters`: the PIDs of a frontend
6. `PacketRing`: the way of the packets
7. The other components
8. What the code does not do as its comments say
9. What is proved, and how
10. Assumptions, and what is not modelled

To check: `tlc -config <cfg> <module>` for the runs of `PROJECT.json`, and `tlapm
<module>` for the eight modules whose name ends in `Proofs`.

## 1. Inventory

### Threads

| thread | loop | works on |
|---|---|---|
| RTSP server | `RtspServer::threadExecuteFunction`: `TcpSocket::poll`, then `checkForSessionTimeout` | all Streams |
| HTTP server | `HttpServer::threadExecuteFunction`: `TcpSocket::poll` | all Streams, settings |
| streaming, one per active Stream | `StreamThreadBase::threadEntry`: read the device, write to the client | its device, its client slot, the DVBAPI client |
| device monitor, one per streaming object | `base::Thread`: `monitorSignal`, periodically | its device |
| RTCP sender, one per RTP stream | `base::Thread`: a report, periodically | its client slot |
| DVBAPI client | `decrypt::dvbapi::Client::threadEntry`: messages of OSCam | all frontends |
| SSDP server | `upnp::ssdp::Server::threadEntry`: announcements and searches | `SatPI.xml` |

A Stream has a lock, `Stream::_mutex`, that each of its public functions takes and gives
back. One request calls several of them. `_enabled`, the device and the client sockets
are also touched without it. The device data, the PID filters and the DVBAPI client have
locks of their own.

### Components

* **Streams and their sessions** (`Stream`, `StreamClient`). State: `_streamInUse`,
  `_streamActive`, `_enabled`, `_streamingType`, the streaming object, the client slots
  (session ID, watchdog, kind of timeout check, socket). Operations: `findClientIDFor`,
  `processStreamingRequest`, `update`, `teardown`, `checkForSessionTimeout`. Hard: two
  server threads between whose calls the stream changes; a failure half way; a claim
  that nobody takes back. Correct if a tuner serves one session at a time, is never
  leaked, and always ends up free.
* **Stream manager** (`StreamManager`). The vector of Streams; finds the stream and slot
  of a request by session ID or by claiming a free one. Correct if a session ID leads to
  one stream at most.
* **HTTP and RTSP servers** (`HttpcServer`, `HttpServer`, `RtspServer`). Dispatch a
  request to calls of its stream in a fixed order. Correct if every path undoes what it
  began.
* **TCP server sockets** (`TcpSocket`, `HttpcSocket`, `SocketClient`). An array of client
  sockets that is reused; `StreamClient` keeps pointers into it.
* **Threads** (`base::Thread`, `base::ThreadBase`). Start, pause, stop, cancel and join by
  storing states that the loop of the thread reads and overwrites. Hard: every
  interleaving of those loads and stores, and waits that give up. Correct if nothing a
  thread uses goes before the thread, and no request is lost.
* **Streaming threads** (`output::StreamThread*`). The streaming object and its helpers;
  the ring of packet buffers. Correct if the device is not read while it is set up anew,
  and packets are sent once and in order.
* **PID table and filters** (`mpegts::PidTable`, `mpegts::Filter`). The state of each PID
  between what was asked for and what is open. Hard: two threads, and a changed flag
  that is set and reset apart from the table. Correct if what was asked for is opened and
  nothing stays open that nobody knows of.
* **DVB frontend** (`input::dvb::Frontend`, `FrontendData`, `DeviceData`). Opens, tunes
  and closes the devices. Correct if the demux device follows the table and is released.
* **DVBAPI client** (`decrypt::dvbapi`). The connection to OSCam, the CAPMT list, filters,
  keys and the batch of packets to decrypt. Hard: it is shared by its own thread and all
  streaming threads, and a batch holds pointers into packets and keys.
* **PSI tables** (`mpegts::TableData`, `PAT`, `PMT`, `SDT`, `NIT`, `PCR`). Sections of a
  table in any order, with gaps, of changing versions; the tables of the present tune.
  Correct if a collected table is complete and of the stream that is tuned, and the PCR
  paces a reader.
* **Packet buffer** (`mpegts::PacketBuffer`). Synchronisation, purging, decrypt pending.
  Correct if the filters see each packet and cut streams are in step again.
* **DVB delivery systems** (`input/dvb/delivery`). DiSEqC sequences, LNB arithmetic and the
  properties of a channel. Correct if a dish ends as asked, though any ioctl may fail.
* **File, child process and stream inputs** (`input/file`, `childpipe`, `stream`) and
  **Transformation**. What a request names or maps to, and what is described. Hard: the
  page changes the map between request and description.
* **SSDP server** (`upnp/ssdp`). Announcements, boot ID, defence of the device ID. Hard:
  lost and crossing messages, restarts, and a second writer of `SatPI.xml`.
* **Configuration and XML** (`base/XMLSupport`, `base/M3UParser`, all `doAddToXML` and
  `doFromXML`). Locks taken in two orders; text that goes to a file and back.
* **Daemon** (`main.cpp`, `Satpi`, `Properties`). Options, the fork and its confirmation, the
  signals, construction and destruction of the servers. Hard: a signal at any time, and
  threads that outlive what they use. Correct if nothing used is gone and the program ends
  when asked.

`PROJECT.json` lists every hazard of the code with its line, and which property is about
it.

### Who calls whom

    client --> TcpSocket::poll --> HttpcServer::processStreamingRequest
                                      | find, process, update, teardown
                                      v
    checkForSessionTimeout -----> Stream --> streaming object --> streaming thread
                                      |             (start, pause, restart, destroy)
                                      v
                  parse, update, teardown of the device --> PidTable / demux device
                                                                 ^
                       OSCam --> DVBAPI client thread -----------+

`StreamSession` is the upper part, with the streaming object and the device in a few
states each; `StreamingThread` opens up the streaming object; `PidFilters` opens up the
device. `PacketRing` is what the streaming thread does while it runs. The components of
section 7 hang on their edges: `RtspConnection` and `Replies` above the requests, `RtpReports`
below the ring, `DvbTuner`, `InputSource` and `TsInput` below the device, `DvbApiClient` and
`OSCamFilters` at its side.

## 2. The plan

In order of what matters most to the system:

1. `StreamSession`, implementing the abstract `TunerPool`: **done**.
2. `StreamingThread`: **done**.
3. `PidFilters`: **done**.
4. `PacketRing`, implementing the abstract `PacketQueue`: **done**.
5. `SectionCollector`, `DvbApiClient`, `SsdpServer` with `DeviceIds`, `RtspConnection`: **done**.
6. The inputs `TsInput` and `InputSource`, the tuner `DvbTuner`, the settings' locks
   `ConfigStore`: **done**.
7. The tables `PsiTables`, the filters `OSCamFilters`, `DvbCa`, the text of a channel
   `ChannelText`, `Frontends`, `SignalMonitor`, `Replies`, `RtpReports`: **done**.
8. `SettingsXml` and `Daemon`: **done**.

9. Theorems: the refinements `TunerPool` and `PacketQueue`, and the safety properties of
   every module (section 9 says what is not): **done**.

Still worth doing: several frontends that share an FBC demodulator.

No module that proofs are about has a RECURSIVE operator; what recursion there is (the loop
of `purge()`) is a recursive function. The parameters are CONSTANTS with named assumptions.
Each component of the core has one module, a `Proofs` module for its theorems, and an `MC`
module for its instances. The components of section 7 share `MCComponents`, but for the two
that need large instances: `SignalMonitor` is in `MCFrontend` with `PidFilters`, `TsInput` in
`MCPackets` with `PacketRing`. Their proofs are in four modules:

| module | about |
|---|---|
| `ServerProofs` | `RtspConnection`, `Replies`, `RtpReports`, `Frontends`, `ChannelText` |
| `InputProofs` | `SectionCollector`, `PsiTables`, `InputSource`, `DvbTuner`, `SignalMonitor`, `TsInput` |
| `DecryptProofs` | `DvbApiClient`, `OSCamFilters`, `DvbCa` |
| `ServiceProofs` | `SsdpServer`, `ConfigStore`, `Daemon`, `SettingsXml` |

## 3. StreamSession

*Modules* `StreamSession`, `TunerPool`, `StreamSessionInv`, `StreamSessionProofs`,
`MCStreamSession`.

### State and actions

One Stream per tuner, each with its flags, streaming object and slots, named as in the
code; the client sockets `fd` of both servers; and for each server thread where it is
(`pc`), its loop indexes and the request it handles. One action is one call of a function
that takes the lock of a Stream, so that the other thread may come between any two. The
timeout check alone takes a step for each slot (`slot`): it reads `_enabled` for each of
them, which the page writes without the lock. The lock is held meanwhile, so all else that
needs it waits (`InCheck`).

| action | code |
|---|---|
| `Accept`, `CloseConnection`, `OpenRequest`, `SessionRequest`, `PollQuiet`, `PollReturns` | `TcpSocket::poll` and the reception of a request |
| `FindClientID`, `TryNextStream`, `ReplyNoFrontend`, `SetSessionID` | `StreamManager::findStreamAndClientIDFor`, `Stream::findClientIDFor` |
| `ProcessRequest` | `Stream::processStreamingRequest`, with the pause for a channel change |
| `UpdateSucceeds`, `UpdateFails` | `Stream::update`, with the device and the choice of start or restart |
| `AnswerOnly`, `TeardownRequest` | the other methods; `TEARDOWN`, and the end of a request that failed |
| `CheckSlot`, `SkipStream`, `CheckDone` | `checkForSessionTimeout` of the manager and of a Stream, slot by slot |
| `PostEnable`, `GetStatus` | the "enable" checkbox, and the page on which a client can read session IDs |
| `WatchdogExpires`, `StreamWriteFails` | time, and `selfDestruct()` by the streaming thread |

`TunerPool` says what clients rely on: a tuner has one holder, a session holds one tuner
at most, gets it only while it is free, and never comes back once it ended. The refinement
mapping names as holder the session ID in slot 0, or the request that is about to store
one.

### Runs

| run | instance | shows |
|---|---|---|
| `session_streams` | 2 tuners, one of which some requests cannot use; 2 slots; RTSP unicast, HTTP and HTTP multicast; 1 socket per server; 2 sessions | `NoOrphan`; `TunerPool` is implemented, so a session leads to one tuner and only the owner's slot is used |
| `session_one_stream` | 1 tuner of 2 slots, every transport, requests nobody can serve, enable switch, 2 sessions; fair server threads | `FreeStreamIsIdle`, `NoStuckPause`, `TornDownWhole`; `DisabledIsFreed`, `SilentSessionEnds` |
| `session_selfdestruct`, `session_http_reuse`, `session_half_torn` | see section 8 | three violations |

`TornDownWhole` is an action property: a stream loses its streaming object only in a step
that ends its session, but for a stream that is disabled after slot 0 was checked and before
another slot is. Then `teardown()` of that slot destroys the object and closes the device,
while the session stays: `session_half_torn` shows what comes of it.

The properties that are only proved (`OwnerSlotOnly`, `SessionUnique`, `StartedIsActive`,
`ReadsOpenDevice`, `NoNullSocket`, and the type and inductive invariants) were checked with
TLC before they were proved; the proofs made the runs of them redundant.

*Bounds.* Two streams are needed for anything about a session in two places, and for the
search that goes on to the next stream; the streams of the code are searched in a fixed
order and touch nothing of one another, so a third adds no new kind of step. Of the slots
(`MAX_CLIENTS` is 8 in the code) only the first is ever taken; a second is what the check
goes on to, and more are like it. One socket
per server makes the reuse of a socket the common case. Two sessions and two
connections allow one to end and its stream, slot and socket to be taken by the next.
The proofs need none of these bounds.

*Fairness.* Weak fairness of each server thread: `poll()` returns after 500 ms at the
latest, accepted sockets have a send timeout, and no wait under the lock of a Stream is
unbounded. Clients, time and write errors are not fair.

## 4. StreamingThread

*Modules* `StreamingThread`, `StreamingThreadProofs`, `MCStreamingThread`.

A Stream calls its streaming object: constructs, starts, pauses, restarts, destroys it
(`ctl`, and the helpers `todo` of that call). Against it run the streaming thread
(`ThreadBase`: `_run`, `_exit`; and `StreamThreadBase::_state`) and the helpers
(`Thread::_state` and, since `startThread` may create a second thread for the same object,
a sequence of loops). The atomics of the code are read in one step and written in another.
A wait ends when its condition holds or gives up at any time (`PauseGivesUp`,
`StopGivesUp`, `HelperGivesUp`), after which the code cancels; `pthread_create` may fail.
`flaws` remembers whether a pause gave up or a creation failed, for the properties that
are promised only without.

`thread_calls` checks one object after the other with monitor and RTCP sender:

* `UpdateIsQuiet`: after a pause that succeeded the streaming thread does not read the
  device until the restart is complete, whatever it was about to store.
* `ReadsAgain`: after a start or restart the thread reads.
* `DestroyEnds`: the destructor comes to an end even if a thread is blocked for ever.

Proved, and not in the run: `RunningNotLost`, the `Running` of a start or restart is not
overwritten by the `Paused` of the thread; `MainJoined`, nothing is destroyed under a
streaming thread that uses it.

*Bound.* `MaxStarts = 1` thread per helper and object: a second one is created only after
a start that failed half way, a hazard listed in `PROJECT.json`.

*Fairness.* The caller goes on, since its waits give up, and a thread that can run is
run, including the one that is cancelled. A read or write of the streaming thread
(`MainWorked`) is *not* fair: it may block for ever.

## 5. PidFilters

*Modules* `PidFilters`, `PidFiltersProofs`, `MCPidFilters`, `MCFrontend` (the run `frontend`,
with the signal of section 7.5 in other behaviours).

The PID table (`table`, `changed`), the frontend data (`hasFreq`, `dataChanged`), the
frontend (`tuned`, `dmx`) and what the demux device delivers (`filtered`). Two threads:

* the **request**, alone under the lock of its Stream: `Parse`, one `Edit` for each of
  `pids`, `addpids` and `delpids`; `BeginUpdate`, `CloseFilters`, `CloseDmx`, `Tune`,
  `BeginRequestFilters`; `BeginTeardown`, `CloseFilters`, `Untune`, `CloseDmx`,
  `Initialize`;
* the **DVBAPI client**: `OscamSetPid`, `OscamCheck`, `BeginOscamFilters`.

Either runs the loop of `updatePIDFilters` under the lock of the filter, one PID per step
(`FilterPid`, `EndFilters`). `closeDMX`, `_tuned` and the check of `_tuned` are outside
that lock, so they interleave with the loop. The device may refuse any call.

What may go wrong is recorded in `flaws`: `device` (a call of the device failed), `early`
(OSCam updated the filters while a channel change was pending), `late` (it did so on a
frontend that was no longer tuned or was being torn down) and `retune` (a physical layer
parameter without a frequency made the frontend tune anew). A property names the flaws it
does not stand; that is what the code offers.

* `NoStrayFilter`: whatever fails, the device delivers no PID that the table has as closed.
* `WantedIsFiltered`: if nothing went wrong, everything asked for is delivered once both
  threads are done. It holds although the changed flag is reset before the loop and set
  within it, and although OSCam may consume the flag of a request.

Proved, and not in the run: `OpenedIsFiltered` and `DemuxReleased`, that whatever fails but
`late` an opened PID is delivered, and an idle frontend that is not tuned has closed its
demux device.

*Bounds.* Three PIDs: one that is low (`delpids` leaves it alone) and always added, one
that clients and OSCam ask for, and the one that stands for all. PIDs are independent
but for the changed flag and the order of the loop, for which before, at and after the
cursor are the three cases. One frontend, as they share nothing. Requests cover a channel
change, the same channel again, and PIDs without a channel.

## 6. PacketRing

*Modules* `PacketRing`, `PacketQueue`, `PacketRingProofs`, `MCPackets`.

### State and actions

The ring `_tsBuffer` with its indexes (`ring`, `w`, `r`); the batch of packets to decrypt
with its parity; the keys; whether OSCam is connected. An entry of the batch is a pointer
into the ring; the model adds the number that its buffer had when it was made, to tell
later whether the buffer is still that one. Of a packet only its scramble flag is kept,
and why it has none.

| action | code |
|---|---|
| `Read`, `NoData`, `Advance`, `Send` | `StreamThreadBase::readDataFromInputDevice`, part by part |
| `Pass`, `Take`, `DecryptBatch`, `Add` | `Client::decrypt`, packet by packet, and `ClientProperties::decryptBatch` |
| `Pause`, `StopDecrypt`, `Restart` | `pauseStreaming`, `Client::stopDecrypt`, `restartStreaming`, by a server thread |
| `Connect`, `Disconnect`, `SetKey` | `Client::threadEntry` and `Keys::set`, by the client thread, at any time |

`DecryptBatch` does what the code does with a pointer that went astray: it decrypts
whatever lies there, and clears its flag (`"damaged"`). A key that is freed while it is
used gives any result (`"garbled"`). `stopDecrypt` may fail to reach OSCam, and then
forgets nothing.

`PacketQueue` is what the ring promises: a queue that keeps the order, gives each buffer
away once, and loses all it has if one too many arrives. That last part is what the code
makes of a full ring: `availableSize` is never 0, so the writer reaches the reader, and
equal indexes mean an empty ring.

### The run `packets`

The same run has `TsInput` (section 7.6) in other behaviours. Of the ring:

* `SentDecrypted`: what is sent is the next buffer in order, and each of its packets that
  was put in a batch was decrypted, once. The packets of one buffer may be in two batches,
  and one batch may span several buffers.
* `NoOrphan`: a packet that waits to be decrypted is in the batch, whatever happened. If it
  were not, the stream would stop at its buffer for good.
* `QueueSpec`: the refinement.

Proved, and not in the run:

* `BatchHasKey`: the batch never outgrows its array, and has a key. The branch of
  `decryptBatch` without key looks for a terminator that nobody wrote; it is dead code
  because of this.
* `BatchCurrent`: the pointers of the batch are still right. This and the last part of
  `SentDecrypted` hold while no buffer was overwritten unsent and every pause could stop
  the decryption (`Undisturbed`); after that they are false in the code.
* `FullMeansStuck`: the ring is only full behind a packet that waits to be decrypted.

*Bounds.* Three buffers of two packets and a batch of two: a batch may lie in one buffer
or in two, its array is full in the middle of a buffer, and the ring has a buffer that
is read, one that waits and one behind it. Four buffers read are one lap and one more,
so a buffer that is in the batch is overwritten; one restart lets a batch that was not
forgotten meet a ring that was reset. `MCContents` are the buffers with each mixture of
clear, even and odd packets up to the names of the parities. As reads are bounded the
run ends, hence `CHECK_DEADLOCK FALSE`. The proofs need none of these bounds.

## 7. The other components

Each component beside the core has a module of its own. One run, `components`, checks
most of them: `MCComponents` puts them together with a variable `part` that says which
component a behaviour is about (`Part(p, A)`: a step of that component, all else
unchanged), as they share no state. What they have to do with one another is in the
modules of sections 3 to 6 or is an input here. Each
component is an instance of its own size; a liveness property is stated for its part
(`[]<>(part = "config" => ...)`). Two need larger instances, and are parts of the runs
`frontend` (`SignalMonitor`) and `packets` (`TsInput`), in which nothing is temporal but
action properties. The type invariants and the inductive invariants are in the modules; TLC
agreed with them before they were proved.

*Fairness* (`MCSpec`) is that of the component's specification, united over the parts:
weak for a loop that runs on by itself (the broadcaster's carousel, the DVBAPI client's
`poll()`, the two threads that store settings, the streaming thread's write, the reader
of an input), strong for what happens again and again but may be missed each time (a
server info of OSCam, a lock that several threads want, and the server thread's turn on a
connection). Faults, requests and time
are never fair. `SettingsXml`, `Daemon` and the rest are checked for safety only.

*What the code does* below are behaviours the models show. They are neither comments nor
tests of the repository that the code contradicts (section 8 has those), so the
properties name them as exceptions: a reader sees exactly what holds.

### 7.1 SectionCollector: `mpegts/TableData`

Sections of a PSI table arrive packet by packet from a carousel (`Deliver`) that loses,
damages or repeats packets (`Lose`, `Damage`, `Repeat`), may change its version
(`NewVersion`) and is tuned anew (`Clear`). `FinishedIsWhole`: what is said to be
collected has every section it announced, each with a right CRC. `TableCollected`: it
gets there, again and again. Both are for any layout of sections; the first is proved.
*What the code does:* `_numberOfSections` is taken before the CRC is checked, so a damaged
packet may end the collection early (`misread`); sections of two versions may be mixed;
when the new version has fewer sections, the collector waits for one that never comes
(`Outrun`); a section that begins in a packet which ends another is never collected
(`Packed`), and one that fills its packet exactly needs one packet more.

### 7.2 DvbApiClient, OSCamFilters: `decrypt/dvbapi`

`DvbApiClient` has the client thread (`Connect`, `Answer`, `RetryTime`, `ClientStep`), the
page that switches it on and off (`Enable`, `Disable`), OSCam, which may close, be gone and
come back, and for each channel the streaming thread that sends the CAPMT list entry by
entry (`SendPMT`, `SendEntry`, `SendDone`, `StopDecrypt`). `OSCamHasTheList`: after a list
that was sent without trouble OSCam works with exactly the channels of `_capmtMap`; it
rests on the list management of each entry, and is proved. `Reconnects`: an enabled client
is again and again connected.
*What the code does:* a second `connect()` on an open descriptor fails, closes it and waits
5 s more; after a reconnect the CAPMTs are not sent until a channel starts or stops;
a `Disable` between the test of `_enabled` and `connect()` leaves it connected.

`OSCamFilters` has the section filters OSCam sets on a PID against the packets of that PID:
`FilterDataMatches`, that OSCam is sent only what a filter asked for. *What the code
does:* a section that breaks off leaves `_collecting` set, so that the next one passes
unmatched (`broken`); a raw section of several packets without CRC is never sent; the
search ends at the first filter that completes, and the others miss the packet.

### 7.3 SsdpServer, DeviceIds, ConfigStore, SettingsXml: announcements and settings

`SsdpServer` has several servers on a network that loses and reorders, their `SatPI.xml`,
crashes and restarts, and the browser page that posts the file it loaded earlier.
`BootIdIsFresh` (proved): after a restart or a change a server uses a boot ID it never
used before. *What the code does:* a posted page sets boot and device ID back (`reverted`),
and so may a file that was truncated; the byebye carries the device ID as boot ID; the
DEVICEID of a search is not compared with one's own; who gives his ID up is silent until the
timer.

`DeviceIds` has the device IDs alone, of servers that announce themselves for ever
(`AnnounceID`), hear of their own ID (`HearID`) and give it up (`HearDefence`).
`DevicesDiffer`: whatever three servers begin with, they come to differ for good, if there
comes a time from which no message is lost and no announcement crosses another message. *What
the code does:* it does not ensure the hypothesis. All servers announce with one period of
whole seconds (`Server.cpp:152`), so two that run in step cross every time; each then contacts
the other, each gives up the ID that it defends (`Server.cpp:215` says "we should defend it"),
and they move from ID to ID together. How often they cross is not bounded, only how many
messages are under way at once (`MaxInFlight = 3`: an announcement to two others, and one that
crosses it). IDs are those of a machine number, 3 here: three servers run through all of
them. *Fairness:* each server hears what comes and announces itself again and again.

`ConfigStore` has the locks with which the web server and the SSDP thread load, post and
save settings. They take the two locks in opposite orders; only the 15 s after which a
`MutexLock` gives up ends that. `CallsEnd`: every call ends; `SettingsOnDisk`: with nothing
under way, the file has what is in memory. *What the code does:* after a give-up
(`timedOut`), and in the first save of the SSDP thread, which has no lock (`unguarded`),
the file may be an older one; `saveXML` returns false always.

`SettingsXml` has the content, for any streams: each setting's way to its element (`ToXML`),
the search for it in a file (`Lookup`, by tag within the tags around it), posts, restarts, and
a crash in the save, which empties the file first. Of a character the model keeps how often it
was escaped. `SettingsKept`: each setting that is promised anything is what was last said for
it. *What the code does:* the LNBs of a DiSEqC switch are searched for under another
name than they are stored and fall back at each post, so they are promised nothing; texts are
escaped again at every save and not unescaped; a list of PIDs with several commas at an end
loses one of them per save; an empty number in a post is an uncaught `std::stoi` that ends the
program; the page offers values that the range of the code refuses; the port of the
command line is stored in the file.

### 7.4 Daemon: `main.cpp`, `Properties`

Options, `daemonize()` with the parent that waits for `SIGUSR1` or its alarm, the handler,
construction of the three server threads, the loop and the destruction in reverse order of
declaration. `UsedIsThere` (proved, and not in the run): a request uses no member that is gone,
except the SSDP server, which is declared last, goes first, and is still read by the settings
page. `NobodyStuck`:
once asked to stop, or while the parent waits, somebody can go on (as steps and requests
are bounded and never go back, the end is then reached). It is stated by the guards of those
steps (`SomebodyGoesOn`), which are operators that the actions themselves begin with
(`MayConstruct`, `MayStartServer`, ..., `MayReturn`, `MayStep`).
*What the code does:* the parent exits with `EXIT_FAILURE` always; a confirmation before
`pause()` is lost and `alarm(2)` rescues it; without daemon mode, or when init started it, no
handler is installed and a signal ends the process without destructors; a port that cannot be
bound is only logged; `restartApp` is never set.

### 7.5 DvbTuner, ChannelText, SignalMonitor, Frontends: `input/dvb`

`DvbTuner` is `Frontend::update()` of a satellite frontend, ioctl by ioctl, with an LNB,
three kinds of switch or two Unicable buses; each ioctl may fail. `TunedAsAsked`: a tuned
frontend whose tuning saw no failure has the dish and the frequency of the request;
`BusIsShared`: the bus of a Unicable dish is left to the other receivers at 13 V, and its
converter was asked for the transponder of the request. *What the code does:* a request for the
same frequency with another polarisation, source or system does not tune; a frequency that a
float does not hold counts as new each time; a switch goes on after a failed command; a
failing tone command leaves a Unicable bus at 18 V.

`ChannelText` is the table of conversions between the text of a request, the DVB properties
and the description (`FrontendData`, `StringConverter`, `DVBS/T/C::setProperties`).
`DescriptionTunes`: what DESCRIBE says of a channel tunes the same channel, but for what
is not told: the inversion of DVB-T, the FEC of DVB-C, input stream and scrambling, and a
modulation without a name, which is guessed.

`SignalMonitor` has two measuring threads, the request thread and the description, which
share `_oldApiCallStats` and the data. Each ioctl is a step, and the signal may be another in
each. `SignalIsMeasured`: a description is of what was stored at once (or, transformed, of what
was stored in order), and no stored sample mixes the two interfaces of the driver, although one
thread may switch to the old calls while the other measures. *What the code does:* the flag
for the old interface is set for good by one failure; the two old calls may see different
signals, or different channels; the data read by a failed `FE_GET_PROPERTY` are
uninitialised; an old measurement may be stored after a retune.

`Frontends` has the enumeration of adapters, the counts per delivery system that the page
changes, and the sessions that ask for one. `AdvertisedIsServed`: who asks for a system of
which more are advertised than he uses gets one. *What the code does:* a frontend for both
terrestrial generations counts twice in DESCRIBE; a mapped one counts although its M3U
could not be parsed; `dvbc2` is never counted.

### 7.6 TsInput, InputSource: inputs that are no frontends

`TsInput` is `mpegts::PacketBuffer` between reads of any size, cuts in the input and the
streaming thread. `FilterReaches`: `filterData()` has looked at each packet of a full
buffer. `Resyncs`: after a cut, at most one full buffer is out of step. *What the code
does:* packets moved by a resync, and those that come to the place of purged ones, are
never filtered (`excused`). The search for a sync byte looks behind the write index, where an
earlier use may have left some, and then takes more from the write index than there is: it
wraps, the next reads go in front of the packets, and the index comes back when enough was
read. The model follows the indexes through that (`Word`, `Added`, `Taken`, `Wrapped`) and
keeps what lies in the buffer; what is destroyed in front of it is not modelled.

`InputSource` has `Transformation`, its M3U map and the devices: which source is read and how
it is described (`AsAsked`), with a page that changes the map at any time. *What the code
does:* once a request was mapped, a later one that names its source is described by the old
frequency; a frequency that is not mapped leaves the old source open; a file is opened only
when it changes, so a failed open is not tried again; a child that cannot be run counts as
open; the names of files and streams are taken with their %-escapes.

### 7.7 RtspConnection, Replies, RtpReports: what a client sees

`RtspConnection` is one TCP connection: a request in pieces or together with the next, and
replies, RTP and RTCP frames written on it. `NothingMixed` joins `FramesNeverMix` and
`WholeRequests` (proved); `RequestsAnswered`: every request is answered or the connection closed.
*What the code does:* replies take no client lock, so a reply that begins while the stream
plays may be inside a frame (`overlapped`); a short write counts as a success and breaks
the framing (`cut`); a second request that was read together with the first is lost; the
size of a header not yet complete wraps (`wrapped`).

`Replies` is the method table of both servers: which stream, what `update()` says, which
reply with which number, session and length. `RepliesRight`: a reply fits its request, and
no stream is kept by a session nobody was told of. *What the code does:* SETUP without a
known transport answers 408 (461 over HTTP); a method the servers do not know claims a
stream when it has parameters; a TEARDOWN of an unknown session answers 503.

`RtpReports` has the counters the streaming thread changes and the RTCP thread reads, one
atomic after the other. `ReportFits`: a report has at least the octets of all its packets but
one, nothing that was not counted, a time of one of its packets, and length words that add
up. *What the code does:* counters go on from session to session while the sequence number
begins anew; packets count whether or not they were written.

### 7.8 PsiTables, DvbCa

`PsiTables` has what `mpegts::Filter` makes of collected tables, when requests throw them
away, and the PCR that paces file readers. `TablesAndPace` joins `TablesOfThisStream` (no
table is of an earlier tune, but the NIT after a retune by `isi` or `plp`) and `PacedByPCR`
(a reader waits at least as long as what it read lasts). *What the code does:* two PMTs with
one PCR PID, or two PCRs in a buffer, are not paced (`pcrExcused`); tables are not collected
again when their version changes; the generated PAT outgrows its packet above 41 programs.

`DvbCa` has the CI module's sessions and the APDUs on them. `ApdusFitSessions`: what is sent
on a session is for the resource it was opened for. *What the code does:* `clearSessionFor`
takes a number from 1 as an index from 0, so closing a session forgets another (`closes`);
a failed read ends the program; a CA_PMT without a session goes to session 0.

### 7.9 Bounds of `components`

| part | instance |
|---|---|
| `section` | tables of one and two sections in two or three packets, three versions, 2 faults, 1 clear |
| `dvbapi` | 2 channels, 1 trouble: a failed send, a connection that OSCam closes, or a switch-off |
| `ssdp` | 2 servers, 2 description files, 1 event: a crash, a lost message, a crossing announcement or a page |
| `ids` | 3 servers, 3 IDs, 3 messages under way, any of them lost, any number of crossings |
| `config` | both threads, 2 changes of the settings |
| `tuner` | the 6 kinds of dish, a frequency of each band, 1 ioctl that fails |
| `rtsp` | requests of 5 bytes header with a body of 1, 2 pieces a frame, 2 pieces of send buffer |
| `source` | 2 names, 3 map files (proper, doubled, incomplete), 2 edits |
| `oscam` | 2 slots, 2 tables, sections of one and two packets, 1 packet lost |
| `channel` | a value of each kind for all 18 parameters, both API versions, one parameter beside the system at a time |
| `dvbca` | 4 resources, 2 sessions, 1 message under way each way, 1 lost |
| `psi` | 2 streams, with several sections and shared PCR PIDs |
| `reports` | RTP, RTP with RTCP, HTTP and TSWriter, 2 packets, counters that wrap at 3 |
| `replies` | 2 streams, every method, the transports by TCP, unicast, multicast and none, 2 session IDs |
| `frontends` | 2 trees of adapters with 4 streams each, 4 page settings, requests for DVB-C, which a frontend has or is mapped to |
| `settings` | a satellite and a childpipe input, 2 posts, 1 start, the port on the command line |
| `daemon` | 8 command lines, 1 signal, 2 requests |

Each is the smallest in which its mutant is found and each action happens, and the run
fires all of them. The two in the other runs are larger, as their cases need it: `TsInput` has
the code's 7 packets, of 2 bytes, since with 4 the write index never wraps, a `Word` that is no
multiple of a packet, as 2^64 is none, and 2 cuts; `SignalMonitor` has 2 signals that differ in
all values, a driver with decibels and one without statistics, and 2 stored measurements.
Bounds on faults, edits and events cut long runs of trouble: what is promised is promised from
the last one on, which is what the `[]<>` and `<>[]` state. The
proofs do not depend on them.

## 8. What the code does not do as its comments say

Each is a run that TLC must find violated; `PROJECT.json` quotes the line.

| run | property | what happens |
|---|---|---|
| `session_selfdestruct` | `SelfDestructStops` | `selfDestruct()` only sets the watchdog, which multicast and HTTP sessions do not look at: they go on after a write error while their connection is open. |
| `session_http_reuse` | `HttpDataToRequester` | The socket slot of a closed HTTP connection is taken over by a new one, in this call of `poll()` or the next, before the RTSP thread looks at the descriptor: the stream goes to the new connection. |
| `session_half_torn` | `UpdateStreams` | A stream is disabled after the timeout check looked at slot 0, so a later slot is torn down, and with it the streaming object; `_streamActive` and the session stay. The next SETUP or PLAY, before the check ends the session or after the stream is enabled again, makes an object that is never started: 200 OK, and nothing is streamed. |
| `thread_join` | `JoinWaits` | A helper's loop stores `Started` or `Paused` over the `Stopping` of `stopThread()`; it is then cancelled, and `joinThread()` returns at once. |
| `pid_request_opens` | `RequestOpens` | OSCam opens the PIDs of the new channel on the old one; the channel change closes them and they are not asked for again. |
| `pid_clear_closes` | `ClearCloses` | A second `clear()` before the update leaves PIDs to be closed with the changed flag reset, and the device goes on delivering them. |

## 9. What is proved, and how

All theorems are for any value of the constants that meets the named assumptions. Each
module has an invariant (`IInv`, or named after the component) that TLC agreed with first
and that is then proved inductive:
one lemma per action or group of actions, `NextInv`, and the theorems by temporal steps.

**StreamSession** (`InvariantHolds`, `TypeCorrect`, and one theorem per safety property of
its passing runs; `OnlyOwnersSlot` is `OwnerSlotOnly` with `TornDownWhole`). The properties are
not inductive alone. That a tuner is never leaked
rests on what a server thread knows while it works: `HandledOK` says that its stream is in
use by its own session, or by none while the ID is about to be stored. That this survives
the other thread rests on `SessionInv` (an ID that is about to be stored is nowhere else),
and on the fact that a stream which the HTTP thread sets up has nothing that the timeout
check ends: an unexpired watchdog and a connection that is open because the HTTP thread
itself would have to close it. `StreamingOK` relates the device to the streaming object,
with the update that is under way as the only exception. `CheckIs` says what one slot's
check does: nothing, the end of the session, or, for a later slot of a stream that is disabled by
then, the loss of the object and the device alone; that last state satisfies the invariant too
(`StartedIsActive` is all that is left of `_streamActive`), and the check goes on as in any
other. The refinement is
`ImplementsPool`: the holder of a tuner is read off slot 0 and the requests under way, so
the proof names what of these each action changes, and each action is then a `Grant`, a
`Release` or a stutter of the pool.

**StreamingThread** (`ThreadInvariant`, `UpdatesAreQuiet`, `RunningIsNotLost`,
`MainIsJoined`). The argument is about who may store what: only the streaming thread
stores `Paused`, so a caller that sees it knows that the thread is not at work; and the
thread is about to store it only if it read `Pause`, which cannot be overwritten by
`Running` before, since the caller waits for `Paused`. That breaks once a wait gave up,
hence the hypotheses.

**PidFilters** (`FilterInvariant`, `NoStrayFilters`, `OpenedAreFiltered`, `DemuxIsReleased`,
`WantedAreFiltered`). `LockInv` ties lock and `_tuned` to the steps of the request.
`DeviceInv` is what table and device know of each other. `WantedInv` is the hand-over: a
PID to be opened is announced by the changed flag or lies ahead of the cursor of a loop;
and if the frontend is tuned, some thread has yet to look. The lemmas `UsedFacts`,
`ClearedFacts` and `SetFacts` say what `setPID` and `clear` may do to one PID; `TableInv` is
the argument that `Edit` and `OscamSetPid` share.

**PacketRing** (`Invariance` and one theorem per property of its run; the refinement is
`ImplementsQueue`). `RingInOrder` numbers the buffers that wait from `r` on: order follows
from it alone. `BatchFits` is the argument for `BatchHasKey`: keys only come while the
thread runs, and room is made before a packet is added. `BatchKnown` says that a packet
that waits marks its buffer as pending and has its entry; it survives whatever happens to
the ring, since a buffer that is reset no longer counts. `BatchExact` is the converse, and
needs `Undisturbed`: entries are those of different packets, all before the one that the
thread is at. The refinement maps the ring to the sequence of the numbers of the buffers
that wait; `NextQueue` shows that `Advance` is `Put`, `Send` is `Get`, `Restart` is
`Clear`, and all else stutters.

**SectionCollector** (`SectionInvariant`, `CollectedTableIsWhole`). `SectionInv` says what is
collected of the present section, that all sections before it are whole and those behind it
not begun (`CurrentInv`), and that their number is that of the header of the section that
is being collected; `misread` is the one way in which it can be wrong.

**DvbApiClient** (`DvbApiInvariant`, `CapmtMapIsRight`, `OSCamWorksWithTheList`).
`MapIsRight` relates the map to the PMTs that were sent or not stopped; `SendingInv` has
`Progress`, the cursor of the one sender against the part of the list that OSCam has
received. That the list is replaced as a whole needs that nobody came in between
(`trust`), which any other step that sends or changes the map takes away.

**SsdpServer** (`SsdpInvariant`, `BootIdsAreFresh`). `BootInv`: while a server runs, memory and
file have the same boot ID, and all that it has said has that one or a smaller one; what
it said with the present one is what it has now (`SaysNow`), and a page that shows the
present one shows the present device ID (`PageIsOld`). It holds because the code saves a
new boot ID before it announces with it.

**RtspConnection** (`ConnectionInvariant`, `ConnectionStaysWhole`). `WritingInv` says who may
write: a streamer that is in the middle of a frame has the mutex, and nobody has it while
the stream does not play; so a reply begun then is alone, and stays alone, since only the
server thread, which writes it, can make the stream play. `ReadingInv` is about the size
that the server waits for: once the end of the header was seen it is that of the first
request, or that request is there already (`DoneIsWhole`). Before, it is computed from
`npos`, the exception.

**Replies** (`RepliesAlwaysRight`). `RepliesInv` adds that a free stream has no transport,
so that what a stream without session is described by is not of an earlier one. `Takes` is
what `FindStream` may give a request, `RightOutcome` what is then right; the method lemmas
go through them one by one, and `DispatchRight` joins them.

**RtpReports** (`ReportsAlwaysFit`). `Counts` ties each counter, modulo its width, to the
sequence of the packets that were counted, at each of the steps between which the RTCP
thread may read; `Reads` says of what it read so far which packets it is of. The lemmas
`WrapsOn` and `PadsToWords` are the arithmetic.

**PsiTables** (`TablesAlwaysOfThisStream`). A collected table is there only while its PID is
open or to be closed (`OfOpenPids`), and all PIDs are closed when the stream changes. `PcrFollows`
has the previous PCR against the base of the stream, and `DeltaIs` is the arithmetic: the
difference is the time that passed, also where a base of 33 bits wraps.

**InputSource** (`SourceAlwaysAsAsked`). `SourceAsked` is the device's part: it reads what the
last accepted request named or was mapped to; `AskedInv` has the transformation's.

**DvbTuner** (`AlwaysTunedAsAsked`). `TuningInv` is about what a tune has yet to do: groups of
ioctls of the switch (`Sending`), then the voltage, the tone and the tune itself (`Settling`),
while no ioctl failed (`clean`); and about what the dish has by then (`DishAsked`, `Commanded`).
`SendDiseqcIs` proves of each kind of dish what its groups contain, `RestOfIs` that the
groups behind them stay as they are from one ioctl to the next, and `PortBitsAre` that the
bits of a command are the port, polarisation and band of the request.

**SignalMonitor** (`SignalAlwaysMeasured`). The samples that were stored are a history, and
each, like what a thread is about to store, is of one interface (`OfOneInterface`; between the
two old calls, `LevelIsOld`). The data are the last of them, and what the description has
copied so far is of stored ones, in order (`SignalInv`).

**TsInput** (`FilterAlwaysReaches`). `PassedOver`: each packet that the processed index is past
was looked at or is excused. `purge()` is a loop from the last packet to the first, moving
what is behind a marked one: `PurgeStepRight` is its invariant, `PurgeIs` that the loop has
one course, and `PurgeRight` the induction over its turns. The theorems of the library on
induction take operators that no prover here can instantiate; `UpTo` takes a set in
their place, and rests on `LeastIs`, that of some numbers one is the least.

**OSCamFilters** (`FilterDataAlwaysMatches`). `FilterOK`: a filter waits for the rest of a section
that it asks for, but for one in which a section broke off, which takes the next one. A
packet is shown to the filters up to the first whose section it completes (`ShowTo`), and
each of them stays right or is reset.

**DvbCa** (`ApdusAlwaysFit`). Until a session is closed they are only added, so that a message
that was right when it was sent is still right when it is read: `ForHost` and `ForModule` are
the messages that are right given the host's sessions, and `SessionsInv` says that all under
way are such, and that the module knows of no session that the host does not have.

**ConfigStore** (`SettingsAlwaysOnDisk`). Each call is a sequence of moves, and `HeldAt` how
often it holds a lock at each of them (`LocksAsHeld`: it does, until a lock is given up).
`DiskFollows` relates memory, the text that each thread made, and the file, for every two
places at which a post and a save can be; two places at which both hold one lock cannot be
together (`Apart`), and `PostGoes` and `BootGoes` are the steps from the others.

**Daemon** (`UsedStaysThere`). `DaemonInv`: members are made and destroyed in their order, a
server thread runs only while its server is there, and a request only in its thread: what
that uses was declared, and so made, before the server, and is destroyed after it.
`NobodyStaysStuck` rests on `StoppingInv` (no handler before the fork, all members or none when
the servers start, and a flag set for whatever asked for the end): `BuildGoesOn` and `DestroyGoesOn` find who goes on.

**Frontends** (`AdvertisedAlwaysServed`). A frontend enumerates each system once
(`EnumeratedOnce`), so it adds at most 1 to the count of a system (`CountedOnce`, `CountIs`), and only if it is capable
of it. `SumIsAtMost`: a count is thus at most the number of streams that may serve
the system; `PromisedIsFree`: if fewer hold one than are counted, a capable one is free, and
the search of the streams comes to one (`SomeStreamIsFound`).

**ChannelText** (`DescriptionAlwaysTunes`). For each table of the conversions one lemma (`FecTells`,
`ModTells`, ...) says that the text that stands for a value is read back as that value.
`ParsedFields` says which parameter of a text sets which field, and `SatelliteTunes`,
`TerrestrialTunes` and `CableTunes` join the two system by system.

**SettingsXml** (`SettingsXmlInvariant`, `SettingsAlwaysKept`). `SettingsXmlInv` adds that each
value is one that the checks of the code accept (`Sound`), and that a setting nobody said
anything of is the constructor's. The proof has three parts. *The search:* `PlaceFor` and `OwnTags`
say that the tag of a setting is around no other, `FoundHasAll` that what is found by some
tags has them all in order, and so `SearchFinds` and `LookupIs`: a search finds the element of
its setting, or nothing when the file has none or when it is of the LNBs of a switch. *The values:*
`SoundTaken` and `PostTaken`, that each setting accepts what it put into the file, and of a page
nothing but what is sound; `TextKept`, that escaping and trimming (`EscapedIs`, `TrimmedIs`)
leave what the text says. *The steps:* `RestartHolds` and `PostHolds`, which read each setting
from a file that is empty or that the settings before were put into.

**Only model-checked:**

* the liveness properties: TLAPS does not do fairness;
* `BusIsShared`, whose fields are of fixed widths: the run has a frequency of each band;
* `Resyncs`, which is about where each byte of a buffer lies after any number of resyncs.

## 10. Assumptions, and what is not modelled

*StreamSession.* Session IDs are random numbers in the code and never collide here. Each
port gets the protocol it serves; HTTP requests carry no Session header, and clients
learn the ID of an HTTP session from the status page only. The watchdog (75 seconds) does
not expire while a request is handled. Which streams can serve a request is fixed for
that request. "unicast" without RTP/AVP counts as no transport. The `streamInUse()` of the
timeout loop and the check of slot 0 are one step: only the RTSP thread tears down in between.
`pauseStreaming()` completes; `StreamingThread` has the case that it does not. The device
is a pair of flags. Statistics of the RTCP reports, SDP and XML are left out, as are
`MutexLock`s that give up after 15 seconds: no lock of the model is held that long.

*StreamingThread.* `running()` and the load of the state are one step in `MainTop`, as
are `pthread_create` and the store of `Starting`. A wait may give up without a last look.
Exceptions, priorities and affinities are left out.

*PidFilters.* One frontend; `tuned` stands for its frontend device. The request runs
alone, since every call of the device by a request is under the lock of its Stream. The
demux device is the kernel's, modelled from how the code uses it: it refuses to add or
remove a PID when it has no PES filter, and closing it drops all PIDs. Functions under the
lock of the filter are one step, but for the loop of `updatePIDFilters`. PSI tables, packet
counters and continuity errors are left out.

*PacketRing.* Payload and PIDs are left out, and with them what `decrypt()` does with
packets that are not scrambled: OSCam filters and the CAPMT list. A buffer is read in one
step, as only a full one is decrypted and sent; the readers return true for no other. The
pause succeeds; one that gave up is in `StreamingThread`. Writing to the client returns
true in every output. A key stands for its parity: whether it is the right one for the
packet, or arrived too late, is between OSCam and the broadcaster. The queue of keys
is changed without a lock; the model has one step per call, and the freed key as the only
effect. The ring of the next streaming object is new; a batch that survived the one before
(`stopDecrypt` failed) is a hazard in `PROJECT.json`, not a step of the model.

*Section 7.* Each module's head names what it abstracts. The components do not run
together: what one hands to another (a PID list, a tuned frontend, a collected section) is
an input of the other, chosen freely. Not modelled:

* in *DVB frontend* and *delivery systems*: FBC tuners and their root descriptor,
  `diseqcRepeat` (0 unless it is set), sources above 4, and how long the lock takes;
* in *Streaming threads*: null packets that are written while there is no signal;
* in *Streams*: SDP and XML text other than what `SettingsXml` and `Replies` need;
* in *HTTP server*: static files, `desc.xml`, the icons;
* in *DVBAPI client*: a message of OSCam that is split over two `recv()`, and a `SET_FILTER`
  that comes after the stream stopped;
* in *SSDP server*: the list of the servers that were heard, which nobody reads; in `DeviceIds`,
  the byebye and the boot ID that go with a new device ID;
* in *Packet buffer*: what the bytes destroy that are written in front of a buffer whose write
  index wrapped;
* in *Daemon*: streaming threads that still use the sockets of a server that was destroyed;
* in *Child process input*: the process and its end;
* *Message parsing* and *Helpers*, `Log`, `StopWatch`, the JSON writer: text and wrappers with no
  protocol. What a parser makes of numbers is in `ChannelText`, `SettingsXml`, `Replies`.

Everything else is listed in `PROJECT.json` with its status and the reason.
