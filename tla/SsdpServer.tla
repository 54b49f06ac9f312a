----------------------------- MODULE SsdpServer -----------------------------
(***************************************************************************)
(* upnp::ssdp::Server of several SatPI servers on one network: the         *)
(* announcements, the boot ID that must grow with every change, and what   *)
(* of this survives a restart in SatPI.xml. Module DeviceIds has the       *)
(* device IDs, which must come to differ. The configuration page of the    *)
(* web interface posts the whole XML that it loaded once, the boot ID and  *)
(* the device ID of that time included.                                    *)
(*                                                                         *)
(* Abstracted: the texts of the messages; of the three NOTIFYs of an       *)
(* announcement the one that other servers look at; the list of servers    *)
(* seen, which only the web page shows; the byebyes, which carry the       *)
(* device ID in the place of the boot ID.  Saving the XML is one step here *)
(* (ConfigStore has its parts), but may be interrupted by a crash.         *)
(***************************************************************************)
EXTENDS Integers, FiniteSets

CONSTANTS
  Servers,
  Files, FirstFile,   \* device description files
  MaxEvents           \* bound: crashes, lost messages, crossing announcements, pages

ASSUME SsdpAssumption ==
  /\ IsFiniteSet(Servers) /\ FirstFile \in Files /\ MaxEvents \in Nat

VARIABLES
  running,
  boot, device,   \* _bootID, _deviceID
  used,           \* _xmlDeviceDescriptionFile of the SSDP server, and so _location
  file,           \* _xmlDeviceDescriptionFile of the properties
  leaving,        \* the thread is between the parts of sendGiveUpDeviceID()
  disk,           \* SatPI.xml
  page,           \* what a browser has loaded of it, if it has
  posting,        \* the page was posted: the properties are set, the SSDP server is not
  net,            \* messages on their way
  events,
  told,           \* history: what the server has said, with which boot ID
  reverted        \* history: the boot ID was set back

serverVars == <<running, boot, device, used, file, leaving, posting>>
ssdpVars == <<serverVars, disk, page, net, events, told, reverted>>

Settings == [boot : Nat, device : Nat, file : Files]
NoPage == [boot |-> -1]
FirstSettings == [boot |-> 0, device |-> 1, file |-> FirstFile]

\* "alive" is the NOTIFY, "contact" the M-SEARCH with a device ID, sent to one server.
Messages == [kind : {"alive", "contact"}, from : Servers, to : Servers, device : Nat]
Sayings == [boot : Nat, part : {"device"}, value : Nat]
           \cup [boot : Nat, part : {"location"}, value : Files]

SsdpTypeOK ==
  /\ running \in [Servers -> BOOLEAN] /\ leaving \in [Servers -> BOOLEAN]
  /\ posting \in [Servers -> BOOLEAN] /\ reverted \in [Servers -> BOOLEAN]
  /\ boot \in [Servers -> Nat] /\ device \in [Servers -> Nat]
  /\ used \in [Servers -> Files] /\ file \in [Servers -> Files]
  /\ disk \in [Servers -> Settings]
  /\ page \in [Servers -> Settings \cup {NoPage}]
  /\ net \subseteq Messages
  /\ events \in 0..MaxEvents
  /\ told \in [Servers -> SUBSET Sayings]

SsdpInit ==
  /\ running = [s \in Servers |-> FALSE] /\ leaving = [s \in Servers |-> FALSE]
  /\ posting = [s \in Servers |-> FALSE] /\ reverted = [s \in Servers |-> FALSE]
  /\ boot = [s \in Servers |-> 0] /\ device = [s \in Servers |-> 1]
  /\ used = [s \in Servers |-> FirstFile] /\ file = [s \in Servers |-> FirstFile]
  /\ disk = [s \in Servers |-> FirstSettings]
  /\ page = [s \in Servers |-> NoPage]
  /\ net = {} /\ events = 0
  /\ told = [s \in Servers |-> {}]

Event == events < MaxEvents /\ events' = events + 1

\* saveXML(), with what the step makes of the settings.
Save(s) == disk' = [disk EXCEPT ![s] = [boot |-> boot'[s], device |-> device'[s],
                                        file |-> file'[s]]]

Says(s, part, value) == [boot |-> boot[s], part |-> part, value |-> value]

\* A message with the location and the device ID.
Tells(s) == told' = [told EXCEPT ![s] = @ \cup {Says(s, "device", device[s]),
                                               Says(s, "location", used[s])}]

-----------------------------------------------------------------------------

\* SatPI's constructor restores the settings; threadEntry() increments the boot ID.
Start(s) ==
  /\ ~running[s] /\ running' = [running EXCEPT ![s] = TRUE]
  /\ boot' = [boot EXCEPT ![s] = disk[s].boot + 1]
  /\ device' = [device EXCEPT ![s] = disk[s].device]
  /\ file' = [file EXCEPT ![s] = disk[s].file]
  /\ used' = [used EXCEPT ![s] = disk[s].file]
  /\ leaving' = [leaving EXCEPT ![s] = FALSE] /\ posting' = [posting EXCEPT ![s] = FALSE]
  /\ Save(s)
  /\ UNCHANGED <<page, net, events, told, reverted>>

\* The program ends, perhaps while the file that it saves is truncated and not yet written.
Crash(s) ==
  /\ running[s] /\ Event
  /\ running' = [running EXCEPT ![s] = FALSE]
  /\ \/ UNCHANGED <<disk, reverted>>
     \/ /\ disk' = [disk EXCEPT ![s] = FirstSettings]
        /\ reverted' = [reverted EXCEPT ![s] = TRUE]
  /\ UNCHANGED <<boot, device, used, file, leaving, posting, page, net, told>>

\* The thread's loop has the lock.
Looping(s) == running[s] /\ ~leaving[s]

\* sendAnnounce(), when it is time again.  Each may cross other messages; the bound is on
\* how many are looked at that do.
Announce(s) ==
  /\ Looping(s)
  /\ \/ net = {} /\ UNCHANGED events
     \/ net # {} /\ Event
  /\ net' = net \cup [kind : {"alive"}, from : {s}, to : Servers \ {s}, device : {device[s]}]
  /\ Tells(s)
  /\ UNCHANGED <<serverVars, disk, page, reverted>>

\* sendDiscoverResponse() to a client that searches: the device ID is not in it.
Discover(s) ==
  /\ Looping(s)
  /\ told' = [told EXCEPT ![s] = @ \cup {Says(s, "location", used[s])}]
  /\ UNCHANGED <<serverVars, disk, page, net, events, reverted>>

\* checkReply() of a NOTIFY, and checkDefendDeviceID().
HearAlive(m) ==
  /\ m \in net /\ m.kind = "alive" /\ Looping(m.to)
  /\ net' = (net \ {m}) \cup
       (IF m.device = device[m.to]
        THEN {[kind |-> "contact", from |-> m.to, to |-> m.from, device |-> device[m.to]]}
        ELSE {})
  /\ UNCHANGED <<serverVars, disk, page, events, told, reverted>>

\* checkReply() of an M-SEARCH with a device ID, whichever: the server answers with the old
\* IDs, takes the next device ID and saves it.
HearContact(m) ==
  /\ m \in net /\ m.kind = "contact" /\ Looping(m.to)
  /\ net' = net \ {m}
  /\ Tells(m.to)
  /\ device' = [device EXCEPT ![m.to] = @ + 1]
  /\ leaving' = [leaving EXCEPT ![m.to] = TRUE]
  /\ UNCHANGED <<running, boot, used, file, posting>>
  /\ Save(m.to)
  /\ UNCHANGED <<page, events, reverted>>

\* After the byebye, which takes 0.6 seconds, the boot ID is incremented.
GivenUp(s) ==
  /\ running[s] /\ leaving[s]
  /\ leaving' = [leaving EXCEPT ![s] = FALSE]
  /\ boot' = [boot EXCEPT ![s] = @ + 1]
  /\ UNCHANGED <<running, device, used, file, posting>>
  /\ Save(s)
  /\ UNCHANGED <<page, net, events, told, reverted>>

\* Mutant: a new file keeps the boot ID.
NewFile_SameBoot(s) ==
  /\ Looping(s) /\ used[s] # file[s]
  /\ used' = [used EXCEPT ![s] = file[s]]
  /\ UNCHANGED <<running, boot, device, file, leaving, posting>>
  /\ Save(s)
  /\ UNCHANGED <<page, net, events, told, reverted>>

\* The loop notices another device description file.
NewFile(s) ==
  /\ Looping(s) /\ used[s] # file[s]
  /\ used' = [used EXCEPT ![s] = file[s]]
  /\ boot' = [boot EXCEPT ![s] = @ + 1]
  /\ UNCHANGED <<running, device, file, leaving, posting>>
  /\ Save(s)
  /\ UNCHANGED <<page, net, events, told, reverted>>

-----------------------------------------------------------------------------

\* GET SatPI.xml.
LoadPage(s) ==
  /\ Looping(s) /\ page[s] = NoPage /\ Event
  /\ page' = [page EXCEPT ![s] = [boot |-> boot[s], device |-> device[s], file |-> file[s]]]
  /\ UNCHANGED <<serverVars, disk, net, told, reverted>>

\* POST SatPI.xml, with the page's values and perhaps another file: the properties ...
Post(s) ==
  \E f \in Files :
    /\ running[s] /\ ~posting[s] /\ page[s] # NoPage
    /\ posting' = [posting EXCEPT ![s] = TRUE]
    /\ file' = [file EXCEPT ![s] = f]
    /\ UNCHANGED <<running, boot, device, used, leaving, disk, page, net, events, told, reverted>>

\* ... and the SSDP server, by doFromXML() under the lock; then the XML is saved.
PostRest(s) ==
  /\ Looping(s) /\ posting[s]
  /\ posting' = [posting EXCEPT ![s] = FALSE]
  /\ boot' = [boot EXCEPT ![s] = page[s].boot]
  /\ device' = [device EXCEPT ![s] = page[s].device]
  /\ reverted' = [reverted EXCEPT ![s] = @ \/ page[s].boot # boot[s]]
  /\ UNCHANGED <<running, used, file, leaving>>
  /\ page' = [page EXCEPT ![s] = NoPage]
  /\ Save(s)
  /\ UNCHANGED <<net, events, told>>

\* The network, and servers that are not there.
Drop(m) ==
  /\ m \in net /\ net' = net \ {m}
  /\ \/ ~running[m.to] /\ UNCHANGED events
     \/ running[m.to] /\ Event
  /\ UNCHANGED <<serverVars, disk, page, told, reverted>>

SsdpNext ==
  \/ \E s \in Servers :
       Start(s) \/ Crash(s) \/ Announce(s) \/ Discover(s) \/ GivenUp(s) \/ NewFile(s)
       \/ LoadPage(s) \/ Post(s) \/ PostRest(s)
  \/ \E m \in net : HearAlive(m) \/ HearContact(m) \/ Drop(m)

SsdpSpec == SsdpInit /\ [][SsdpNext]_ssdpVars

-----------------------------------------------------------------------------

\* What a server says with one boot ID never changes: when its location or device ID does,
\* and after a restart, the boot ID is one that it has not used.  The exceptions are a file
\* that was truncated when the program ended, and a page posted that was loaded before the
\* last change: its boot ID is taken.
BootIdIsFresh ==
  \A s \in Servers : ~reverted[s] =>
    \A x, y \in told[s] : x.boot = y.boot /\ x.part = y.part => x.value = y.value

\* The inductive invariant.
SaysNow(s) ==
  \A x \in told[s] :
    /\ x.boot <= disk[s].boot
    /\ running[s] /\ x.boot = boot[s] =>
         /\ (x.part = "location" => x.value = used[s])
         /\ (x.part = "device" /\ ~leaving[s] => x.value = device[s])

PageIsOld(s) ==
  page[s] # NoPage =>
    /\ page[s].boot <= disk[s].boot
    /\ running[s] /\ ~leaving[s] /\ page[s].boot = boot[s] => page[s].device = device[s]

BootInv ==
  \A s \in Servers : /\ (running[s] => disk[s].boot = boot[s])
                     /\ (posting[s] => page[s] # NoPage)
                     /\ (~reverted[s] => SaysNow(s) /\ PageIsOld(s))

SsdpInv == SsdpTypeOK /\ BootInv /\ BootIdIsFresh
=============================================================================
