------------------------------- MODULE ServiceProofs -------------------------------
(***************************************************************************)
(* What the parts around the servers promise, for every value of their     *)
(* constants: SsdpServer, ConfigStore, Daemon and SettingsXml.  SsdpServer *)
(* is proved server by server: a step changes the variables of one server, *)
(* and the messages, on which its invariant does not depend.  SettingsXml  *)
(* is proved from where each setting is in a file: its tag is one that no  *)
(* other setting has around it, so that a search finds it or nothing.      *)
(***************************************************************************)
EXTENDS SsdpServer, ConfigStore, SettingsXml, Daemon, SequenceTheorems, WellFoundedInduction,
        NaturalsInduction, TLAPS

-----------------------------------------------------------------------------
(* SsdpServer: a boot ID stands for one location and one device ID *)

\* BootIdIsFresh of one server.
Fresh(s) ==
  \A x, y \in told[s] : x.boot = y.boot /\ x.part = y.part => x.value = y.value

\* The invariant of one server.
ServerOK(s) ==
  /\ (running[s] => disk[s].boot = boot[s])
  /\ (posting[s] => page[s] # NoPage)
  /\ (~reverted[s] => SaysNow(s) /\ PageIsOld(s) /\ Fresh(s))

\* Nothing of server s changes.
Same(s) ==
  /\ running'[s] = running[s] /\ boot'[s] = boot[s] /\ device'[s] = device[s]
  /\ used'[s] = used[s] /\ leaving'[s] = leaving[s] /\ posting'[s] = posting[s]
  /\ disk'[s] = disk[s] /\ page'[s] = page[s] /\ told'[s] = told[s]
  /\ reverted'[s] = reverted[s]

\* The invariant is that of every server.
LEMMA ByServer ==
  SsdpInv <=> SsdpTypeOK /\ \A s \in Servers : ServerOK(s)
BY DEF SsdpInv, BootInv, BootIdIsFresh, ServerOK, Fresh

\* A server that does not change keeps its part.
LEMMA SameOK == ASSUME NEW s \in Servers, ServerOK(s), Same(s) PROVE ServerOK(s)'
<1>1. SaysNow(s) => SaysNow(s)' BY DEF Same, SaysNow
<1>2. PageIsOld(s) => PageIsOld(s)' BY DEF Same, PageIsOld, NoPage
<1>3. Fresh(s) => Fresh(s)' BY DEF Same, Fresh
<1> QED BY <1>1, <1>2, <1>3 DEF Same, ServerOK, NoPage

\* SsdpInv holds initially.
LEMMA SsdpInitInv == SsdpInit => SsdpInv
<1> SUFFICES ASSUME SsdpInit PROVE SsdpInv OBVIOUS
<1>1. SsdpTypeOK
  BY SsdpAssumption DEF SsdpInit, SsdpTypeOK, FirstSettings, Settings
<1>2. \A s \in Servers : ServerOK(s)
  BY DEF SsdpInit, ServerOK, SaysNow, PageIsOld, Fresh
<1> QED BY <1>1, <1>2, ByServer

-----------------------------------------------------------------------------

\* What is saved has the type of settings, and changes one server's file.
LEMMA SaveType ==
  ASSUME SsdpTypeOK, NEW s \in Servers, Save(s),
         boot'[s] \in Nat, device'[s] \in Nat, file'[s] \in Files
  PROVE  /\ disk' \in [Servers -> Settings]
         /\ disk'[s].boot = boot'[s]
         /\ \A t \in Servers \ {s} : disk'[t] = disk[t]
BY DEF SsdpTypeOK, Save, Settings

\* What a server tells is of the type of sayings.
LEMMA TellsType ==
  ASSUME SsdpTypeOK, NEW s \in Servers
  PROVE  /\ Says(s, "device", device[s]) \in Sayings
         /\ Says(s, "location", used[s]) \in Sayings
         /\ (Tells(s) => told' \in [Servers -> SUBSET Sayings])
<1>1. Says(s, "device", device[s]) \in [boot : Nat, part : {"device"}, value : Nat]
  BY DEF SsdpTypeOK, Says
<1>2. Says(s, "location", used[s]) \in [boot : Nat, part : {"location"}, value : Files]
  BY DEF SsdpTypeOK, Says
<1>3. /\ Says(s, "device", device[s]) \in Sayings
      /\ Says(s, "location", used[s]) \in Sayings
  BY <1>1, <1>2 DEF Sayings
<1>4. ASSUME Tells(s) PROVE told' \in [Servers -> SUBSET Sayings]
  <2>1. told[s] \cup {Says(s, "device", device[s]), Says(s, "location", used[s])}
          \in SUBSET Sayings
    BY <1>3 DEF SsdpTypeOK
  <2> QED BY <2>1, <1>4 DEF SsdpTypeOK, Tells
<1> QED BY <1>3, <1>4

\* Every saying has a number as boot ID.
LEMMA SayingBoot ==
  ASSUME SsdpTypeOK, NEW s \in Servers, NEW x \in told[s]
  PROVE  x.boot \in Nat /\ x.part \in {"device", "location"}
BY DEF SsdpTypeOK, Sayings

\* The settings on disk and in memory have numbers.
LEMMA Numbers ==
  ASSUME SsdpTypeOK, NEW s \in Servers
  PROVE  /\ boot[s] \in Nat /\ device[s] \in Nat /\ disk[s].boot \in Nat
         /\ disk[s].device \in Nat /\ disk[s].file \in Files /\ file[s] \in Files
         /\ (page[s] # NoPage => page[s].boot \in Nat /\ page[s].device \in Nat)
BY DEF SsdpTypeOK, Settings

-----------------------------------------------------------------------------

\* A step that tells what is so leaves the sayings right.
LEMMA TellOK ==
  ASSUME SsdpTypeOK, NEW s \in Servers, running[s], ~leaving[s], ~reverted[s],
         disk[s].boot = boot[s], SaysNow(s), Fresh(s),
         NEW T, T \subseteq told[s] \cup {Says(s, "device", device[s]),
                                         Says(s, "location", used[s])}
  PROVE  /\ \A x \in T : /\ x.boot <= boot[s]
                         /\ x.boot = boot[s] =>
                              /\ (x.part = "location" => x.value = used[s])
                              /\ (x.part = "device" => x.value = device[s])
         /\ \A x, y \in T : x.boot = y.boot /\ x.part = y.part => x.value = y.value
<1>1. \A x \in T : \/ x \in told[s]
                   \/ x = Says(s, "device", device[s])
                   \/ x = Says(s, "location", used[s])
  OBVIOUS
<1>2. ASSUME NEW x \in T
      PROVE  /\ x.boot <= boot[s] /\ x.part \in {"device", "location"}
             /\ x.boot = boot[s] =>
                  /\ (x.part = "location" => x.value = used[s])
                  /\ (x.part = "device" => x.value = device[s])
  <2>1. CASE x \in told[s] BY <2>1, SayingBoot DEF SaysNow
  <2>2. CASE x = Says(s, "device", device[s]) BY <2>2, Numbers DEF Says
  <2>3. CASE x = Says(s, "location", used[s]) BY <2>3, Numbers DEF Says
  <2> QED BY <1>1, <2>1, <2>2, <2>3
<1>3. ASSUME NEW x \in T, NEW y \in T, x.boot = y.boot, x.part = y.part
      PROVE  x.value = y.value
  <2>1. CASE x.boot = boot[s] BY <2>1, <1>2, <1>3
  <2>2. CASE x.boot # boot[s]
    <3>1. x \in told[s] /\ y \in told[s] BY <1>1, <1>3, <2>2 DEF Says
    <3> QED BY <3>1, <1>3 DEF Fresh
  <2> QED BY <2>1, <2>2
<1> QED BY <1>2, <1>3

\* Start: the boot ID is one above that on disk, and so above all that were told.
LEMMA StartOK ==
  ASSUME SsdpTypeOK, NEW s \in Servers, ServerOK(s), Start(s)
  PROVE  SsdpTypeOK' /\ ServerOK(s)'
<1>1. boot'[s] = disk[s].boot + 1 /\ boot'[s] \in Nat /\ device'[s] \in Nat /\ file'[s] \in Files
  BY Numbers DEF Start, SsdpTypeOK
<1>2. Save(s) BY DEF Start
<1>3. disk' \in [Servers -> Settings] /\ disk'[s].boot = boot'[s]
  BY <1>1, <1>2, SaveType
<1>4. SsdpTypeOK'
  <2>1. boot' \in [Servers -> Nat] /\ device' \in [Servers -> Nat]
    BY Numbers DEF Start, SsdpTypeOK
  <2>2. file' \in [Servers -> Files] /\ used' \in [Servers -> Files]
    BY Numbers DEF Start, SsdpTypeOK
  <2>3. /\ running' \in [Servers -> BOOLEAN] /\ leaving' \in [Servers -> BOOLEAN]
        /\ posting' \in [Servers -> BOOLEAN]
    BY DEF Start, SsdpTypeOK
  <2> QED BY <1>3, <2>1, <2>2, <2>3 DEF Start, SsdpTypeOK
<1>5. /\ running'[s] /\ ~posting'[s] /\ ~leaving'[s]
      /\ told' = told /\ page' = page /\ reverted' = reverted
  BY DEF Start, SsdpTypeOK
<1>6. ASSUME ~reverted[s] PROVE SaysNow(s)' /\ PageIsOld(s)' /\ Fresh(s)'
  <2>1. SaysNow(s) /\ PageIsOld(s) /\ Fresh(s) BY <1>6 DEF ServerOK
  <2>2. \A x \in told[s] : x.boot \in Nat /\ x.boot <= disk[s].boot
    BY <2>1, SayingBoot DEF SaysNow
  <2>3. SaysNow(s)'
    BY <2>2, <1>1, <1>3, <1>5, Numbers DEF SaysNow
  <2>4. PageIsOld(s)'
    BY <2>1, <1>1, <1>3, <1>5, Numbers DEF PageIsOld, NoPage
  <2> QED BY <2>1, <2>3, <2>4, <1>5 DEF Fresh
<1> QED BY <1>3, <1>4, <1>5, <1>6 DEF ServerOK, NoPage

\* Crash: what is on disk stays, or the boot ID counts as reverted.
LEMMA CrashOK ==
  ASSUME SsdpTypeOK, NEW s \in Servers, ServerOK(s), Crash(s)
  PROVE  SsdpTypeOK' /\ ServerOK(s)'
<1>1. events' \in 0..MaxEvents BY SsdpAssumption DEF Crash, Event, SsdpTypeOK
<1>2. FirstSettings \in Settings BY SsdpAssumption DEF FirstSettings, Settings
<1>3. SsdpTypeOK'
  <2>1. running' \in [Servers -> BOOLEAN] BY DEF Crash, SsdpTypeOK
  <2>2. disk' \in [Servers -> Settings] /\ reverted' \in [Servers -> BOOLEAN]
    BY <1>2 DEF Crash, SsdpTypeOK
  <2> QED BY <1>1, <2>1, <2>2 DEF Crash, SsdpTypeOK
<1>4. /\ ~running'[s] /\ posting' = posting /\ page' = page /\ told' = told
      /\ boot' = boot /\ leaving' = leaving /\ device' = device /\ used' = used
  BY DEF Crash, SsdpTypeOK
<1>5. \/ disk' = disk /\ reverted' = reverted
      \/ reverted'[s]
  BY DEF Crash, SsdpTypeOK
<1>6. CASE disk' = disk /\ reverted' = reverted
  <2>1. SaysNow(s) => SaysNow(s)' BY <1>4, <1>6 DEF SaysNow
  <2>2. PageIsOld(s) => PageIsOld(s)' BY <1>4, <1>6 DEF PageIsOld, NoPage
  <2>3. Fresh(s) => Fresh(s)' BY <1>4 DEF Fresh
  <2> QED BY <1>3, <1>4, <1>6, <2>1, <2>2, <2>3 DEF ServerOK, NoPage
<1>7. CASE reverted'[s]
  BY <1>3, <1>4, <1>7 DEF ServerOK, NoPage
<1> QED BY <1>3, <1>5, <1>6, <1>7

\* Announce and Discover: what is told is so.
LEMMA AnnounceOK ==
  ASSUME SsdpTypeOK, NEW s \in Servers, ServerOK(s), Announce(s) \/ Discover(s)
  PROVE  SsdpTypeOK' /\ ServerOK(s)'
<1>1. events' \in 0..MaxEvents
  BY SsdpAssumption DEF Announce, Discover, Event, SsdpTypeOK
<1>2. net' \subseteq Messages
  BY DEF Announce, Discover, SsdpTypeOK, Messages
<1>3. told' \in [Servers -> SUBSET Sayings]
  <2>1. CASE Announce(s) BY <2>1, TellsType DEF Announce
  <2>2. CASE Discover(s)
    <3>1. told[s] \cup {Says(s, "location", used[s])} \in SUBSET Sayings
      BY TellsType DEF SsdpTypeOK
    <3> QED BY <3>1, <2>2 DEF Discover, SsdpTypeOK
  <2> QED BY <2>1, <2>2
<1>4. /\ UNCHANGED <<serverVars, disk, page, reverted>> /\ Looping(s)
  BY DEF Announce, Discover
<1>5. SsdpTypeOK' BY <1>1, <1>2, <1>3, <1>4 DEF SsdpTypeOK, serverVars
<1>6. told'[s] \subseteq told[s] \cup {Says(s, "device", device[s]), Says(s, "location", used[s])}
  BY DEF Announce, Discover, Tells, SsdpTypeOK
<1>7. ASSUME ~reverted[s] PROVE SaysNow(s)' /\ PageIsOld(s)' /\ Fresh(s)'
  <2>1. SaysNow(s) /\ PageIsOld(s) /\ Fresh(s) /\ running[s] /\ ~leaving[s]
        /\ disk[s].boot = boot[s]
    BY <1>4, <1>7 DEF ServerOK, Looping
  <2>2. /\ \A x \in told'[s] : /\ x.boot <= boot[s]
                               /\ x.boot = boot[s] =>
                                    /\ (x.part = "location" => x.value = used[s])
                                    /\ (x.part = "device" => x.value = device[s])
        /\ \A x, y \in told'[s] : x.boot = y.boot /\ x.part = y.part => x.value = y.value
    BY <1>6, <1>7, <2>1, TellOK
  <2>3. SaysNow(s)' BY <2>1, <2>2, <1>4 DEF SaysNow, serverVars
  <2>4. PageIsOld(s)' BY <2>1, <1>4 DEF PageIsOld, serverVars, NoPage
  <2>5. Fresh(s)' BY <2>2 DEF Fresh
  <2> QED BY <2>3, <2>4, <2>5
<1> QED BY <1>4, <1>5, <1>7 DEF ServerOK, serverVars, NoPage

\* HearContact: the old IDs are told once more, and the thread is leaving.
LEMMA ContactOK ==
  ASSUME SsdpTypeOK, NEW m \in net, m.to \in Servers, ServerOK(m.to), HearContact(m)
  PROVE  SsdpTypeOK' /\ ServerOK(m.to)'
<1> DEFINE s == m.to
<1>1. device'[s] \in Nat /\ boot'[s] \in Nat /\ file'[s] \in Files /\ boot' = boot
  BY Numbers DEF HearContact, SsdpTypeOK
<1>2. Save(s) BY DEF HearContact
<1>3. disk' \in [Servers -> Settings] /\ disk'[s].boot = boot[s]
  BY <1>1, <1>2, SaveType
<1>4. told' \in [Servers -> SUBSET Sayings] BY TellsType DEF HearContact
<1>5. SsdpTypeOK'
  <2>1. device' \in [Servers -> Nat] BY Numbers DEF HearContact, SsdpTypeOK
  <2>2. leaving' \in [Servers -> BOOLEAN] BY DEF HearContact, SsdpTypeOK
  <2>3. net' \subseteq Messages BY DEF HearContact, SsdpTypeOK
  <2> QED BY <1>3, <1>4, <2>1, <2>2, <2>3 DEF HearContact, SsdpTypeOK
<1>6. /\ Looping(s) /\ running'[s] = running[s] /\ leaving'[s] /\ used' = used
      /\ posting' = posting /\ page' = page /\ reverted' = reverted
      /\ told'[s] = told[s] \cup {Says(s, "device", device[s]), Says(s, "location", used[s])}
  BY DEF HearContact, Tells, SsdpTypeOK
<1>7. ASSUME ~reverted[s] PROVE SaysNow(s)' /\ PageIsOld(s)' /\ Fresh(s)'
  <2>1. SaysNow(s) /\ PageIsOld(s) /\ Fresh(s) /\ running[s] /\ ~leaving[s]
        /\ disk[s].boot = boot[s]
    BY <1>6, <1>7 DEF ServerOK, Looping
  <2>2. /\ \A x \in told'[s] : /\ x.boot <= boot[s]
                               /\ x.boot = boot[s] =>
                                    /\ (x.part = "location" => x.value = used[s])
                                    /\ (x.part = "device" => x.value = device[s])
        /\ \A x, y \in told'[s] : x.boot = y.boot /\ x.part = y.part => x.value = y.value
    BY <1>6, <1>7, <2>1, TellOK
  <2>3. SaysNow(s)' BY <2>1, <2>2, <1>1, <1>3, <1>6 DEF SaysNow
  <2>4. PageIsOld(s)' BY <2>1, <1>3, <1>6 DEF PageIsOld, NoPage
  <2>5. Fresh(s)' BY <2>2 DEF Fresh
  <2> QED BY <2>3, <2>4, <2>5
<1> QED BY <1>1, <1>3, <1>5, <1>6, <1>7 DEF ServerOK, NoPage

\* A new boot ID, above all that were told.
LEMMA NewBootOK ==
  ASSUME SsdpTypeOK, NEW s \in Servers, ServerOK(s), GivenUp(s) \/ NewFile(s)
  PROVE  SsdpTypeOK' /\ ServerOK(s)'
<1>1. /\ running[s] /\ boot' = [boot EXCEPT ![s] = @ + 1] /\ Save(s)
      /\ UNCHANGED <<running, device, file, posting, page, net, events, told, reverted>>
  BY DEF GivenUp, NewFile, Looping
<1>2. boot'[s] = boot[s] + 1 /\ boot'[s] \in Nat /\ device'[s] \in Nat /\ file'[s] \in Files
  BY <1>1, Numbers DEF SsdpTypeOK
<1>3. disk' \in [Servers -> Settings] /\ disk'[s].boot = boot[s] + 1
  BY <1>1, <1>2, SaveType
<1>4. SsdpTypeOK'
  <2>1. boot' \in [Servers -> Nat] BY <1>1, Numbers DEF SsdpTypeOK
  <2>2. leaving' \in [Servers -> BOOLEAN] /\ used' \in [Servers -> Files]
    BY DEF GivenUp, NewFile, SsdpTypeOK
  <2> QED BY <1>1, <1>3, <2>1, <2>2 DEF SsdpTypeOK
<1>5. ASSUME ~reverted[s] PROVE SaysNow(s)' /\ PageIsOld(s)' /\ Fresh(s)'
  <2>1. SaysNow(s) /\ PageIsOld(s) /\ Fresh(s) /\ disk[s].boot = boot[s]
    BY <1>1, <1>5 DEF ServerOK
  <2>2. \A x \in told[s] : x.boot \in Nat /\ x.boot <= boot[s]
    BY <2>1, SayingBoot DEF SaysNow
  <2>3. SaysNow(s)' BY <2>2, <1>1, <1>2, <1>3, Numbers DEF SaysNow
  <2>4. PageIsOld(s)' BY <2>1, <1>1, <1>2, <1>3, Numbers DEF PageIsOld, NoPage
  <2> QED BY <2>1, <2>3, <2>4, <1>1 DEF Fresh
<1> QED BY <1>1, <1>2, <1>3, <1>4, <1>5 DEF ServerOK, NoPage

\* The page.
LEMMA PageOK ==
  ASSUME SsdpTypeOK, NEW s \in Servers, ServerOK(s), LoadPage(s) \/ Post(s)
  PROVE  SsdpTypeOK' /\ ServerOK(s)'
<1>1. CASE LoadPage(s)
  <2>1. events' \in 0..MaxEvents BY <1>1, SsdpAssumption DEF LoadPage, Event, SsdpTypeOK
  <2> DEFINE P == [boot |-> boot[s], device |-> device[s], file |-> file[s]]
  <2>2. P \in Settings BY Numbers DEF Settings
  <2>3. page' \in [Servers -> Settings \cup {NoPage}] /\ page'[s] = P
    BY <1>1, <2>2 DEF LoadPage, SsdpTypeOK
  <2>4. SsdpTypeOK' BY <1>1, <2>1, <2>3 DEF LoadPage, SsdpTypeOK, serverVars
  <2>5. P # NoPage BY Numbers DEF NoPage
  <2>6. PageIsOld(s)' \/ ~running[s] \/ disk[s].boot # boot[s]
    BY <1>1, <2>3, Numbers DEF PageIsOld, LoadPage, serverVars
  <2>7. SaysNow(s) => SaysNow(s)' BY <1>1 DEF SaysNow, LoadPage, serverVars
  <2>8. Fresh(s) => Fresh(s)' BY <1>1 DEF Fresh, LoadPage
  <2>9. running[s] /\ UNCHANGED <<running, disk, boot, reverted, posting>>
    BY <1>1 DEF LoadPage, Looping, serverVars
  <2> QED BY <2>3, <2>4, <2>5, <2>6, <2>7, <2>8, <2>9 DEF ServerOK, NoPage
<1>2. CASE Post(s)
  <2>1. PICK f \in Files :
          /\ page[s] # NoPage
          /\ posting' = [posting EXCEPT ![s] = TRUE]
          /\ file' = [file EXCEPT ![s] = f]
          /\ UNCHANGED <<running, boot, device, used, leaving, disk, page, net, events, told,
                         reverted>>
    BY <1>2 DEF Post
  <2>2. SsdpTypeOK' BY <2>1 DEF SsdpTypeOK
  <2>3. SaysNow(s) => SaysNow(s)' BY <2>1 DEF SaysNow
  <2>4. PageIsOld(s) => PageIsOld(s)' BY <2>1 DEF PageIsOld, NoPage
  <2>5. Fresh(s) => Fresh(s)' BY <2>1 DEF Fresh
  <2> QED BY <2>1, <2>2, <2>3, <2>4, <2>5 DEF ServerOK, NoPage
<1> QED BY <1>1, <1>2

\* The rest of the post: the boot ID is that of the page, the same or reverted.
LEMMA PostRestOK ==
  ASSUME SsdpTypeOK, NEW s \in Servers, ServerOK(s), PostRest(s)
  PROVE  SsdpTypeOK' /\ ServerOK(s)'
<1>1. page[s] # NoPage /\ page[s].boot \in Nat /\ page[s].device \in Nat
  BY Numbers DEF PostRest, ServerOK
<1>2. /\ boot'[s] = page[s].boot /\ device'[s] = page[s].device /\ file'[s] \in Files
      /\ running[s] /\ ~leaving[s]
      /\ UNCHANGED <<running, used, file, leaving, told, net, events>>
  BY Numbers DEF PostRest, Looping, SsdpTypeOK
<1>3. Save(s) BY DEF PostRest
<1>4. disk' \in [Servers -> Settings] /\ disk'[s].boot = page[s].boot
  BY <1>1, <1>2, <1>3, SaveType
<1>5. SsdpTypeOK'
  <2>1. boot' \in [Servers -> Nat] /\ device' \in [Servers -> Nat]
    BY <1>1 DEF PostRest, SsdpTypeOK
  <2>2. /\ posting' \in [Servers -> BOOLEAN] /\ reverted' \in [Servers -> BOOLEAN]
        /\ page' \in [Servers -> Settings \cup {NoPage}]
    BY DEF PostRest, SsdpTypeOK
  <2> QED BY <1>2, <1>4, <2>1, <2>2 DEF SsdpTypeOK
<1>6. /\ ~posting'[s] /\ page'[s] = NoPage
      /\ (reverted'[s] <=> reverted[s] \/ page[s].boot # boot[s])
  BY DEF PostRest, SsdpTypeOK
<1>7. ASSUME ~reverted'[s] PROVE SaysNow(s)' /\ PageIsOld(s)' /\ Fresh(s)'
  <2>1. /\ page[s].boot = boot[s] /\ SaysNow(s) /\ PageIsOld(s) /\ Fresh(s)
        /\ disk[s].boot = boot[s]
    BY <1>2, <1>6, <1>7 DEF ServerOK
  <2>2. page[s].device = device[s] BY <1>1, <1>2, <2>1 DEF PageIsOld
  <2>3. SaysNow(s)' BY <2>1, <2>2, <1>2, <1>4 DEF SaysNow
  <2>4. PageIsOld(s)' BY <1>6 DEF PageIsOld
  <2>5. Fresh(s)' BY <2>1, <1>2 DEF Fresh
  <2> QED BY <2>3, <2>4, <2>5
<1> QED BY <1>2, <1>4, <1>5, <1>6, <1>7 DEF ServerOK

-----------------------------------------------------------------------------

\* A step of server s leaves the others alone.
LEMMA OthersSame ==
  ASSUME SsdpTypeOK, NEW s \in Servers, NEW t \in Servers \ {s},
         \/ Start(s) \/ Crash(s) \/ Announce(s) \/ Discover(s) \/ GivenUp(s) \/ NewFile(s)
         \/ LoadPage(s) \/ Post(s) \/ PostRest(s)
         \/ \E m \in net : m.to = s /\ HearContact(m)
  PROVE  Same(t)
<1> USE DEF SsdpTypeOK, Same, serverVars
<1>1. CASE Start(s) BY <1>1 DEF Start, Save
<1>2. CASE Crash(s) BY <1>2 DEF Crash
<1>3. CASE Announce(s) BY <1>3 DEF Announce, Tells
<1>4. CASE Discover(s) BY <1>4 DEF Discover
<1>5. CASE GivenUp(s) BY <1>5 DEF GivenUp, Save
<1>6. CASE NewFile(s) BY <1>6 DEF NewFile, Save
<1>7. CASE LoadPage(s) BY <1>7 DEF LoadPage
<1>8. CASE Post(s) BY <1>8 DEF Post
<1>9. CASE PostRest(s) BY <1>9 DEF PostRest, Save
<1>10. CASE \E m \in net : m.to = s /\ HearContact(m)
  BY <1>10 DEF HearContact, Tells, Save
<1> QED BY <1>1, <1>2, <1>3, <1>4, <1>5, <1>6, <1>7, <1>8, <1>9, <1>10

\* Every step keeps SsdpInv.
LEMMA SsdpNextInv == SsdpInv /\ [SsdpNext]_ssdpVars => SsdpInv'
<1> SUFFICES ASSUME SsdpInv, [SsdpNext]_ssdpVars PROVE SsdpInv' OBVIOUS
<1>1. SsdpTypeOK /\ \A s \in Servers : ServerOK(s) BY ByServer
<1>2. SUFFICES SsdpTypeOK' /\ \A s \in Servers : ServerOK(s)'
  <2>1. SsdpInv' <=> SsdpTypeOK' /\ \A s \in Servers : ServerOK(s)'
    BY DEF SsdpInv, BootInv, BootIdIsFresh, ServerOK, Fresh
  <2> QED BY <2>1
<1>3. ASSUME NEW s \in Servers, SsdpTypeOK', ServerOK(s)',
             \A t \in Servers \ {s} : Same(t)
      PROVE  SsdpTypeOK' /\ \A t \in Servers : ServerOK(t)'
  BY <1>1, <1>3, SameOK
<1>4. ASSUME SsdpTypeOK', \A t \in Servers : Same(t)
      PROVE  SsdpTypeOK' /\ \A t \in Servers : ServerOK(t)'
  BY <1>1, <1>4, SameOK
<1>5. ASSUME NEW s \in Servers,
             \/ Start(s) \/ Crash(s) \/ Announce(s) \/ Discover(s) \/ GivenUp(s) \/ NewFile(s)
             \/ LoadPage(s) \/ Post(s) \/ PostRest(s)
      PROVE  SsdpTypeOK' /\ \A t \in Servers : ServerOK(t)'
  <2>1. SsdpTypeOK' /\ ServerOK(s)'
    BY <1>1, <1>5, StartOK, CrashOK, AnnounceOK, NewBootOK, PageOK, PostRestOK
  <2>2. \A t \in Servers \ {s} : Same(t) BY <1>1, <1>5, OthersSame
  <2> QED BY <1>3, <2>1, <2>2
<1>6. ASSUME NEW m \in net, HearContact(m)
      PROVE  SsdpTypeOK' /\ \A t \in Servers : ServerOK(t)'
  <2>1. m.to \in Servers BY <1>1 DEF SsdpTypeOK, Messages
  <2>2. SsdpTypeOK' /\ ServerOK(m.to)' BY <1>1, <1>6, <2>1, ContactOK
  <2>3. \A t \in Servers \ {m.to} : Same(t) BY <1>1, <1>6, <2>1, OthersSame
  <2> QED BY <1>3, <2>1, <2>2, <2>3
<1>7. ASSUME NEW m \in net, HearAlive(m) \/ Drop(m)
      PROVE  SsdpTypeOK' /\ \A t \in Servers : ServerOK(t)'
  <2>1. events' \in 0..MaxEvents
    BY <1>1, <1>7, SsdpAssumption DEF HearAlive, Drop, Event, SsdpTypeOK
  <2>2. m.to \in Servers /\ m.from \in Servers BY <1>1 DEF SsdpTypeOK, Messages
  <2>3. net' \subseteq Messages
    <3>1. device[m.to] \in Nat BY <1>1, <2>2 DEF SsdpTypeOK
    <3>2. [kind |-> "contact", from |-> m.to, to |-> m.from, device |-> device[m.to]] \in Messages
      BY <2>2, <3>1 DEF Messages
    <3> QED BY <1>1, <1>7, <3>2 DEF HearAlive, Drop, SsdpTypeOK
  <2>4. UNCHANGED <<serverVars, disk, page, told, reverted>>
    BY <1>7 DEF HearAlive, Drop
  <2>5. SsdpTypeOK' BY <1>1, <2>1, <2>3, <2>4 DEF SsdpTypeOK, serverVars
  <2>6. \A t \in Servers : Same(t) BY <2>4 DEF Same, serverVars
  <2> QED BY <1>4, <2>5, <2>6
<1>8. CASE UNCHANGED ssdpVars
  <2>1. SsdpTypeOK' BY <1>1, <1>8 DEF SsdpTypeOK, ssdpVars, serverVars
  <2>2. \A t \in Servers : Same(t) BY <1>8 DEF Same, ssdpVars, serverVars
  <2> QED BY <1>4, <2>1, <2>2
<1> QED BY <1>5, <1>6, <1>7, <1>8 DEF SsdpNext

\* The invariant of SsdpServer holds in every behaviour, for every set of servers.
THEOREM SsdpInvariant == SsdpSpec => []SsdpInv
<1>1. SsdpInit => SsdpInv BY SsdpInitInv
<1>2. SsdpInv /\ [SsdpNext]_ssdpVars => SsdpInv' BY SsdpNextInv
<1> QED BY <1>1, <1>2, PTL DEF SsdpSpec

\* A boot ID never stands for two locations or two device IDs of a server, unless it was
\* set back by a page that was loaded earlier or by a file that was lost.
THEOREM BootIdsAreFresh == SsdpSpec => []BootIdIsFresh
<1>1. SsdpInv => BootIdIsFresh BY DEF SsdpInv
<1> QED BY <1>1, SsdpInvariant, PTL

-----------------------------------------------------------------------------
(* ConfigStore: what SatPI.xml has *)

(* What each call does at each of its steps *)

Moves == {"lock", "unlock", "setWeb", "readWeb", "setBoot", "readBoot", "open", "write"}
Move == [op : Moves, arg : Locks]

\* What is where in two sequences, one after the other.
LEMMA JoinIs ==
  ASSUME NEW S, NEW x \in Seq(S), NEW y \in Seq(S)
  PROVE  /\ x \o y \in Seq(S) /\ Len(x \o y) = Len(x) + Len(y)
         /\ \A i \in 1..Len(x) : (x \o y)[i] = x[i]
         /\ \A i \in 1..Len(y) : (x \o y)[Len(x) + i] = y[i]
OBVIOUS

\* The moves of a call.
LEMMA MovesAre ==
  /\ \A m \in Locks : Lock(m) \in Move /\ Unlock(m) \in Move
  /\ \A o \in Moves : Do(o) \in Move
BY DEF Lock, Unlock, Do, Move, Moves, Locks

\* The moves of each call, built from the calls that it makes,
LEMMA AddToXMLIs ==
  /\ AddToXML \in Seq(Move) /\ Len(AddToXML) = 8
  /\ AddToXML[1] = Lock("satpi") /\ AddToXML[2] = Do("readWeb")
  /\ AddToXML[3] = Lock("base") /\ AddToXML[4] = Lock("ssdp") /\ AddToXML[5] = Do("readBoot")
  /\ AddToXML[6] = Unlock("ssdp") /\ AddToXML[7] = Unlock("base") /\ AddToXML[8] = Unlock("satpi")
<1> DEFINE a1 == Lock("satpi")
           a2 == Do("readWeb")
           a3 == Lock("base")
           a4 == Lock("ssdp")
           a5 == Do("readBoot")
           a6 == Unlock("ssdp")
           a7 == Unlock("base")
           a8 == Unlock("satpi")
<1>1. /\ a1 \in Move /\ a2 \in Move /\ a3 \in Move /\ a4 \in Move
      /\ a5 \in Move /\ a6 \in Move /\ a7 \in Move /\ a8 \in Move
  BY MovesAre DEF Locks, Moves
<1>2. AddToXML = <<a1, a2, a3, a4, a5, a6, a7, a8>>
  BY DEF AddToXML
<1> HIDE DEF a1, a2, a3, a4, a5, a6, a7, a8
<1>3. /\ AddToXML \in Seq(Move) /\ Len(AddToXML) = 8
      /\ AddToXML[1] = a1 /\ AddToXML[2] = a2 /\ AddToXML[3] = a3 /\ AddToXML[4] = a4
      /\ AddToXML[5] = a5 /\ AddToXML[6] = a6 /\ AddToXML[7] = a7 /\ AddToXML[8] = a8
  BY <1>1, <1>2
<1> QED BY <1>3 DEF a1, a2, a3, a4, a5, a6, a7, a8

LEMMA SaveXMLIs ==
  /\ SaveXML \in Seq(Move) /\ Len(SaveXML) = 10
  /\ \A i \in 1..8 : SaveXML[i] = AddToXML[i]
  /\ SaveXML[9] = Do("open") /\ SaveXML[10] = Do("write")
<1> DEFINE a == Do("open")
           b == Do("write")
           z == <<a, b>>
<1>1. a \in Move /\ b \in Move
  BY MovesAre DEF Moves
<1> HIDE DEF a, b
<1>2. z \in Seq(Move) /\ Len(z) = 2 /\ z[1] = a /\ z[2] = b
  BY <1>1
<1>3. SaveXML = AddToXML \o z
  BY DEF SaveXML, a, b
<1> HIDE DEF z
<1>4. z \in Seq(Move) /\ AddToXML \in Seq(Move)
  BY <1>2, AddToXMLIs
<1> DEFINE s == AddToXML \o z
<1>5. /\ s \in Seq(Move) /\ Len(s) = Len(AddToXML) + Len(z)
      /\ \A i \in 1..Len(AddToXML) : s[i] = AddToXML[i]
      /\ \A i \in 1..Len(z) : s[Len(AddToXML) + i] = z[i]
  BY <1>4, JoinIs
<1> HIDE DEF s
<1>6. /\ s \in Seq(Move) /\ Len(s) = 10 /\ \A i \in 1..8 : s[i] = AddToXML[i]
      /\ \A i \in 1..2 : s[8 + i] = z[i]
  BY <1>2, <1>5, AddToXMLIs
<1>7. s[9] = z[1] /\ s[10] = z[2]
  <2>1. 1 \in 1..2 /\ 2 \in 1..2 /\ 8 + 1 = 9 /\ 8 + 2 = 10
    OBVIOUS
  <2>2. s[8 + 1] = z[1] /\ s[8 + 2] = z[2]
    BY <1>6, <2>1
  <2> QED BY <2>1, <2>2
<1> QED BY <1>2, <1>3, <1>6, <1>7 DEF s, a, b

LEMMA FirstBootIs ==
  /\ FirstBoot \in Seq(Move) /\ Len(FirstBoot) = 11 /\ FirstBoot[1] = Do("setBoot")
  /\ \A i \in 1..10 : FirstBoot[1 + i] = SaveXML[i]
<1> DEFINE a == Do("setBoot")
           z == <<a>>
<1>1. a \in Move
  BY MovesAre DEF Moves
<1> HIDE DEF a
<1>2. z \in Seq(Move) /\ Len(z) = 1 /\ z[1] = a
  BY <1>1
<1>3. FirstBoot = z \o SaveXML
  BY DEF FirstBoot, a
<1> HIDE DEF z
<1>4. z \in Seq(Move) /\ SaveXML \in Seq(Move)
  BY <1>2, SaveXMLIs
<1> DEFINE s == z \o SaveXML
<1>5. /\ s \in Seq(Move) /\ Len(s) = Len(z) + Len(SaveXML)
      /\ \A i \in 1..Len(z) : s[i] = z[i]
      /\ \A i \in 1..Len(SaveXML) : s[Len(z) + i] = SaveXML[i]
  BY <1>4, JoinIs
<1> HIDE DEF s
<1>6. Len(SaveXML) = 10
  BY SaveXMLIs
<1>7. Len(s) = 11 /\ s[1] = a /\ \A i \in 1..10 : s[1 + i] = SaveXML[i]
  BY <1>2, <1>5, <1>6
<1> QED BY <1>3, <1>5, <1>7 DEF s, a

LEMMA NextBootIs ==
  /\ NextBoot \in Seq(Move) /\ Len(NextBoot) = 13
  /\ NextBoot[1] = Lock("ssdp") /\ NextBoot[13] = Unlock("ssdp")
  /\ \A i \in 1..11 : NextBoot[1 + i] = FirstBoot[i]
<1> DEFINE a == Lock("ssdp")
           b == Unlock("ssdp")
           y == <<a>>
           z == <<b>>
<1>1. a \in Move /\ b \in Move
  BY MovesAre DEF Locks
<1> HIDE DEF a, b
<1>2. /\ y \in Seq(Move) /\ Len(y) = 1 /\ y[1] = a
      /\ z \in Seq(Move) /\ Len(z) = 1 /\ z[1] = b
  BY <1>1
<1>3. NextBoot = (y \o FirstBoot) \o z
  BY DEF NextBoot, a, b
<1> HIDE DEF y, z
<1> DEFINE s == y \o FirstBoot
           t == s \o z
<1>4. y \in Seq(Move) /\ FirstBoot \in Seq(Move)
  BY <1>2, FirstBootIs
<1>5. /\ s \in Seq(Move) /\ Len(s) = Len(y) + Len(FirstBoot)
      /\ \A i \in 1..Len(y) : s[i] = y[i]
      /\ \A i \in 1..Len(FirstBoot) : s[Len(y) + i] = FirstBoot[i]
  BY <1>4, JoinIs
<1> HIDE DEF s
<1>6. s \in Seq(Move) /\ z \in Seq(Move)
  BY <1>2, <1>5
<1>7. /\ t \in Seq(Move) /\ Len(t) = Len(s) + Len(z)
      /\ \A i \in 1..Len(s) : t[i] = s[i]
      /\ \A i \in 1..Len(z) : t[Len(s) + i] = z[i]
  BY <1>6, JoinIs
<1> HIDE DEF t
<1>8. Len(FirstBoot) = 11
  BY FirstBootIs
<1>9. Len(s) = 12 /\ s[1] = a /\ \A i \in 1..11 : s[1 + i] = FirstBoot[i]
  BY <1>2, <1>5, <1>8
<1>10. Len(t) = 13 /\ t[1] = a
  BY <1>2, <1>7, <1>9
<1>11. t[13] = b
  <2>1. 1 \in 1..Len(z) /\ 12 + 1 = 13
    BY <1>2
  <2>2. t[12 + 1] = z[1]
    BY <1>7, <1>9, <2>1
  <2> QED BY <1>2, <2>1, <2>2
<1>12. \A i \in 1..11 : t[1 + i] = FirstBoot[i]
  <2>1. \A i \in 1..11 : 1 + i \in 1..12
    OBVIOUS
  <2> QED BY <1>7, <1>9, <2>1
<1> QED BY <1>3, <1>7, <1>10, <1>11, <1>12 DEF s, t, a, b

LEMMA FromXMLIs ==
  /\ FromXML \in Seq(Move) /\ Len(FromXML) = 17
  /\ FromXML[1] = Lock("satpi") /\ FromXML[2] = Do("setWeb") /\ FromXML[3] = Lock("base")
  /\ FromXML[4] = Lock("ssdp") /\ FromXML[5] = Unlock("ssdp") /\ FromXML[6] = Unlock("base")
  /\ \A i \in 1..10 : FromXML[6 + i] = SaveXML[i]
  /\ FromXML[17] = Unlock("satpi")
<1> DEFINE a1 == Lock("satpi")
           a2 == Do("setWeb")
           a3 == Lock("base")
           a4 == Lock("ssdp")
           a5 == Unlock("ssdp")
           a6 == Unlock("base")
           b == Unlock("satpi")
           y == <<a1, a2, a3, a4, a5, a6>>
           z == <<b>>
<1>1. /\ a1 \in Move /\ a2 \in Move /\ a3 \in Move /\ a4 \in Move
      /\ a5 \in Move /\ a6 \in Move /\ b \in Move
  BY MovesAre DEF Locks, Moves
<1> HIDE DEF a1, a2, a3, a4, a5, a6, b
<1>2. /\ y \in Seq(Move) /\ Len(y) = 6 /\ y[1] = a1 /\ y[2] = a2 /\ y[3] = a3 /\ y[4] = a4
      /\ y[5] = a5 /\ y[6] = a6
      /\ z \in Seq(Move) /\ Len(z) = 1 /\ z[1] = b
  BY <1>1
<1>3. FromXML = (y \o SaveXML) \o z
  BY DEF FromXML, a1, a2, a3, a4, a5, a6, b
<1> HIDE DEF y, z
<1> DEFINE s == y \o SaveXML
           t == s \o z
<1>4. y \in Seq(Move) /\ SaveXML \in Seq(Move)
  BY <1>2, SaveXMLIs
<1>5. /\ s \in Seq(Move) /\ Len(s) = Len(y) + Len(SaveXML)
      /\ \A i \in 1..Len(y) : s[i] = y[i]
      /\ \A i \in 1..Len(SaveXML) : s[Len(y) + i] = SaveXML[i]
  BY <1>4, JoinIs
<1> HIDE DEF s
<1>6. s \in Seq(Move) /\ z \in Seq(Move)
  BY <1>2, <1>5
<1>7. /\ t \in Seq(Move) /\ Len(t) = Len(s) + Len(z)
      /\ \A i \in 1..Len(s) : t[i] = s[i]
      /\ \A i \in 1..Len(z) : t[Len(s) + i] = z[i]
  BY <1>6, JoinIs
<1> HIDE DEF t
<1>8. Len(SaveXML) = 10
  BY SaveXMLIs
<1>9. Len(s) = 16 /\ (\A i \in 1..6 : s[i] = y[i]) /\ \A i \in 1..10 : s[6 + i] = SaveXML[i]
  BY <1>2, <1>5, <1>8
<1>10. Len(t) = 17 /\ \A i \in 1..6 : t[i] = y[i]
  BY <1>2, <1>7, <1>9
<1>11. t[17] = b
  <2>1. 1 \in 1..Len(z) /\ 16 + 1 = 17
    BY <1>2
  <2>2. t[16 + 1] = z[1]
    BY <1>7, <1>9, <2>1
  <2> QED BY <1>2, <2>1, <2>2
<1>12. \A i \in 1..10 : t[6 + i] = SaveXML[i]
  <2>1. \A i \in 1..10 : 6 + i \in 1..16
    OBVIOUS
  <2> QED BY <1>7, <1>9, <2>1
<1>13. t[1] = a1 /\ t[2] = a2 /\ t[3] = a3 /\ t[4] = a4 /\ t[5] = a5 /\ t[6] = a6
  BY <1>2, <1>10
<1> QED BY <1>3, <1>7, <1>10, <1>11, <1>12, <1>13 DEF s, t, a1, a2, a3, a4, a5, a6, b

-----------------------------------------------------------------------------
(* The calls, step by step *)

\* and one by one.
LEMMA SaveXMLSteps ==
  /\ SaveXML \in Seq(Move) /\ Len(SaveXML) = 10
  /\ SaveXML[1] = Lock("satpi") /\ SaveXML[2] = Do("readWeb") /\ SaveXML[3] = Lock("base")
  /\ SaveXML[4] = Lock("ssdp") /\ SaveXML[5] = Do("readBoot") /\ SaveXML[6] = Unlock("ssdp")
  /\ SaveXML[7] = Unlock("base") /\ SaveXML[8] = Unlock("satpi") /\ SaveXML[9] = Do("open")
  /\ SaveXML[10] = Do("write")
<1>1. \A i \in 1..8 : SaveXML[i] = AddToXML[i]
  BY SaveXMLIs
<1>2. /\ SaveXML[1] = AddToXML[1] /\ SaveXML[2] = AddToXML[2] /\ SaveXML[3] = AddToXML[3]
      /\ SaveXML[4] = AddToXML[4] /\ SaveXML[5] = AddToXML[5] /\ SaveXML[6] = AddToXML[6]
      /\ SaveXML[7] = AddToXML[7] /\ SaveXML[8] = AddToXML[8]
  BY <1>1
<1> QED BY <1>2, SaveXMLIs, AddToXMLIs

LEMMA FirstBootSteps ==
  /\ FirstBoot \in Seq(Move) /\ Len(FirstBoot) = 11
  /\ FirstBoot[1] = Do("setBoot") /\ FirstBoot[2] = Lock("satpi") /\ FirstBoot[3] = Do("readWeb")
  /\ FirstBoot[4] = Lock("base") /\ FirstBoot[5] = Lock("ssdp") /\ FirstBoot[6] = Do("readBoot")
  /\ FirstBoot[7] = Unlock("ssdp") /\ FirstBoot[8] = Unlock("base")
  /\ FirstBoot[9] = Unlock("satpi")
  /\ FirstBoot[10] = Do("open") /\ FirstBoot[11] = Do("write")
<1>1. /\ FirstBoot[1 + 1] = SaveXML[1] /\ 1 + 1 = 2
      /\ FirstBoot[1 + 2] = SaveXML[2] /\ 1 + 2 = 3
      /\ FirstBoot[1 + 3] = SaveXML[3] /\ 1 + 3 = 4
      /\ FirstBoot[1 + 4] = SaveXML[4] /\ 1 + 4 = 5
      /\ FirstBoot[1 + 5] = SaveXML[5] /\ 1 + 5 = 6
      /\ FirstBoot[1 + 6] = SaveXML[6] /\ 1 + 6 = 7
      /\ FirstBoot[1 + 7] = SaveXML[7] /\ 1 + 7 = 8
      /\ FirstBoot[1 + 8] = SaveXML[8] /\ 1 + 8 = 9
      /\ FirstBoot[1 + 9] = SaveXML[9] /\ 1 + 9 = 10
      /\ FirstBoot[1 + 10] = SaveXML[10] /\ 1 + 10 = 11
  BY FirstBootIs
<1> QED BY <1>1, FirstBootIs, SaveXMLSteps

LEMMA NextBootSteps ==
  /\ NextBoot \in Seq(Move) /\ Len(NextBoot) = 13
  /\ NextBoot[1] = Lock("ssdp") /\ NextBoot[2] = Do("setBoot") /\ NextBoot[3] = Lock("satpi")
  /\ NextBoot[4] = Do("readWeb") /\ NextBoot[5] = Lock("base") /\ NextBoot[6] = Lock("ssdp")
  /\ NextBoot[7] = Do("readBoot") /\ NextBoot[8] = Unlock("ssdp") /\ NextBoot[9] = Unlock("base")
  /\ NextBoot[10] = Unlock("satpi") /\ NextBoot[11] = Do("open") /\ NextBoot[12] = Do("write")
  /\ NextBoot[13] = Unlock("ssdp")
<1>1. /\ NextBoot[1 + 1] = FirstBoot[1] /\ 1 + 1 = 2
      /\ NextBoot[1 + 2] = FirstBoot[2] /\ 1 + 2 = 3
      /\ NextBoot[1 + 3] = FirstBoot[3] /\ 1 + 3 = 4
      /\ NextBoot[1 + 4] = FirstBoot[4] /\ 1 + 4 = 5
      /\ NextBoot[1 + 5] = FirstBoot[5] /\ 1 + 5 = 6
      /\ NextBoot[1 + 6] = FirstBoot[6] /\ 1 + 6 = 7
      /\ NextBoot[1 + 7] = FirstBoot[7] /\ 1 + 7 = 8
      /\ NextBoot[1 + 8] = FirstBoot[8] /\ 1 + 8 = 9
      /\ NextBoot[1 + 9] = FirstBoot[9] /\ 1 + 9 = 10
      /\ NextBoot[1 + 10] = FirstBoot[10] /\ 1 + 10 = 11
      /\ NextBoot[1 + 11] = FirstBoot[11] /\ 1 + 11 = 12
  BY NextBootIs
<1> QED BY <1>1, NextBootIs, FirstBootSteps

LEMMA FromXMLSteps ==
  /\ FromXML \in Seq(Move) /\ Len(FromXML) = 17
  /\ FromXML[1] = Lock("satpi") /\ FromXML[2] = Do("setWeb") /\ FromXML[3] = Lock("base")
  /\ FromXML[4] = Lock("ssdp") /\ FromXML[5] = Unlock("ssdp") /\ FromXML[6] = Unlock("base")
  /\ FromXML[7] = Lock("satpi") /\ FromXML[8] = Do("readWeb") /\ FromXML[9] = Lock("base")
  /\ FromXML[10] = Lock("ssdp") /\ FromXML[11] = Do("readBoot") /\ FromXML[12] = Unlock("ssdp")
  /\ FromXML[13] = Unlock("base") /\ FromXML[14] = Unlock("satpi") /\ FromXML[15] = Do("open")
  /\ FromXML[16] = Do("write") /\ FromXML[17] = Unlock("satpi")
<1>1. /\ FromXML[6 + 1] = SaveXML[1] /\ 6 + 1 = 7
      /\ FromXML[6 + 2] = SaveXML[2] /\ 6 + 2 = 8
      /\ FromXML[6 + 3] = SaveXML[3] /\ 6 + 3 = 9
      /\ FromXML[6 + 4] = SaveXML[4] /\ 6 + 4 = 10
      /\ FromXML[6 + 5] = SaveXML[5] /\ 6 + 5 = 11
      /\ FromXML[6 + 6] = SaveXML[6] /\ 6 + 6 = 12
      /\ FromXML[6 + 7] = SaveXML[7] /\ 6 + 7 = 13
      /\ FromXML[6 + 8] = SaveXML[8] /\ 6 + 8 = 14
      /\ FromXML[6 + 9] = SaveXML[9] /\ 6 + 9 = 15
      /\ FromXML[6 + 10] = SaveXML[10] /\ 6 + 10 = 16
  BY FromXMLIs
<1> QED BY <1>1, FromXMLIs, SaveXMLSteps

\* A thread does one call at a time.
LEMMA CallsDiffer ==
  /\ NoCode # FromXML /\ NoCode # AddToXML /\ NoCode # FirstBoot /\ NoCode # NextBoot
  /\ FromXML # AddToXML /\ FromXML # FirstBoot /\ FromXML # NextBoot
  /\ AddToXML # FirstBoot /\ AddToXML # NextBoot /\ FirstBoot # NextBoot
<1>1. /\ Len(NoCode) = 0 /\ Len(FromXML) = 17 /\ Len(AddToXML) = 8 /\ Len(FirstBoot) = 11
      /\ Len(NextBoot) = 13
  BY FromXMLIs, AddToXMLIs, FirstBootIs, NextBootIs DEF NoCode
<1>2. 0 # 17 /\ 0 # 8 /\ 0 # 11 /\ 0 # 13 /\ 17 # 8 /\ 17 # 11 /\ 17 # 13 /\ 8 # 11 /\ 8 # 13 /\ 11 # 13
  OBVIOUS
<1> QED BY <1>1, <1>2, Zenon

Calls == {FromXML, AddToXML, FirstBoot, NextBoot}

\* Where a call does what; the other steps take and free locks.
Place(c, i, from, add, first, next) ==
  \/ (c = FromXML /\ i = from) \/ (c = AddToXML /\ i = add)
  \/ (c = FirstBoot /\ i = first) \/ (c = NextBoot /\ i = next)

Doing(c, i) ==
  /\ c[i].op = "setWeb" <=> Place(c, i, 2, 0, 0, 0)
  /\ c[i].op = "setBoot" <=> Place(c, i, 0, 0, 1, 2)
  /\ c[i].op = "readWeb" <=> Place(c, i, 8, 2, 3, 4)
  /\ c[i].op = "readBoot" <=> Place(c, i, 11, 5, 6, 7)
  /\ c[i].op = "open" <=> Place(c, i, 15, 0, 10, 11)
  /\ c[i].op = "write" <=> Place(c, i, 16, 0, 11, 12)

\* What the locks are that a thread has after the step.
Holding(c, i, m) ==
  /\ HeldAt(c, i, m) \in Nat
  /\ c[i].op = "lock" /\ c[i].arg = m => HeldAt(c, i + 1, m) = HeldAt(c, i, m) + 1
  /\ c[i].op = "unlock" /\ c[i].arg = m =>
       HeldAt(c, i, m) > 0 /\ HeldAt(c, i + 1, m) = HeldAt(c, i, m) - 1
  /\ c[i].op \notin {"lock", "unlock"} \/ c[i].arg # m => HeldAt(c, i + 1, m) = HeldAt(c, i, m)

\* At each move of fromXML(): what it does, and which locks it holds.
LEMMA FromXMLDoes ==
  ASSUME NEW i \in 1..17
  PROVE  Doing(FromXML, i) /\ \A m \in {"satpi", "ssdp"} : Holding(FromXML, i, m)
<1>1. PICK d : d = FromXML
  OBVIOUS
<1>2. \A j \in Int : /\ HeldAt(d, j, "satpi") = Times(j, 2, 17) + Times(j, 8, 14)
                     /\ HeldAt(d, j, "ssdp") = Times(j, 5, 5) + Times(j, 11, 12)
  BY <1>1, CallsDiffer DEF HeldAt
<1>3. \A from, add, first, next : Place(d, i, from, add, first, next) <=> i = from
  BY <1>1, CallsDiffer DEF Place
<1>11. CASE i = 1
  <2>1. d[i].op = "lock" /\ d[i].arg = "satpi"
    BY <1>1, <1>11, FromXMLSteps DEF Lock
  <2>2. Doing(d, i)
    BY <1>3, <1>11, <2>1 DEF Doing
  <2>3. \A m \in {"satpi", "ssdp"} : Holding(d, i, m)
    BY <1>2, <1>11, <2>1 DEF Holding, Times
  <2> QED BY <1>1, <2>2, <2>3
<1>12. CASE i = 2
  <2>1. d[i].op = "setWeb" /\ d[i].arg = "satpi"
    BY <1>1, <1>12, FromXMLSteps DEF Do
  <2>2. Doing(d, i)
    BY <1>3, <1>12, <2>1 DEF Doing
  <2>3. \A m \in {"satpi", "ssdp"} : Holding(d, i, m)
    BY <1>2, <1>12, <2>1 DEF Holding, Times
  <2> QED BY <1>1, <2>2, <2>3
<1>13. CASE i = 3
  <2>1. d[i].op = "lock" /\ d[i].arg = "base"
    BY <1>1, <1>13, FromXMLSteps DEF Lock
  <2>2. Doing(d, i)
    BY <1>3, <1>13, <2>1 DEF Doing
  <2>3. \A m \in {"satpi", "ssdp"} : Holding(d, i, m)
    BY <1>2, <1>13, <2>1 DEF Holding, Times
  <2> QED BY <1>1, <2>2, <2>3
<1>14. CASE i = 4
  <2>1. d[i].op = "lock" /\ d[i].arg = "ssdp"
    BY <1>1, <1>14, FromXMLSteps DEF Lock
  <2>2. Doing(d, i)
    BY <1>3, <1>14, <2>1 DEF Doing
  <2>3. \A m \in {"satpi", "ssdp"} : Holding(d, i, m)
    BY <1>2, <1>14, <2>1 DEF Holding, Times
  <2> QED BY <1>1, <2>2, <2>3
<1>15. CASE i = 5
  <2>1. d[i].op = "unlock" /\ d[i].arg = "ssdp"
    BY <1>1, <1>15, FromXMLSteps DEF Unlock
  <2>2. Doing(d, i)
    BY <1>3, <1>15, <2>1 DEF Doing
  <2>3. \A m \in {"satpi", "ssdp"} : Holding(d, i, m)
    BY <1>2, <1>15, <2>1 DEF Holding, Times
  <2> QED BY <1>1, <2>2, <2>3
<1>16. CASE i = 6
  <2>1. d[i].op = "unlock" /\ d[i].arg = "base"
    BY <1>1, <1>16, FromXMLSteps DEF Unlock
  <2>2. Doing(d, i)
    BY <1>3, <1>16, <2>1 DEF Doing
  <2>3. \A m \in {"satpi", "ssdp"} : Holding(d, i, m)
    BY <1>2, <1>16, <2>1 DEF Holding, Times
  <2> QED BY <1>1, <2>2, <2>3
<1>17. CASE i = 7
  <2>1. d[i].op = "lock" /\ d[i].arg = "satpi"
    BY <1>1, <1>17, FromXMLSteps DEF Lock
  <2>2. Doing(d, i)
    BY <1>3, <1>17, <2>1 DEF Doing
  <2>3. \A m \in {"satpi", "ssdp"} : Holding(d, i, m)
    BY <1>2, <1>17, <2>1 DEF Holding, Times
  <2> QED BY <1>1, <2>2, <2>3
<1>18. CASE i = 8
  <2>1. d[i].op = "readWeb" /\ d[i].arg = "satpi"
    BY <1>1, <1>18, FromXMLSteps DEF Do
  <2>2. Doing(d, i)
    BY <1>3, <1>18, <2>1 DEF Doing
  <2>3. \A m \in {"satpi", "ssdp"} : Holding(d, i, m)
    BY <1>2, <1>18, <2>1 DEF Holding, Times
  <2> QED BY <1>1, <2>2, <2>3
<1>19. CASE i = 9
  <2>1. d[i].op = "lock" /\ d[i].arg = "base"
    BY <1>1, <1>19, FromXMLSteps DEF Lock
  <2>2. Doing(d, i)
    BY <1>3, <1>19, <2>1 DEF Doing
  <2>3. \A m \in {"satpi", "ssdp"} : Holding(d, i, m)
    BY <1>2, <1>19, <2>1 DEF Holding, Times
  <2> QED BY <1>1, <2>2, <2>3
<1>20. CASE i = 10
  <2>1. d[i].op = "lock" /\ d[i].arg = "ssdp"
    BY <1>1, <1>20, FromXMLSteps DEF Lock
  <2>2. Doing(d, i)
    BY <1>3, <1>20, <2>1 DEF Doing
  <2>3. \A m \in {"satpi", "ssdp"} : Holding(d, i, m)
    BY <1>2, <1>20, <2>1 DEF Holding, Times
  <2> QED BY <1>1, <2>2, <2>3
<1>21. CASE i = 11
  <2>1. d[i].op = "readBoot" /\ d[i].arg = "satpi"
    BY <1>1, <1>21, FromXMLSteps DEF Do
  <2>2. Doing(d, i)
    BY <1>3, <1>21, <2>1 DEF Doing
  <2>3. \A m \in {"satpi", "ssdp"} : Holding(d, i, m)
    BY <1>2, <1>21, <2>1 DEF Holding, Times
  <2> QED BY <1>1, <2>2, <2>3
<1>22. CASE i = 12
  <2>1. d[i].op = "unlock" /\ d[i].arg = "ssdp"
    BY <1>1, <1>22, FromXMLSteps DEF Unlock
  <2>2. Doing(d, i)
    BY <1>3, <1>22, <2>1 DEF Doing
  <2>3. \A m \in {"satpi", "ssdp"} : Holding(d, i, m)
    BY <1>2, <1>22, <2>1 DEF Holding, Times
  <2> QED BY <1>1, <2>2, <2>3
<1>23. CASE i = 13
  <2>1. d[i].op = "unlock" /\ d[i].arg = "base"
    BY <1>1, <1>23, FromXMLSteps DEF Unlock
  <2>2. Doing(d, i)
    BY <1>3, <1>23, <2>1 DEF Doing
  <2>3. \A m \in {"satpi", "ssdp"} : Holding(d, i, m)
    BY <1>2, <1>23, <2>1 DEF Holding, Times
  <2> QED BY <1>1, <2>2, <2>3
<1>24. CASE i = 14
  <2>1. d[i].op = "unlock" /\ d[i].arg = "satpi"
    BY <1>1, <1>24, FromXMLSteps DEF Unlock
  <2>2. Doing(d, i)
    BY <1>3, <1>24, <2>1 DEF Doing
  <2>3. \A m \in {"satpi", "ssdp"} : Holding(d, i, m)
    BY <1>2, <1>24, <2>1 DEF Holding, Times
  <2> QED BY <1>1, <2>2, <2>3
<1>25. CASE i = 15
  <2>1. d[i].op = "open" /\ d[i].arg = "satpi"
    BY <1>1, <1>25, FromXMLSteps DEF Do
  <2>2. Doing(d, i)
    BY <1>3, <1>25, <2>1 DEF Doing
  <2>3. \A m \in {"satpi", "ssdp"} : Holding(d, i, m)
    BY <1>2, <1>25, <2>1 DEF Holding, Times
  <2> QED BY <1>1, <2>2, <2>3
<1>26. CASE i = 16
  <2>1. d[i].op = "write" /\ d[i].arg = "satpi"
    BY <1>1, <1>26, FromXMLSteps DEF Do
  <2>2. Doing(d, i)
    BY <1>3, <1>26, <2>1 DEF Doing
  <2>3. \A m \in {"satpi", "ssdp"} : Holding(d, i, m)
    BY <1>2, <1>26, <2>1 DEF Holding, Times
  <2> QED BY <1>1, <2>2, <2>3
<1>27. CASE i = 17
  <2>1. d[i].op = "unlock" /\ d[i].arg = "satpi"
    BY <1>1, <1>27, FromXMLSteps DEF Unlock
  <2>2. Doing(d, i)
    BY <1>3, <1>27, <2>1 DEF Doing
  <2>3. \A m \in {"satpi", "ssdp"} : Holding(d, i, m)
    BY <1>2, <1>27, <2>1 DEF Holding, Times
  <2> QED BY <1>1, <2>2, <2>3
<1> QED
  <2>1. i = 1 \/ i = 2 \/ i = 3 \/ i = 4 \/ i = 5 \/ i = 6 \/ i = 7 \/ i = 8 \/ i = 9 \/ i = 10 \/ i = 11 \/ i = 12 \/ i = 13 \/ i = 14 \/ i = 15 \/ i = 16 \/ i = 17
    OBVIOUS
  <2> QED BY <2>1, <1>11, <1>12, <1>13, <1>14, <1>15, <1>16, <1>17, <1>18, <1>19, <1>20, <1>21, <1>22, <1>23, <1>24, <1>25, <1>26, <1>27

\* The same of addToXML(),
LEMMA AddToXMLDoes ==
  ASSUME NEW i \in 1..8
  PROVE  Doing(AddToXML, i) /\ \A m \in {"satpi", "ssdp"} : Holding(AddToXML, i, m)
<1>1. PICK d : d = AddToXML
  OBVIOUS
<1>2. \A j \in Int : /\ HeldAt(d, j, "satpi") = Times(j, 2, 8)
                     /\ HeldAt(d, j, "ssdp") = Times(j, 5, 6)
  BY <1>1, CallsDiffer DEF HeldAt
<1>3. \A from, add, first, next : Place(d, i, from, add, first, next) <=> i = add
  BY <1>1, CallsDiffer DEF Place
<1>11. CASE i = 1
  <2>1. d[i].op = "lock" /\ d[i].arg = "satpi"
    BY <1>1, <1>11, AddToXMLIs DEF Lock
  <2>2. Doing(d, i)
    BY <1>3, <1>11, <2>1 DEF Doing
  <2>3. \A m \in {"satpi", "ssdp"} : Holding(d, i, m)
    BY <1>2, <1>11, <2>1 DEF Holding, Times
  <2> QED BY <1>1, <2>2, <2>3
<1>12. CASE i = 2
  <2>1. d[i].op = "readWeb" /\ d[i].arg = "satpi"
    BY <1>1, <1>12, AddToXMLIs DEF Do
  <2>2. Doing(d, i)
    BY <1>3, <1>12, <2>1 DEF Doing
  <2>3. \A m \in {"satpi", "ssdp"} : Holding(d, i, m)
    BY <1>2, <1>12, <2>1 DEF Holding, Times
  <2> QED BY <1>1, <2>2, <2>3
<1>13. CASE i = 3
  <2>1. d[i].op = "lock" /\ d[i].arg = "base"
    BY <1>1, <1>13, AddToXMLIs DEF Lock
  <2>2. Doing(d, i)
    BY <1>3, <1>13, <2>1 DEF Doing
  <2>3. \A m \in {"satpi", "ssdp"} : Holding(d, i, m)
    BY <1>2, <1>13, <2>1 DEF Holding, Times
  <2> QED BY <1>1, <2>2, <2>3
<1>14. CASE i = 4
  <2>1. d[i].op = "lock" /\ d[i].arg = "ssdp"
    BY <1>1, <1>14, AddToXMLIs DEF Lock
  <2>2. Doing(d, i)
    BY <1>3, <1>14, <2>1 DEF Doing
  <2>3. \A m \in {"satpi", "ssdp"} : Holding(d, i, m)
    BY <1>2, <1>14, <2>1 DEF Holding, Times
  <2> QED BY <1>1, <2>2, <2>3
<1>15. CASE i = 5
  <2>1. d[i].op = "readBoot" /\ d[i].arg = "satpi"
    BY <1>1, <1>15, AddToXMLIs DEF Do
  <2>2. Doing(d, i)
    BY <1>3, <1>15, <2>1 DEF Doing
  <2>3. \A m \in {"satpi", "ssdp"} : Holding(d, i, m)
    BY <1>2, <1>15, <2>1 DEF Holding, Times
  <2> QED BY <1>1, <2>2, <2>3
<1>16. CASE i = 6
  <2>1. d[i].op = "unlock" /\ d[i].arg = "ssdp"
    BY <1>1, <1>16, AddToXMLIs DEF Unlock
  <2>2. Doing(d, i)
    BY <1>3, <1>16, <2>1 DEF Doing
  <2>3. \A m \in {"satpi", "ssdp"} : Holding(d, i, m)
    BY <1>2, <1>16, <2>1 DEF Holding, Times
  <2> QED BY <1>1, <2>2, <2>3
<1>17. CASE i = 7
  <2>1. d[i].op = "unlock" /\ d[i].arg = "base"
    BY <1>1, <1>17, AddToXMLIs DEF Unlock
  <2>2. Doing(d, i)
    BY <1>3, <1>17, <2>1 DEF Doing
  <2>3. \A m \in {"satpi", "ssdp"} : Holding(d, i, m)
    BY <1>2, <1>17, <2>1 DEF Holding, Times
  <2> QED BY <1>1, <2>2, <2>3
<1>18. CASE i = 8
  <2>1. d[i].op = "unlock" /\ d[i].arg = "satpi"
    BY <1>1, <1>18, AddToXMLIs DEF Unlock
  <2>2. Doing(d, i)
    BY <1>3, <1>18, <2>1 DEF Doing
  <2>3. \A m \in {"satpi", "ssdp"} : Holding(d, i, m)
    BY <1>2, <1>18, <2>1 DEF Holding, Times
  <2> QED BY <1>1, <2>2, <2>3
<1> QED
  <2>1. i = 1 \/ i = 2 \/ i = 3 \/ i = 4 \/ i = 5 \/ i = 6 \/ i = 7 \/ i = 8
    OBVIOUS
  <2> QED BY <2>1, <1>11, <1>12, <1>13, <1>14, <1>15, <1>16, <1>17, <1>18

\* of the first save of the boot ID,
LEMMA FirstBootDoes ==
  ASSUME NEW i \in 1..11
  PROVE  Doing(FirstBoot, i) /\ \A m \in {"satpi", "ssdp"} : Holding(FirstBoot, i, m)
<1>1. PICK d : d = FirstBoot
  OBVIOUS
<1>2. \A j \in Int : /\ HeldAt(d, j, "satpi") = Times(j, 3, 9)
                     /\ HeldAt(d, j, "ssdp") = Times(j, 6, 7)
  BY <1>1, CallsDiffer DEF HeldAt
<1>3. \A from, add, first, next : Place(d, i, from, add, first, next) <=> i = first
  BY <1>1, CallsDiffer DEF Place
<1>11. CASE i = 1
  <2>1. d[i].op = "setBoot" /\ d[i].arg = "satpi"
    BY <1>1, <1>11, FirstBootSteps DEF Do
  <2>2. Doing(d, i)
    BY <1>3, <1>11, <2>1 DEF Doing
  <2>3. \A m \in {"satpi", "ssdp"} : Holding(d, i, m)
    BY <1>2, <1>11, <2>1 DEF Holding, Times
  <2> QED BY <1>1, <2>2, <2>3
<1>12. CASE i = 2
  <2>1. d[i].op = "lock" /\ d[i].arg = "satpi"
    BY <1>1, <1>12, FirstBootSteps DEF Lock
  <2>2. Doing(d, i)
    BY <1>3, <1>12, <2>1 DEF Doing
  <2>3. \A m \in {"satpi", "ssdp"} : Holding(d, i, m)
    BY <1>2, <1>12, <2>1 DEF Holding, Times
  <2> QED BY <1>1, <2>2, <2>3
<1>13. CASE i = 3
  <2>1. d[i].op = "readWeb" /\ d[i].arg = "satpi"
    BY <1>1, <1>13, FirstBootSteps DEF Do
  <2>2. Doing(d, i)
    BY <1>3, <1>13, <2>1 DEF Doing
  <2>3. \A m \in {"satpi", "ssdp"} : Holding(d, i, m)
    BY <1>2, <1>13, <2>1 DEF Holding, Times
  <2> QED BY <1>1, <2>2, <2>3
<1>14. CASE i = 4
  <2>1. d[i].op = "lock" /\ d[i].arg = "base"
    BY <1>1, <1>14, FirstBootSteps DEF Lock
  <2>2. Doing(d, i)
    BY <1>3, <1>14, <2>1 DEF Doing
  <2>3. \A m \in {"satpi", "ssdp"} : Holding(d, i, m)
    BY <1>2, <1>14, <2>1 DEF Holding, Times
  <2> QED BY <1>1, <2>2, <2>3
<1>15. CASE i = 5
  <2>1. d[i].op = "lock" /\ d[i].arg = "ssdp"
    BY <1>1, <1>15, FirstBootSteps DEF Lock
  <2>2. Doing(d, i)
    BY <1>3, <1>15, <2>1 DEF Doing
  <2>3. \A m \in {"satpi", "ssdp"} : Holding(d, i, m)
    BY <1>2, <1>15, <2>1 DEF Holding, Times
  <2> QED BY <1>1, <2>2, <2>3
<1>16. CASE i = 6
  <2>1. d[i].op = "readBoot" /\ d[i].arg = "satpi"
    BY <1>1, <1>16, FirstBootSteps DEF Do
  <2>2. Doing(d, i)
    BY <1>3, <1>16, <2>1 DEF Doing
  <2>3. \A m \in {"satpi", "ssdp"} : Holding(d, i, m)
    BY <1>2, <1>16, <2>1 DEF Holding, Times
  <2> QED BY <1>1, <2>2, <2>3
<1>17. CASE i = 7
  <2>1. d[i].op = "unlock" /\ d[i].arg = "ssdp"
    BY <1>1, <1>17, FirstBootSteps DEF Unlock
  <2>2. Doing(d, i)
    BY <1>3, <1>17, <2>1 DEF Doing
  <2>3. \A m \in {"satpi", "ssdp"} : Holding(d, i, m)
    BY <1>2, <1>17, <2>1 DEF Holding, Times
  <2> QED BY <1>1, <2>2, <2>3
<1>18. CASE i = 8
  <2>1. d[i].op = "unlock" /\ d[i].arg = "base"
    BY <1>1, <1>18, FirstBootSteps DEF Unlock
  <2>2. Doing(d, i)
    BY <1>3, <1>18, <2>1 DEF Doing
  <2>3. \A m \in {"satpi", "ssdp"} : Holding(d, i, m)
    BY <1>2, <1>18, <2>1 DEF Holding, Times
  <2> QED BY <1>1, <2>2, <2>3
<1>19. CASE i = 9
  <2>1. d[i].op = "unlock" /\ d[i].arg = "satpi"
    BY <1>1, <1>19, FirstBootSteps DEF Unlock
  <2>2. Doing(d, i)
    BY <1>3, <1>19, <2>1 DEF Doing
  <2>3. \A m \in {"satpi", "ssdp"} : Holding(d, i, m)
    BY <1>2, <1>19, <2>1 DEF Holding, Times
  <2> QED BY <1>1, <2>2, <2>3
<1>20. CASE i = 10
  <2>1. d[i].op = "open" /\ d[i].arg = "satpi"
    BY <1>1, <1>20, FirstBootSteps DEF Do
  <2>2. Doing(d, i)
    BY <1>3, <1>20, <2>1 DEF Doing
  <2>3. \A m \in {"satpi", "ssdp"} : Holding(d, i, m)
    BY <1>2, <1>20, <2>1 DEF Holding, Times
  <2> QED BY <1>1, <2>2, <2>3
<1>21. CASE i = 11
  <2>1. d[i].op = "write" /\ d[i].arg = "satpi"
    BY <1>1, <1>21, FirstBootSteps DEF Do
  <2>2. Doing(d, i)
    BY <1>3, <1>21, <2>1 DEF Doing
  <2>3. \A m \in {"satpi", "ssdp"} : Holding(d, i, m)
    BY <1>2, <1>21, <2>1 DEF Holding, Times
  <2> QED BY <1>1, <2>2, <2>3
<1> QED
  <2>1. i = 1 \/ i = 2 \/ i = 3 \/ i = 4 \/ i = 5 \/ i = 6 \/ i = 7 \/ i = 8 \/ i = 9 \/ i = 10 \/ i = 11
    OBVIOUS
  <2> QED BY <2>1, <1>11, <1>12, <1>13, <1>14, <1>15, <1>16, <1>17, <1>18, <1>19, <1>20, <1>21

\* and of the later ones.
LEMMA NextBootDoes ==
  ASSUME NEW i \in 1..13
  PROVE  Doing(NextBoot, i) /\ \A m \in {"satpi", "ssdp"} : Holding(NextBoot, i, m)
<1>1. PICK d : d = NextBoot
  OBVIOUS
<1>2. \A j \in Int : /\ HeldAt(d, j, "satpi") = Times(j, 4, 10)
                     /\ HeldAt(d, j, "ssdp") = Times(j, 2, 13) + Times(j, 7, 8)
  BY <1>1, CallsDiffer DEF HeldAt
<1>3. \A from, add, first, next : Place(d, i, from, add, first, next) <=> i = next
  BY <1>1, CallsDiffer DEF Place
<1>11. CASE i = 1
  <2>1. d[i].op = "lock" /\ d[i].arg = "ssdp"
    BY <1>1, <1>11, NextBootSteps DEF Lock
  <2>2. Doing(d, i)
    BY <1>3, <1>11, <2>1 DEF Doing
  <2>3. \A m \in {"satpi", "ssdp"} : Holding(d, i, m)
    BY <1>2, <1>11, <2>1 DEF Holding, Times
  <2> QED BY <1>1, <2>2, <2>3
<1>12. CASE i = 2
  <2>1. d[i].op = "setBoot" /\ d[i].arg = "satpi"
    BY <1>1, <1>12, NextBootSteps DEF Do
  <2>2. Doing(d, i)
    BY <1>3, <1>12, <2>1 DEF Doing
  <2>3. \A m \in {"satpi", "ssdp"} : Holding(d, i, m)
    BY <1>2, <1>12, <2>1 DEF Holding, Times
  <2> QED BY <1>1, <2>2, <2>3
<1>13. CASE i = 3
  <2>1. d[i].op = "lock" /\ d[i].arg = "satpi"
    BY <1>1, <1>13, NextBootSteps DEF Lock
  <2>2. Doing(d, i)
    BY <1>3, <1>13, <2>1 DEF Doing
  <2>3. \A m \in {"satpi", "ssdp"} : Holding(d, i, m)
    BY <1>2, <1>13, <2>1 DEF Holding, Times
  <2> QED BY <1>1, <2>2, <2>3
<1>14. CASE i = 4
  <2>1. d[i].op = "readWeb" /\ d[i].arg = "satpi"
    BY <1>1, <1>14, NextBootSteps DEF Do
  <2>2. Doing(d, i)
    BY <1>3, <1>14, <2>1 DEF Doing
  <2>3. \A m \in {"satpi", "ssdp"} : Holding(d, i, m)
    BY <1>2, <1>14, <2>1 DEF Holding, Times
  <2> QED BY <1>1, <2>2, <2>3
<1>15. CASE i = 5
  <2>1. d[i].op = "lock" /\ d[i].arg = "base"
    BY <1>1, <1>15, NextBootSteps DEF Lock
  <2>2. Doing(d, i)
    BY <1>3, <1>15, <2>1 DEF Doing
  <2>3. \A m \in {"satpi", "ssdp"} : Holding(d, i, m)
    BY <1>2, <1>15, <2>1 DEF Holding, Times
  <2> QED BY <1>1, <2>2, <2>3
<1>16. CASE i = 6
  <2>1. d[i].op = "lock" /\ d[i].arg = "ssdp"
    BY <1>1, <1>16, NextBootSteps DEF Lock
  <2>2. Doing(d, i)
    BY <1>3, <1>16, <2>1 DEF Doing
  <2>3. \A m \in {"satpi", "ssdp"} : Holding(d, i, m)
    BY <1>2, <1>16, <2>1 DEF Holding, Times
  <2> QED BY <1>1, <2>2, <2>3
<1>17. CASE i = 7
  <2>1. d[i].op = "readBoot" /\ d[i].arg = "satpi"
    BY <1>1, <1>17, NextBootSteps DEF Do
  <2>2. Doing(d, i)
    BY <1>3, <1>17, <2>1 DEF Doing
  <2>3. \A m \in {"satpi", "ssdp"} : Holding(d, i, m)
    BY <1>2, <1>17, <2>1 DEF Holding, Times
  <2> QED BY <1>1, <2>2, <2>3
<1>18. CASE i = 8
  <2>1. d[i].op = "unlock" /\ d[i].arg = "ssdp"
    BY <1>1, <1>18, NextBootSteps DEF Unlock
  <2>2. Doing(d, i)
    BY <1>3, <1>18, <2>1 DEF Doing
  <2>3. \A m \in {"satpi", "ssdp"} : Holding(d, i, m)
    BY <1>2, <1>18, <2>1 DEF Holding, Times
  <2> QED BY <1>1, <2>2, <2>3
<1>19. CASE i = 9
  <2>1. d[i].op = "unlock" /\ d[i].arg = "base"
    BY <1>1, <1>19, NextBootSteps DEF Unlock
  <2>2. Doing(d, i)
    BY <1>3, <1>19, <2>1 DEF Doing
  <2>3. \A m \in {"satpi", "ssdp"} : Holding(d, i, m)
    BY <1>2, <1>19, <2>1 DEF Holding, Times
  <2> QED BY <1>1, <2>2, <2>3
<1>20. CASE i = 10
  <2>1. d[i].op = "unlock" /\ d[i].arg = "satpi"
    BY <1>1, <1>20, NextBootSteps DEF Unlock
  <2>2. Doing(d, i)
    BY <1>3, <1>20, <2>1 DEF Doing
  <2>3. \A m \in {"satpi", "ssdp"} : Holding(d, i, m)
    BY <1>2, <1>20, <2>1 DEF Holding, Times
  <2> QED BY <1>1, <2>2, <2>3
<1>21. CASE i = 11
  <2>1. d[i].op = "open" /\ d[i].arg = "satpi"
    BY <1>1, <1>21, NextBootSteps DEF Do
  <2>2. Doing(d, i)
    BY <1>3, <1>21, <2>1 DEF Doing
  <2>3. \A m \in {"satpi", "ssdp"} : Holding(d, i, m)
    BY <1>2, <1>21, <2>1 DEF Holding, Times
  <2> QED BY <1>1, <2>2, <2>3
<1>22. CASE i = 12
  <2>1. d[i].op = "write" /\ d[i].arg = "satpi"
    BY <1>1, <1>22, NextBootSteps DEF Do
  <2>2. Doing(d, i)
    BY <1>3, <1>22, <2>1 DEF Doing
  <2>3. \A m \in {"satpi", "ssdp"} : Holding(d, i, m)
    BY <1>2, <1>22, <2>1 DEF Holding, Times
  <2> QED BY <1>1, <2>2, <2>3
<1>23. CASE i = 13
  <2>1. d[i].op = "unlock" /\ d[i].arg = "ssdp"
    BY <1>1, <1>23, NextBootSteps DEF Unlock
  <2>2. Doing(d, i)
    BY <1>3, <1>23, <2>1 DEF Doing
  <2>3. \A m \in {"satpi", "ssdp"} : Holding(d, i, m)
    BY <1>2, <1>23, <2>1 DEF Holding, Times
  <2> QED BY <1>1, <2>2, <2>3
<1> QED
  <2>1. i = 1 \/ i = 2 \/ i = 3 \/ i = 4 \/ i = 5 \/ i = 6 \/ i = 7 \/ i = 8 \/ i = 9 \/ i = 10 \/ i = 11 \/ i = 12 \/ i = 13
    OBVIOUS
  <2> QED BY <2>1, <1>11, <1>12, <1>13, <1>14, <1>15, <1>16, <1>17, <1>18, <1>19, <1>20, <1>21, <1>22, <1>23

-----------------------------------------------------------------------------
(* The locks *)

Shot == [web : Int, boot : Int]

SettledInv ==
  /\ owner \in [Locks -> Threads \cup {"none"}] /\ depth \in [Locks -> Int]
  /\ code \in [Threads -> Calls \cup {NoCode}] /\ pc \in [Threads -> Nat]
  /\ \A t \in Threads : code[t] \in Codes[t] \cup {NoCode} /\ pc[t] \in StepsOf(code[t])
  /\ settings \in Shot /\ view \in [Threads -> Shot]
  /\ timedOut \/ LocksAsHeld
  /\ timedOut \/ unguarded
     \/ DiskFollows(code["http"], pc["http"], code["ssdp"], pc["ssdp"],
                    settings, view["http"], view["ssdp"], stored)

\* Which thread does which call.
LEMMA CodesAre ==
  /\ Codes["http"] = {FromXML, AddToXML} /\ Codes["ssdp"] = {FirstBoot, NextBoot}
  /\ \A t \in Threads : Codes[t] \subseteq Calls
BY DEF Codes, Calls, Threads

\* An element of a sequence.
LEMMA ElementIs ==
  ASSUME NEW S, NEW s \in Seq(S), NEW i \in 1..Len(s)
  PROVE  s[i] \in S
OBVIOUS

\* Every step of every call does what its place says.
LEMMA StepDoes ==
  ASSUME NEW c \in Calls, NEW i \in 1..Len(c)
  PROVE  /\ c[i] \in Move /\ Doing(c, i) /\ Len(c) \in Nat \ {0}
         /\ \A m \in {"satpi", "ssdp"} : Holding(c, i, m)
<1>1. CASE c = FromXML
  <2>1. Len(FromXML) = 17 /\ FromXML \in Seq(Move)
    BY FromXMLIs
  <2>4. c \in Seq(Move) /\ Len(c) = 17
    BY <1>1, <2>1
  <2>2. i \in 1..17
    BY <2>4
  <2>5. c[i] \in Move
    BY <2>4, ElementIs
  <2>6. Len(c) \in Nat \ {0}
    BY <2>4
  <2>3. Doing(FromXML, i) /\ \A m \in {"satpi", "ssdp"} : Holding(FromXML, i, m)
    BY <2>2, FromXMLDoes
  <2> QED BY <1>1, <2>3, <2>5, <2>6
<1>2. CASE c = AddToXML
  <2>1. Len(AddToXML) = 8 /\ AddToXML \in Seq(Move)
    BY AddToXMLIs
  <2>4. c \in Seq(Move) /\ Len(c) = 8
    BY <1>2, <2>1
  <2>2. i \in 1..8
    BY <2>4
  <2>5. c[i] \in Move
    BY <2>4, ElementIs
  <2>6. Len(c) \in Nat \ {0}
    BY <2>4
  <2>3. Doing(AddToXML, i) /\ \A m \in {"satpi", "ssdp"} : Holding(AddToXML, i, m)
    BY <2>2, AddToXMLDoes
  <2> QED BY <1>2, <2>3, <2>5, <2>6
<1>3. CASE c = FirstBoot
  <2>1. Len(FirstBoot) = 11 /\ FirstBoot \in Seq(Move)
    BY FirstBootIs
  <2>4. c \in Seq(Move) /\ Len(c) = 11
    BY <1>3, <2>1
  <2>2. i \in 1..11
    BY <2>4
  <2>5. c[i] \in Move
    BY <2>4, ElementIs
  <2>6. Len(c) \in Nat \ {0}
    BY <2>4
  <2>3. Doing(FirstBoot, i) /\ \A m \in {"satpi", "ssdp"} : Holding(FirstBoot, i, m)
    BY <2>2, FirstBootDoes
  <2> QED BY <1>3, <2>3, <2>5, <2>6
<1>4. CASE c = NextBoot
  <2>1. Len(NextBoot) = 13 /\ NextBoot \in Seq(Move)
    BY NextBootIs
  <2>4. c \in Seq(Move) /\ Len(c) = 13
    BY <1>4, <2>1
  <2>2. i \in 1..13
    BY <2>4
  <2>5. c[i] \in Move
    BY <2>4, ElementIs
  <2>6. Len(c) \in Nat \ {0}
    BY <2>4
  <2>3. Doing(NextBoot, i) /\ \A m \in {"satpi", "ssdp"} : Holding(NextBoot, i, m)
    BY <2>2, NextBootDoes
  <2> QED BY <1>4, <2>3, <2>5, <2>6
<1> QED BY <1>1, <1>2, <1>3, <1>4 DEF Calls

\* Before its first and after its last step a call has no lock.
LEMMA NothingHeld ==
  ASSUME NEW m \in {"satpi", "ssdp"}
  PROVE  /\ HeldAt(NoCode, 0, m) = 0
         /\ \A c \in Calls : HeldAt(c, 1, m) = 0 /\ HeldAt(c, Len(c) + 1, m) = 0
<1>1. HeldAt(NoCode, 0, m) = 0
  BY CallsDiffer DEF HeldAt
<1>2. HeldAt(FromXML, 1, m) = 0 /\ HeldAt(FromXML, 17 + 1, m) = 0
  BY CallsDiffer DEF HeldAt, Times
<1>3. HeldAt(AddToXML, 1, m) = 0 /\ HeldAt(AddToXML, 8 + 1, m) = 0
  BY CallsDiffer DEF HeldAt, Times
<1>4. HeldAt(FirstBoot, 1, m) = 0 /\ HeldAt(FirstBoot, 11 + 1, m) = 0
  BY CallsDiffer DEF HeldAt, Times
<1>5. HeldAt(NextBoot, 1, m) = 0 /\ HeldAt(NextBoot, 13 + 1, m) = 0
  BY CallsDiffer DEF HeldAt, Times
<1>6. Len(FromXML) = 17 /\ Len(AddToXML) = 8 /\ Len(FirstBoot) = 11 /\ Len(NextBoot) = 13
  BY FromXMLIs, AddToXMLIs, FirstBootIs, NextBootIs
<1> QED BY <1>1, <1>2, <1>3, <1>4, <1>5, <1>6, Zenon DEF Calls

\* A thread that is in a call is at one of its steps.
LEMMA BusyIs ==
  ASSUME SettledInv, NEW t \in Threads, Busy(t)
  PROVE  code[t] \in Codes[t] /\ code[t] \in Calls /\ pc[t] \in 1..Len(code[t])
<1>1. code[t] \in Codes[t] \cup {NoCode} /\ pc[t] \in StepsOf(code[t])
  BY Zenon DEF SettledInv
<1>2. code[t] # NoCode
  BY <1>1 DEF StepsOf, Busy
<1> QED BY <1>1, <1>2, CodesAre, Zenon DEF StepsOf

\* A thread goes on to the next step, and the others stay where they are.
LEMMA OnwardIs ==
  ASSUME SettledInv, NEW t \in Threads, Busy(t), Onward(t)
  PROVE  /\ code' \in [Threads -> Calls \cup {NoCode}] /\ pc' \in [Threads -> Nat]
         /\ \A s \in Threads : code'[s] \in Codes[s] \cup {NoCode} /\ pc'[s] \in StepsOf(code'[s])
         /\ \A s \in Threads \ {t} : code'[s] = code[s] /\ pc'[s] = pc[s]
         /\ pc[t] # Len(code[t]) => code'[t] = code[t] /\ pc'[t] = pc[t] + 1
         /\ pc[t] = Len(code[t]) => code'[t] = NoCode /\ pc'[t] = 0
<1>1. /\ code \in [Threads -> Calls \cup {NoCode}] /\ pc \in [Threads -> Nat]
      /\ \A s \in Threads : code[s] \in Codes[s] \cup {NoCode} /\ pc[s] \in StepsOf(code[s])
  BY Zenon DEF SettledInv
<1>2. code[t] \in Codes[t] /\ code[t] \in Calls /\ pc[t] \in 1..Len(code[t])
  BY BusyIs
<1>3. CASE pc[t] = Len(code[t])
  <2>1. pc' = [pc EXCEPT ![t] = 0] /\ code' = [code EXCEPT ![t] = NoCode]
    BY <1>3 DEF Onward
  <2>2. 0 \in StepsOf(NoCode)
    BY DEF StepsOf
  <2> QED BY <1>1, <1>3, <2>1, <2>2
<1>4. CASE pc[t] # Len(code[t])
  <2>1. pc' = [pc EXCEPT ![t] = pc[t] + 1] /\ code' = code
    BY <1>4 DEF Onward
  <2>2. code[t] # NoCode
    BY <1>2, CallsDiffer DEF Calls
  <2>3. Len(code[t]) \in Nat
    BY <1>2, StepDoes
  <2>4. pc[t] + 1 \in 1..Len(code[t]) /\ pc[t] + 1 \in Nat
    BY <1>2, <1>4, <2>3
  <2>5. pc[t] + 1 \in StepsOf(code[t])
    BY <2>2, <2>4 DEF StepsOf
  <2>6. pc'[t] = pc[t] + 1 /\ \A s \in Threads \ {t} : pc'[s] = pc[s]
    BY <1>1, <2>1
  <2>7. pc' \in [Threads -> Nat]
    BY <1>1, <2>1, <2>4
  <2> QED BY <1>1, <1>4, <2>1, <2>5, <2>6, <2>7
<1> QED BY <1>3, <1>4

\* What a thread has after its step.
LEMMA HeldAfter ==
  ASSUME SettledInv, NEW t \in Threads, Busy(t), Onward(t), NEW m \in {"satpi", "ssdp"}
  PROVE  HeldAt(code'[t], pc'[t], m) = HeldAt(code[t], pc[t] + 1, m)
<1>1. code[t] \in Calls /\ pc[t] \in 1..Len(code[t])
  BY BusyIs
<1>2. CASE pc[t] = Len(code[t])
  <2>1. code'[t] = NoCode /\ pc'[t] = 0
    BY <1>2, OnwardIs
  <2>2. HeldAt(NoCode, 0, m) = 0 /\ HeldAt(code[t], Len(code[t]) + 1, m) = 0
    BY <1>1, NothingHeld
  <2> QED BY <1>2, <2>1, <2>2
<1>3. CASE pc[t] # Len(code[t])
  BY <1>3, OnwardIs
<1> QED BY <1>2, <1>3

\* The locks of the step's thread are as it holds them, and those of the other are as they were.
LEMMA LocksStep ==
  ASSUME SettledInv, NEW t \in Threads, ConfigStep(t), ~timedOut'
  PROVE  LocksAsHeld'
<1>1. ~GiveUp(t) /\ timedOut' = timedOut
  BY Zenon DEF ConfigStep, GiveUp, TakeLock, FreeLock, Change, Look, WriteFile
<1>2. Busy(t) /\ Onward(t)
  BY Zenon DEF ConfigStep, TakeLock, GiveUp, Blocked, FreeLock, Change, Look, WriteFile, At
<1>3. LocksAsHeld
  BY <1>1, Zenon DEF SettledInv
<1> DEFINE c == code[t]
           i == pc[t]
           o == c[i]
<1>4. c \in Calls /\ i \in 1..Len(c)
  BY <1>2, BusyIs
<1>5. o \in Move /\ \A m \in {"satpi", "ssdp"} : Holding(c, i, m)
  BY <1>4, StepDoes
<1>6. owner \in [Locks -> Threads \cup {"none"}] /\ depth \in [Locks -> Int]
  BY DEF SettledInv
<1>7. \/ /\ o.op = "lock" /\ owner[o.arg] \in {"none", t}
         /\ owner' = [owner EXCEPT ![o.arg] = t] /\ depth' = [depth EXCEPT ![o.arg] = depth[o.arg] + 1]
      \/ /\ o.op = "unlock"
         /\ owner[o.arg] = t => /\ depth' = [depth EXCEPT ![o.arg] = depth[o.arg] - 1]
                                /\ depth[o.arg] = 1 => owner' = [owner EXCEPT ![o.arg] = "none"]
                                /\ depth[o.arg] # 1 => owner' = owner
         /\ owner[o.arg] # t => UNCHANGED <<owner, depth>>
      \/ o.op \notin {"lock", "unlock"} /\ UNCHANGED <<owner, depth>>
  <2>1. CASE TakeLock(t)
    BY <2>1 DEF TakeLock, At, Blocked, Now, Busy
  <2>2. CASE FreeLock(t)
    BY <2>2 DEF FreeLock, At, Now
  <2>3. CASE Change(t) \/ Look(t) \/ WriteFile(t)
    BY <2>3 DEF Change, Look, WriteFile, At, Now
  <2> QED BY <1>1, <2>1, <2>2, <2>3 DEF ConfigStep
<1>8. ASSUME NEW m \in {"satpi", "ssdp"}
      PROVE  /\ owner'[m] = "none" => depth'[m] = 0
             /\ \A s \in Threads : HeldAt(code'[s], pc'[s], m) = IF owner'[m] = s THEN depth'[m] ELSE 0
  <2> DEFINE h == HeldAt(c, i, m)
             k == HeldAt(c, i + 1, m)
  <2>1. h \in Nat /\ HeldAt(code'[t], pc'[t], m) = k
    BY <1>2, <1>5, HeldAfter DEF Holding
  <2>2. /\ o.op = "lock" /\ o.arg = m => k = h + 1
        /\ o.op = "unlock" /\ o.arg = m => h > 0 /\ k = h - 1
        /\ o.op \notin {"lock", "unlock"} \/ o.arg # m => k = h
    BY <1>5, Zenon DEF Holding
  <2>3. m \in Locks /\ o.arg \in Locks
    BY <1>5 DEF Locks, Move
  <2>4. /\ owner[m] = "none" => depth[m] = 0
        /\ \A s \in Threads : HeldAt(code[s], pc[s], m) = IF owner[m] = s THEN depth[m] ELSE 0
    BY <1>3, Zenon DEF LocksAsHeld
  <2>5. h = IF owner[m] = t THEN depth[m] ELSE 0
    BY <2>4
  <2>6. \A s \in Threads \ {t} : HeldAt(code'[s], pc'[s], m) = IF owner[m] = s THEN depth[m] ELSE 0
    BY <1>2, <2>4, OnwardIs
  <2>7. t # "none" /\ \A s \in Threads : s # "none"
    BY DEF Threads
  <2> HIDE DEF o, h, k, c, i
  <2>8. /\ owner'[m] = "none" => depth'[m] = 0
        /\ k = IF owner'[m] = t THEN depth'[m] ELSE 0
        /\ \A s \in Threads \ {t} : (IF owner[m] = s THEN depth[m] ELSE 0)
                                    = IF owner'[m] = s THEN depth'[m] ELSE 0
    <3>1. CASE o.arg # m \/ o.op \notin {"lock", "unlock"}
      <4>1. owner'[m] = owner[m] /\ depth'[m] = depth[m] /\ k = h
        BY <1>6, <1>7, <2>2, <2>3, <3>1
      <4> QED BY <2>4, <2>5, <4>1
    <3>2. CASE o.arg = m /\ o.op = "lock"
      <4>1. owner[m] \in {"none", t} /\ owner'[m] = t /\ depth'[m] = depth[m] + 1 /\ k = h + 1
        BY <1>6, <1>7, <2>2, <2>3, <3>2
      <4>2. depth[m] \in Int
        BY <1>6, <2>3
      <4> QED BY <2>4, <2>5, <2>7, <4>1, <4>2
    <3>3. CASE o.arg = m /\ o.op = "unlock"
      <4>1. h > 0 /\ k = h - 1
        BY <2>2, <3>3
      <4>2. owner[m] = t /\ h = depth[m]
        BY <2>1, <2>5, <4>1
      <4>3. /\ depth' = [depth EXCEPT ![m] = depth[m] - 1]
            /\ depth[m] = 1 => owner' = [owner EXCEPT ![m] = "none"]
            /\ depth[m] # 1 => owner' = owner
        BY <1>7, <3>3, <4>2
      <4>4. depth'[m] = depth[m] - 1 /\ owner'[m] = IF depth[m] = 1 THEN "none" ELSE t
        BY <1>6, <2>3, <4>2, <4>3
      <4>5. depth[m] \in Int
        BY <1>6, <2>3
      <4> QED BY <2>1, <2>7, <4>1, <4>2, <4>4, <4>5
    <3> QED BY <3>1, <3>2, <3>3
  <2> QED BY <2>1, <2>6, <2>8 DEF k, c, i
<1> QED BY <1>8, Zenon DEF LocksAsHeld

-----------------------------------------------------------------------------
(* The file *)

\* A post and a later save never have the same lock, with what that means for their steps.
Apart(c, i, d, j) ==
  c = FromXML /\ d = NextBoot =>
    ~(i \in 2..17 /\ j \in 4..10) /\ ~((i = 5 \/ i \in 11..12) /\ j \in 2..13)

\* Two calls of which at most one has each lock.
LEMMA ApartIs ==
  ASSUME NEW c, NEW d, NEW i \in Nat, NEW j \in Nat,
         \A m \in {"satpi", "ssdp"} : HeldAt(c, i, m) = 0 \/ HeldAt(d, j, m) = 0
  PROVE  Apart(c, i, d, j)
<1> SUFFICES ASSUME c = FromXML, d = NextBoot
             PROVE  ~(i \in 2..17 /\ j \in 4..10) /\ ~((i = 5 \/ i \in 11..12) /\ j \in 2..13)
  BY DEF Apart
<1>1. /\ HeldAt(c, i, "satpi") = Times(i, 2, 17) + Times(i, 8, 14)
      /\ HeldAt(c, i, "ssdp") = Times(i, 5, 5) + Times(i, 11, 12)
      /\ HeldAt(d, j, "satpi") = Times(j, 4, 10)
      /\ HeldAt(d, j, "ssdp") = Times(j, 2, 13) + Times(j, 7, 8)
  BY CallsDiffer DEF HeldAt
<1>2. HeldAt(c, i, "satpi") = 0 \/ HeldAt(d, j, "satpi") = 0
  OBVIOUS
<1>3. HeldAt(c, i, "ssdp") = 0 \/ HeldAt(d, j, "ssdp") = 0
  OBVIOUS
<1> QED BY <1>1, <1>2, <1>3 DEF Times

Posts == {FromXML, AddToXML}
Boots == {FirstBoot, NextBoot}

\* A step of the post c, from now, v and file to now2, v2 and file2.
PostStep(c, i, d, j, now, now2, v, v2, w, text, text2, o) ==
  /\ c \in Posts /\ i \in 1..Len(c) /\ d \in Boots \cup {NoCode} /\ j \in Nat
  /\ now \in Shot /\ now2 \in Shot /\ v \in Shot /\ v2 \in Shot /\ w \in Shot
  /\ o = c[i].op /\ Doing(c, i)
  /\ DiskFollows(c, i, d, j, now, v, w, text) /\ Apart(c, i + 1, d, j)
  /\ o # "setWeb" => now2 = now
  /\ now2.boot = now.boot
  /\ o \notin {"readWeb", "readBoot"} => v2 = v
  /\ o = "readWeb" => v2.web = now.web
  /\ o = "readBoot" => v2.web = v.web /\ v2.boot = now.boot
  /\ o \notin {"open", "write"} => text2 = text
  /\ o = "open" => text2 = Empty
  /\ o = "write" /\ text = Empty => text2 = v

\* The post does its next move, the save stays where it is.
LEMMA PostGoes ==
  ASSUME NEW c, NEW i, NEW d, NEW j, NEW now, NEW now2, NEW v, NEW v2, NEW w, NEW text, NEW text2,
         NEW o, PostStep(c, i, d, j, now, now2, v, v2, w, text, text2, o)
  PROVE  DiskFollows(c, i + 1, d, j, now2, v2, w, text2)
<1> USE DEF PostStep
<1>1. CASE c = AddToXML
  <2>1. c # FromXML /\ o \notin {"setWeb", "open", "write"}
    BY <1>1, CallsDiffer DEF Doing, Place
  <2>2. now2 = now /\ text2 = text
    BY <2>1
  <2> QED BY <2>1, <2>2 DEF DiskFollows
<1>2. CASE c = FromXML
  <2>1. /\ o = "setWeb" <=> i = 2
        /\ o = "readWeb" <=> i = 8
        /\ o = "readBoot" <=> i = 11
        /\ o = "open" <=> i = 15
        /\ o = "write" <=> i = 16
    BY <1>2, CallsDiffer DEF Doing, Place
  <2>2. i \in 1..17
    BY <1>2, FromXMLIs
  <2>3. d # FirstBoot
    BY <1>2 DEF DiskFollows
  <2>4. ASSUME NEW x \in Shot, NEW y \in Shot, x.web = y.web, x.boot = y.boot
        PROVE  x = y
    BY <2>4 DEF Shot
  <2>5. CASE d = NextBoot
    <3>1. ~(i + 1 \in 2..17 /\ j \in 4..10) /\ ~((i + 1 = 5 \/ i + 1 \in 11..12) /\ j \in 2..13)
      BY <1>2, <2>5 DEF Apart
    <3>2. /\ ~(i \in 5..17 /\ j \in 4..13)
          /\ i \in 3..16 \/ j \in 3..12 \/ text = now
          /\ i \in 9..16 => v.web = now.web
          /\ i \in 12..16 => v.boot = now.boot \/ j \in 3..3
          /\ j \in 5..12 => w.web = now.web \/ i \in 3..4
          /\ j \in 8..12 => w.boot = now.boot
          /\ i \in 16..16 \/ j \in 12..12 => text = Empty
      BY <1>2, <2>5, CallsDiffer DEF DiskFollows
    <3>3. ~(i + 1 \in 5..17 /\ j \in 4..13)
      BY <2>2, <3>1, <3>2
    <3>4. i + 1 \in 3..16 \/ j \in 3..12 \/ text2 = now2
      <4>1. CASE i = 16
        BY <2>1, <2>4, <3>2, <4>1
      <4>2. CASE i # 16
        BY <2>1, <2>2, <3>2, <4>2
      <4> QED BY <4>1, <4>2
    <3>5. i + 1 \in 9..16 => v2.web = now2.web
      BY <2>1, <2>2, <3>2
    <3>6. i + 1 \in 12..16 => v2.boot = now2.boot \/ j \in 3..3
      BY <2>1, <2>2, <3>2
    <3>7. j \in 5..12 => w.web = now2.web \/ i + 1 \in 3..4
      BY <2>1, <2>2, <3>2, <3>3
    <3>8. j \in 8..12 => w.boot = now2.boot
      BY <3>2
    <3>9. i + 1 \in 16..16 \/ j \in 12..12 => text2 = Empty
      BY <2>1, <2>2, <3>2
    <3> QED BY <1>2, <2>5, <3>3, <3>4, <3>5, <3>6, <3>7, <3>8, <3>9, CallsDiffer DEF DiskFollows
  <2>6. CASE d = NoCode
    <3>1. d # NextBoot
      BY <2>6, CallsDiffer
    <3>2. /\ i \in 3..16 \/ text = now
          /\ i \in 9..16 => v.web = now.web
          /\ i \in 12..16 => v.boot = now.boot
          /\ i \in 16..16 => text = Empty
      BY <1>2, <2>3, <3>1 DEF DiskFollows
    <3>3. i + 1 \in 3..16 \/ text2 = now2
      <4>1. CASE i = 16
        BY <2>1, <2>4, <3>2, <4>1
      <4>2. CASE i # 16
        BY <2>1, <2>2, <3>2, <4>2
      <4> QED BY <4>1, <4>2
    <3>4. i + 1 \in 9..16 => v2.web = now2.web
      BY <2>1, <2>2, <3>2
    <3>5. i + 1 \in 12..16 => v2.boot = now2.boot
      BY <2>1, <2>2, <3>2
    <3>6. i + 1 \in 16..16 => text2 = Empty
      BY <2>1, <2>2, <3>2
    <3> QED BY <1>2, <2>3, <3>1, <3>3, <3>4, <3>5, <3>6 DEF DiskFollows
  <2> QED BY <2>3, <2>5, <2>6 DEF Boots
<1> QED BY <1>1, <1>2 DEF Posts

\* A step of the SSDP thread's call d.
BootStep(c, i, d, j, now, now2, v, w, w2, text, text2, o) ==
  /\ c \in Posts \cup {NoCode} /\ i \in Nat /\ d \in Boots /\ j \in 1..Len(d)
  /\ now \in Shot /\ now2 \in Shot /\ v \in Shot /\ w \in Shot /\ w2 \in Shot
  /\ o = d[j].op /\ Doing(d, j)
  /\ DiskFollows(c, i, d, j, now, v, w, text) /\ Apart(c, i, d, j + 1)
  /\ o # "setBoot" => now2 = now
  /\ now2.web = now.web
  /\ o \notin {"readWeb", "readBoot"} => w2 = w
  /\ o = "readWeb" => w2.web = now.web
  /\ o = "readBoot" => w2.web = w.web /\ w2.boot = now.boot
  /\ o \notin {"open", "write"} => text2 = text
  /\ o = "open" => text2 = Empty
  /\ o = "write" /\ text = Empty => text2 = w

\* The save does its next move, the post stays where it is.
LEMMA BootGoes ==
  ASSUME NEW c, NEW i, NEW d, NEW j, NEW now, NEW now2, NEW v, NEW w, NEW w2, NEW text, NEW text2,
         NEW o, BootStep(c, i, d, j, now, now2, v, w, w2, text, text2, o)
  PROVE  DiskFollows(c, i, d, j + 1, now2, v, w2, text2)
<1> USE DEF BootStep
<1>0. ASSUME NEW x \in Shot, NEW y \in Shot, x.web = y.web, x.boot = y.boot
      PROVE  x = y
  BY <1>0 DEF Shot
<1>1. CASE d = FirstBoot
  <2>1. /\ o = "setBoot" <=> j = 1
        /\ o = "readWeb" <=> j = 3
        /\ o = "readBoot" <=> j = 6
        /\ o = "open" <=> j = 10
        /\ o = "write" <=> j = 11
    BY <1>1, CallsDiffer DEF Doing, Place
  <2>2. j \in 1..11
    BY <1>1, FirstBootIs
  <2>3. c # FromXML /\ d # NextBoot
    BY <1>1, CallsDiffer DEF DiskFollows
  <2>4. /\ j \in 2..11 \/ text = now
        /\ j \in 4..11 => w.web = now.web
        /\ j \in 7..11 => w.boot = now.boot
        /\ j \in 11..11 => text = Empty
    BY <1>1, <2>3 DEF DiskFollows
  <2>5. j + 1 \in 2..11 \/ text2 = now2
    <3>1. CASE j = 11
      BY <1>0, <2>1, <2>4, <3>1
    <3>2. CASE j # 11
      BY <2>1, <2>2, <2>4, <3>2
    <3> QED BY <3>1, <3>2
  <2>6. j + 1 \in 4..11 => w2.web = now2.web
    BY <2>1, <2>2, <2>4
  <2>7. j + 1 \in 7..11 => w2.boot = now2.boot
    BY <2>1, <2>2, <2>4
  <2>8. j + 1 \in 11..11 => text2 = Empty
    BY <2>1, <2>2, <2>4
  <2> QED BY <1>1, <2>3, <2>5, <2>6, <2>7, <2>8 DEF DiskFollows
<1>2. CASE d = NextBoot
  <2>1. /\ o = "setBoot" <=> j = 2
        /\ o = "readWeb" <=> j = 4
        /\ o = "readBoot" <=> j = 7
        /\ o = "open" <=> j = 11
        /\ o = "write" <=> j = 12
    BY <1>2, CallsDiffer DEF Doing, Place
  <2>2. j \in 1..13
    BY <1>2, NextBootIs
  <2>3. d # FirstBoot
    BY <1>2, CallsDiffer
  <2>4. CASE c = FromXML
    <3>1. ~(i \in 2..17 /\ j + 1 \in 4..10) /\ ~((i = 5 \/ i \in 11..12) /\ j + 1 \in 2..13)
      BY <1>2, <2>4 DEF Apart
    <3>2. /\ ~(i \in 5..17 /\ j \in 4..13)
          /\ i \in 3..16 \/ j \in 3..12 \/ text = now
          /\ i \in 9..16 => v.web = now.web
          /\ i \in 12..16 => v.boot = now.boot \/ j \in 3..3
          /\ j \in 5..12 => w.web = now.web \/ i \in 3..4
          /\ j \in 8..12 => w.boot = now.boot
          /\ i \in 16..16 \/ j \in 12..12 => text = Empty
      BY <1>2, <2>3, <2>4 DEF DiskFollows
    <3>3. ~(i \in 5..17 /\ j + 1 \in 4..13)
      BY <2>2, <3>1, <3>2
    <3>4. i \in 3..16 \/ j + 1 \in 3..12 \/ text2 = now2
      <4>1. CASE j = 12
        BY <1>0, <2>1, <3>2, <4>1
      <4>2. CASE j # 12
        BY <2>1, <2>2, <3>2, <4>2
      <4> QED BY <4>1, <4>2
    <3>5. i \in 9..16 => v.web = now2.web
      BY <3>2
    <3>6. i \in 12..16 => v.boot = now2.boot \/ j + 1 \in 3..3
      BY <2>1, <2>2, <3>2, <3>3
    <3>7. j + 1 \in 5..12 => w2.web = now2.web \/ i \in 3..4
      BY <2>1, <2>2, <3>2
    <3>8. j + 1 \in 8..12 => w2.boot = now2.boot
      BY <2>1, <2>2, <3>2
    <3>9. i \in 16..16 \/ j + 1 \in 12..12 => text2 = Empty
      BY <2>1, <2>2, <3>2
    <3> QED BY <1>2, <2>3, <2>4, <3>3, <3>4, <3>5, <3>6, <3>7, <3>8, <3>9 DEF DiskFollows
  <2>5. CASE c # FromXML
    <3>2. /\ j \in 3..12 \/ text = now
          /\ j \in 5..12 => w.web = now.web
          /\ j \in 8..12 => w.boot = now.boot
          /\ j \in 12..12 => text = Empty
      BY <1>2, <2>3, <2>5 DEF DiskFollows
    <3>4. j + 1 \in 3..12 \/ text2 = now2
      <4>1. CASE j = 12
        BY <1>0, <2>1, <3>2, <4>1
      <4>2. CASE j # 12
        BY <2>1, <2>2, <3>2, <4>2
      <4> QED BY <4>1, <4>2
    <3>5. j + 1 \in 5..12 => w2.web = now2.web
      BY <2>1, <2>2, <3>2
    <3>6. j + 1 \in 8..12 => w2.boot = now2.boot
      BY <2>1, <2>2, <3>2
    <3>7. j + 1 \in 12..12 => text2 = Empty
      BY <2>1, <2>2, <3>2
    <3> QED BY <1>2, <2>3, <2>5, <3>4, <3>5, <3>6, <3>7 DEF DiskFollows
  <2> QED BY <2>4, <2>5
<1> QED BY <1>1, <1>2 DEF Boots

\* A call that has begun, or whose last step is done, is like none.
LEMMA PostEnds ==
  ASSUME NEW c \in Posts, NEW d, NEW j, NEW now, NEW v, NEW w, NEW text
  PROVE  /\ DiskFollows(c, Len(c) + 1, d, j, now, v, w, text)
              => DiskFollows(NoCode, 0, d, j, now, v, w, text)
         /\ DiskFollows(NoCode, 0, d, j, now, v, w, text) /\ ~(c = FromXML /\ d = FirstBoot)
              => DiskFollows(c, 1, d, j, now, v, w, text)
<1>1. NoCode # FromXML /\ (c = AddToXML => c # FromXML)
  BY CallsDiffer
<1>2. c = FromXML => Len(c) + 1 = 18
  <2>1. Len(FromXML) = 17
    BY FromXMLIs
  <2>2. ASSUME c = FromXML PROVE Len(c) = 17
    BY <2>1, <2>2, Zenon
  <2>3. 17 + 1 = 18
    OBVIOUS
  <2> QED BY <2>2, <2>3, Zenon
<1> QED BY <1>1, <1>2 DEF DiskFollows

\* The save is done.
LEMMA BootEnds ==
  ASSUME NEW d \in Boots, NEW c, NEW i, NEW now, NEW v, NEW w, NEW text
  PROVE  /\ DiskFollows(c, i, d, Len(d) + 1, now, v, w, text)
              => DiskFollows(c, i, NoCode, 0, now, v, w, text)
         /\ DiskFollows(c, i, NoCode, 0, now, v, w, text) /\ ~(c = FromXML /\ d = FirstBoot)
              => DiskFollows(c, i, d, 1, now, v, w, text)
<1>1. NoCode # FirstBoot /\ NoCode # NextBoot /\ FirstBoot # NextBoot
  BY CallsDiffer
<1>2. /\ d = FirstBoot => Len(d) + 1 = 12
      /\ d = NextBoot => Len(d) + 1 = 14
  <2>1. Len(FirstBoot) = 11 /\ Len(NextBoot) = 13
    BY FirstBootIs, NextBootIs
  <2>2. (d = FirstBoot => Len(d) = 11) /\ (d = NextBoot => Len(d) = 13)
    BY <2>1, Zenon
  <2>3. 11 + 1 = 12 /\ 13 + 1 = 14
    OBVIOUS
  <2> QED BY <2>2, <2>3, Zenon
<1>3. CASE d = FirstBoot
  BY <1>1, <1>2, <1>3 DEF DiskFollows
<1>4. CASE d = NextBoot
  BY <1>1, <1>2, <1>4 DEF DiskFollows
<1> QED BY <1>3, <1>4 DEF Boots

-----------------------------------------------------------------------------
(* Every step keeps the invariant *)

\* The invariant holds at first,
LEMMA SettledInit == ASSUME ConfigInit PROVE SettledInv
<1>1. /\ owner \in [Locks -> Threads \cup {"none"}] /\ depth \in [Locks -> Int]
      /\ code \in [Threads -> Calls \cup {NoCode}] /\ pc \in [Threads -> Nat]
  BY DEF ConfigInit
<1>2. \A t \in Threads : code[t] \in Codes[t] \cup {NoCode} /\ pc[t] \in StepsOf(code[t])
  BY DEF ConfigInit, StepsOf
<1>3. settings \in Shot /\ view \in [Threads -> Shot]
  BY DEF ConfigInit, Shot
<1>4. LocksAsHeld
  <2>1. \A m \in {"satpi", "ssdp"}, t \in Threads : HeldAt(code[t], pc[t], m) = 0
    BY NothingHeld DEF ConfigInit
  <2>2. \A m \in {"satpi", "ssdp"} : depth[m] = 0
    BY DEF ConfigInit, Locks
  <2> QED BY <2>1, <2>2 DEF LocksAsHeld
<1>5. DiskFollows(code["http"], pc["http"], code["ssdp"], pc["ssdp"],
                  settings, view["http"], view["ssdp"], stored)
  <2>1. code["http"] = NoCode /\ code["ssdp"] = NoCode /\ stored = settings
    BY DEF ConfigInit, Threads
  <2> QED BY <2>1, CallsDiffer DEF DiskFollows
<1> QED BY <1>1, <1>2, <1>3, <1>4, <1>5, Zenon DEF SettledInv

\* What a step of a thread does to the settings, its text and the file.
LEMMA StepIs ==
  ASSUME SettledInv, NEW t \in Threads, ConfigStep(t), ~timedOut', NEW o, o = Now(t).op
  PROVE  /\ Busy(t) /\ Onward(t) /\ ~timedOut /\ unguarded' = unguarded
         /\ settings' \in Shot /\ view' \in [Threads -> Shot]
         /\ \A s \in Threads \ {t} : view'[s] = view[s]
         /\ o \notin {"setWeb", "setBoot"} => settings' = settings
         /\ o # "setWeb" => settings'.web = settings.web
         /\ o # "setBoot" => settings'.boot = settings.boot
         /\ o \notin {"readWeb", "readBoot"} => view'[t] = view[t]
         /\ o = "readWeb" => view'[t].web = settings.web
         /\ o = "readBoot" => view'[t].web = view[t].web /\ view'[t].boot = settings.boot
         /\ o \notin {"open", "write"} => stored' = stored
         /\ o = "open" => stored' = Empty
         /\ o = "write" /\ stored = Empty => stored' = view[t]
<1>1. settings \in Shot /\ view \in [Threads -> Shot]
  BY DEF SettledInv
<1>2. Busy(t) /\ Onward(t)
  BY Zenon DEF ConfigStep, TakeLock, GiveUp, Blocked, FreeLock, Change, Look, WriteFile, At
<1>3. ~GiveUp(t) /\ timedOut' = timedOut /\ unguarded' = unguarded
  BY Zenon DEF ConfigStep, GiveUp, TakeLock, FreeLock, Change, Look, WriteFile
<1>4. ~timedOut
  BY <1>3
<1>5. CASE TakeLock(t) \/ FreeLock(t)
  <2>1. o \in {"lock", "unlock"} /\ UNCHANGED <<settings, view, stored>>
    BY <1>5 DEF TakeLock, FreeLock, At
  <2> QED BY <1>1, <1>2, <1>3, <1>4, <2>1
<1>6. CASE Change(t)
  <2>1. /\ o \in {"setWeb", "setBoot"} /\ UNCHANGED <<view, stored>>
        /\ o = "setWeb" => settings' = [settings EXCEPT !.web = @ + 1]
        /\ o = "setBoot" => settings' = [settings EXCEPT !.boot = @ + 1]
    BY <1>6 DEF Change, At
  <2>2. /\ settings' \in Shot
        /\ o = "setWeb" => settings'.boot = settings.boot
        /\ o = "setBoot" => settings'.web = settings.web
    BY <1>1, <2>1 DEF Shot
  <2> QED BY <1>1, <1>2, <1>3, <1>4, <2>1, <2>2
<1>7. CASE Look(t)
  <2>1. /\ o \in {"readWeb", "readBoot"} /\ UNCHANGED <<settings, stored>>
        /\ o = "readWeb" => view' = [view EXCEPT ![t] = [view[t] EXCEPT !.web = settings.web]]
        /\ o = "readBoot" => view' = [view EXCEPT ![t] = [view[t] EXCEPT !.boot = settings.boot]]
    BY <1>7 DEF Look, At
  <2>2. /\ [view[t] EXCEPT !.web = settings.web] \in Shot
        /\ [view[t] EXCEPT !.boot = settings.boot] \in Shot
        /\ [view[t] EXCEPT !.web = settings.web].web = settings.web
        /\ [view[t] EXCEPT !.boot = settings.boot].boot = settings.boot
        /\ [view[t] EXCEPT !.boot = settings.boot].web = view[t].web
    BY <1>1 DEF Shot
  <2>3. /\ view' \in [Threads -> Shot]
        /\ \A s \in Threads \ {t} : view'[s] = view[s]
        /\ o = "readWeb" => view'[t].web = settings.web
        /\ o = "readBoot" => view'[t].web = view[t].web /\ view'[t].boot = settings.boot
    BY <1>1, <2>1, <2>2
  <2> QED BY <1>1, <1>2, <1>3, <1>4, <2>1, <2>3
<1>8. CASE WriteFile(t)
  <2>1. /\ o \in {"open", "write"} /\ UNCHANGED <<settings, view>>
        /\ o = "open" => stored' = Empty
        /\ o = "write" /\ stored = Empty => stored' = view[t]
    BY <1>8 DEF WriteFile, At
  <2> QED BY <1>1, <1>2, <1>3, <1>4, <2>1
<1> QED BY <1>3, <1>5, <1>6, <1>7, <1>8 DEF ConfigStep

\* Two threads never have the same lock.
LEMMA NeverBoth ==
  ASSUME SettledInv, LocksAsHeld', NEW t \in Threads, Busy(t), Onward(t)
  PROVE  /\ t = "http" => Apart(code[t], pc[t] + 1, code["ssdp"], pc["ssdp"])
         /\ t = "ssdp" => Apart(code["http"], pc["http"], code[t], pc[t] + 1)
<1>1. "http" \in Threads /\ "ssdp" \in Threads /\ "http" # "ssdp"
  BY DEF Threads
<1>2. \A s \in Threads : pc[s] \in Nat /\ pc[s] + 1 \in Nat
  BY DEF SettledInv
<1>3. \A m \in {"satpi", "ssdp"} : HeldAt(code'["http"], pc'["http"], m) = 0
                                   \/ HeldAt(code'["ssdp"], pc'["ssdp"], m) = 0
  BY <1>1, Zenon DEF LocksAsHeld
<1>4. /\ \A m \in {"satpi", "ssdp"} : HeldAt(code'[t], pc'[t], m) = HeldAt(code[t], pc[t] + 1, m)
      /\ \A s \in Threads \ {t} : code'[s] = code[s] /\ pc'[s] = pc[s]
  BY HeldAfter, OnwardIs
<1>5. CASE t = "http"
  <2>1. \A m \in {"satpi", "ssdp"} : HeldAt(code["http"], pc["http"] + 1, m) = 0
                                     \/ HeldAt(code["ssdp"], pc["ssdp"], m) = 0
    BY <1>1, <1>3, <1>4, <1>5
  <2> QED BY <1>1, <1>2, <1>5, <2>1, ApartIs
<1>6. CASE t = "ssdp"
  <2>1. \A m \in {"satpi", "ssdp"} : HeldAt(code["http"], pc["http"], m) = 0
                                     \/ HeldAt(code["ssdp"], pc["ssdp"] + 1, m) = 0
    BY <1>1, <1>3, <1>4, <1>6
  <2> QED BY <1>1, <1>2, <1>6, <2>1, ApartIs
<1> QED BY <1>5, <1>6

\* the next move of a call keeps it,
LEMMA StepKeeps ==
  ASSUME SettledInv, NEW t \in Threads, ConfigStep(t)
  PROVE  SettledInv'
<1>1. Busy(t) /\ Onward(t)
  BY Zenon DEF ConfigStep, TakeLock, GiveUp, Blocked, FreeLock, Change, Look, WriteFile, At
<1>2. /\ code' \in [Threads -> Calls \cup {NoCode}] /\ pc' \in [Threads -> Nat]
      /\ \A s \in Threads : code'[s] \in Codes[s] \cup {NoCode} /\ pc'[s] \in StepsOf(code'[s])
  BY <1>1, OnwardIs
<1>3. code[t] \in Codes[t] /\ code[t] \in Calls /\ pc[t] \in 1..Len(code[t])
  BY <1>1, BusyIs
<1>4. Now(t) \in Move /\ Doing(code[t], pc[t])
  BY <1>3, StepDoes DEF Now
<1>5. owner' \in [Locks -> Threads \cup {"none"}] /\ depth' \in [Locks -> Int]
  <2>1. owner \in [Locks -> Threads \cup {"none"}] /\ depth \in [Locks -> Int]
    BY DEF SettledInv
  <2>2. Now(t).arg \in Locks
    BY <1>4 DEF Move
  <2>3. CASE TakeLock(t)
    BY <2>1, <2>2, <2>3 DEF TakeLock
  <2>4. CASE FreeLock(t)
    BY <2>1, <2>2, <2>4 DEF FreeLock
  <2>5. CASE GiveUp(t) \/ Change(t) \/ Look(t) \/ WriteFile(t)
    BY <2>1, <2>5 DEF GiveUp, Change, Look, WriteFile
  <2> QED BY <2>3, <2>4, <2>5 DEF ConfigStep
<1>6. CASE timedOut'
  <2>1. settings' \in Shot /\ view' \in [Threads -> Shot]
    <3>1. settings \in Shot /\ view \in [Threads -> Shot]
      BY DEF SettledInv
    <3>2. CASE Change(t)
      BY <3>1, <3>2 DEF Change, Shot
    <3>3. CASE Look(t)
      BY <3>1, <3>3 DEF Look, Shot
    <3>4. CASE TakeLock(t) \/ GiveUp(t) \/ FreeLock(t) \/ WriteFile(t)
      BY <3>1, <3>4 DEF TakeLock, GiveUp, FreeLock, WriteFile
    <3> QED BY <3>2, <3>3, <3>4 DEF ConfigStep
  <2> QED BY <1>2, <1>5, <1>6, <2>1, Zenon DEF SettledInv
<1>7. CASE ~timedOut'
  <2>1. PICK o : o = Now(t).op
    OBVIOUS
  <2>2. /\ ~timedOut /\ unguarded' = unguarded
        /\ settings' \in Shot /\ view' \in [Threads -> Shot]
        /\ \A s \in Threads \ {t} : view'[s] = view[s]
        /\ o \notin {"setWeb", "setBoot"} => settings' = settings
        /\ o # "setWeb" => settings'.web = settings.web
        /\ o # "setBoot" => settings'.boot = settings.boot
        /\ o \notin {"readWeb", "readBoot"} => view'[t] = view[t]
        /\ o = "readWeb" => view'[t].web = settings.web
        /\ o = "readBoot" => view'[t].web = view[t].web /\ view'[t].boot = settings.boot
        /\ o \notin {"open", "write"} => stored' = stored
        /\ o = "open" => stored' = Empty
        /\ o = "write" /\ stored = Empty => stored' = view[t]
    BY <1>7, <2>1, StepIs
  <2>3. LocksAsHeld'
    BY <1>7, LocksStep
  <2>4. CASE unguarded
    BY <1>2, <1>5, <2>2, <2>3, <2>4, Zenon DEF SettledInv
  <2>5. CASE ~unguarded
    <3> DEFINE c == code["http"]
               i == pc["http"]
               d == code["ssdp"]
               j == pc["ssdp"]
    <3>1. DiskFollows(c, i, d, j, settings, view["http"], view["ssdp"], stored)
      BY <2>2, <2>5, Zenon DEF SettledInv
    <3>2. /\ "http" \in Threads /\ "ssdp" \in Threads /\ "http" # "ssdp"
          /\ settings \in Shot /\ view["http"] \in Shot /\ view["ssdp"] \in Shot
          /\ i \in Nat /\ j \in Nat
          /\ c \in Posts \cup {NoCode} /\ d \in Boots \cup {NoCode}
      BY CodesAre DEF Threads, SettledInv, Posts, Boots
    <3>3. view'["http"] \in Shot /\ view'["ssdp"] \in Shot
      BY <2>2, <3>2
    <3>4. DiskFollows(code'["http"], pc'["http"], code'["ssdp"], pc'["ssdp"],
                      settings', view'["http"], view'["ssdp"], stored')
      <4>1. CASE t = "http"
        <5>1. c \in Posts /\ i \in 1..Len(c) /\ o = c[i].op /\ Doing(c, i) /\ Len(c) \in Nat
          BY <1>3, <1>4, <2>1, <4>1, CodesAre, StepDoes DEF Now, Posts
        <5>2. Apart(c, i + 1, d, j)
          BY <1>1, <2>3, <4>1, NeverBoth
        <5>3. o # "setBoot"
          BY <5>1, CallsDiffer DEF Doing, Place, Posts
        <5>4. DiskFollows(c, i + 1, d, j, settings', view'["http"], view["ssdp"], stored')
          <6> HIDE DEF c, i, d, j
          <6>1. o # "setWeb" => settings' = settings
            BY <2>2, <5>3
          <6>2. settings'.boot = settings.boot
            BY <2>2, <5>3
          <6>3. /\ o \notin {"readWeb", "readBoot"} => view'["http"] = view["http"]
                /\ o = "readWeb" => view'["http"].web = settings.web
                /\ o = "readBoot" => view'["http"].web = view["http"].web
                                     /\ view'["http"].boot = settings.boot
                /\ o \notin {"open", "write"} => stored' = stored
                /\ o = "open" => stored' = Empty
                /\ o = "write" /\ stored = Empty => stored' = view["http"]
            BY <2>2, <4>1
          <6>4. PICK n, x, y : n = settings' /\ x = view'["http"] /\ y = stored'
            OBVIOUS
          <6>5. PICK k, u, w, z : k = settings /\ u = view["http"] /\ w = view["ssdp"] /\ z = stored
            OBVIOUS
          <6>6. PICK a, m, b, l : a = c /\ m = i /\ b = d /\ l = j
            OBVIOUS
          <6>7. /\ a \in Posts /\ m \in 1..Len(a) /\ b \in Boots \cup {NoCode} /\ l \in Nat
                /\ k \in Shot /\ n \in Shot /\ u \in Shot /\ x \in Shot /\ w \in Shot
                /\ o = a[m].op /\ Doing(a, m)
                /\ DiskFollows(a, m, b, l, k, u, w, z) /\ Apart(a, m + 1, b, l)
            BY <2>2, <3>1, <3>2, <3>3, <5>1, <5>2, <6>4, <6>5, <6>6
          <6>8. /\ o # "setWeb" => n = k
                /\ n.boot = k.boot
                /\ o \notin {"readWeb", "readBoot"} => x = u
                /\ o = "readWeb" => x.web = k.web
                /\ o = "readBoot" => x.web = u.web /\ x.boot = k.boot
                /\ o \notin {"open", "write"} => y = z
                /\ o = "open" => y = Empty
                /\ o = "write" /\ z = Empty => y = u
            BY <6>1, <6>2, <6>3, <6>4, <6>5
          <6>9. DiskFollows(a, m + 1, b, l, n, x, w, y)
            <7>1. PostStep(a, m, b, l, k, n, u, x, w, z, y, o)
              BY ONLY <6>7, <6>8, Zenon DEF PostStep
            <7> QED BY <7>1, PostGoes
          <6> QED BY <6>4, <6>5, <6>6, <6>9
        <5>5. view'["ssdp"] = view["ssdp"] /\ code'["ssdp"] = d /\ pc'["ssdp"] = j
          BY <1>1, <2>2, <3>2, <4>1, OnwardIs
        <5>6. CASE i = Len(c)
          <6>1. code'["http"] = NoCode /\ pc'["http"] = 0
            BY <1>1, <4>1, <5>6, OnwardIs
          <6> QED BY <5>1, <5>4, <5>5, <5>6, <6>1, PostEnds
        <5>7. CASE i # Len(c)
          <6>1. code'["http"] = c /\ pc'["http"] = i + 1
            BY <1>1, <4>1, <5>7, OnwardIs
          <6> QED BY <5>4, <5>5, <6>1
        <5> QED BY <5>6, <5>7
      <4>2. CASE t = "ssdp"
        <5>1. d \in Boots /\ j \in 1..Len(d) /\ o = d[j].op /\ Doing(d, j) /\ Len(d) \in Nat
          BY <1>3, <1>4, <2>1, <4>2, CodesAre, StepDoes DEF Now, Boots
        <5>2. Apart(c, i, d, j + 1)
          BY <1>1, <2>3, <4>2, NeverBoth
        <5>3. o # "setWeb"
          BY <5>1, CallsDiffer DEF Doing, Place, Boots
        <5>4. DiskFollows(c, i, d, j + 1, settings', view["http"], view'["ssdp"], stored')
          <6> HIDE DEF c, i, d, j
          <6>1. o # "setBoot" => settings' = settings
            BY <2>2, <5>3
          <6>2. settings'.web = settings.web
            BY <2>2, <5>3
          <6>3. /\ o \notin {"readWeb", "readBoot"} => view'["ssdp"] = view["ssdp"]
                /\ o = "readWeb" => view'["ssdp"].web = settings.web
                /\ o = "readBoot" => view'["ssdp"].web = view["ssdp"].web
                                     /\ view'["ssdp"].boot = settings.boot
                /\ o \notin {"open", "write"} => stored' = stored
                /\ o = "open" => stored' = Empty
                /\ o = "write" /\ stored = Empty => stored' = view["ssdp"]
            BY <2>2, <4>2
          <6>4. PICK n, x, y : n = settings' /\ x = view'["ssdp"] /\ y = stored'
            OBVIOUS
          <6>5. PICK k, u, w, z : k = settings /\ u = view["http"] /\ w = view["ssdp"] /\ z = stored
            OBVIOUS
          <6>6. PICK a, m, b, l : a = c /\ m = i /\ b = d /\ l = j
            OBVIOUS
          <6>7. /\ a \in Posts \cup {NoCode} /\ m \in Nat /\ b \in Boots /\ l \in 1..Len(b)
                /\ k \in Shot /\ n \in Shot /\ u \in Shot /\ x \in Shot /\ w \in Shot
                /\ o = b[l].op /\ Doing(b, l)
                /\ DiskFollows(a, m, b, l, k, u, w, z) /\ Apart(a, m, b, l + 1)
            BY <2>2, <3>1, <3>2, <3>3, <5>1, <5>2, <6>4, <6>5, <6>6
          <6>8. /\ o # "setBoot" => n = k
                /\ n.web = k.web
                /\ o \notin {"readWeb", "readBoot"} => x = w
                /\ o = "readWeb" => x.web = k.web
                /\ o = "readBoot" => x.web = w.web /\ x.boot = k.boot
                /\ o \notin {"open", "write"} => y = z
                /\ o = "open" => y = Empty
                /\ o = "write" /\ z = Empty => y = w
            BY <6>1, <6>2, <6>3, <6>4, <6>5
          <6>9. DiskFollows(a, m, b, l + 1, n, u, x, y)
            <7>1. BootStep(a, m, b, l, k, n, u, w, x, z, y, o)
              BY ONLY <6>7, <6>8, Zenon DEF BootStep
            <7> QED BY <7>1, BootGoes
          <6> QED BY <6>4, <6>5, <6>6, <6>9
        <5>5. view'["http"] = view["http"] /\ code'["http"] = c /\ pc'["http"] = i
          BY <1>1, <2>2, <3>2, <4>2, OnwardIs
        <5>6. CASE j = Len(d)
          <6>1. code'["ssdp"] = NoCode /\ pc'["ssdp"] = 0
            BY <1>1, <4>2, <5>6, OnwardIs
          <6> QED BY <5>1, <5>4, <5>5, <5>6, <6>1, BootEnds
        <5>7. CASE j # Len(d)
          <6>1. code'["ssdp"] = d /\ pc'["ssdp"] = j + 1
            BY <1>1, <4>2, <5>7, OnwardIs
          <6> QED BY <5>4, <5>5, <6>1
        <5> QED BY <5>6, <5>7
      <4> QED BY <4>1, <4>2 DEF Threads
    <3> QED BY <1>2, <1>5, <2>2, <2>3, <3>4, Zenon DEF SettledInv
  <2> QED BY <2>4, <2>5
<1> QED BY <1>6, <1>7

\* as does a call that begins,
LEMMA BeginKeeps ==
  ASSUME SettledInv, NEW t \in Threads, Begin(t)
  PROVE  SettledInv'
<1>1. PICK b \in Codes[t] :
        /\ ~Busy(t) /\ code' = [code EXCEPT ![t] = b] /\ pc' = [pc EXCEPT ![t] = 1]
        /\ unguarded' = (unguarded \/ {code'["http"], code'["ssdp"]} = {FromXML, FirstBoot})
        /\ UNCHANGED <<owner, depth, settings, view, stored, timedOut>>
  BY Zenon DEF Begin
<1>2. /\ code \in [Threads -> Calls \cup {NoCode}] /\ pc \in [Threads -> Nat]
      /\ \A s \in Threads : code[s] \in Codes[s] \cup {NoCode} /\ pc[s] \in StepsOf(code[s])
  BY DEF SettledInv
<1>3. b \in Calls /\ Len(b) \in Nat \ {0} /\ b # NoCode
  <2>1. b \in Calls
    BY CodesAre
  <2>2. Len(FromXML) = 17 /\ Len(AddToXML) = 8 /\ Len(FirstBoot) = 11 /\ Len(NextBoot) = 13
    BY FromXMLIs, AddToXMLIs, FirstBootIs, NextBootIs
  <2>3. Len(b) \in Nat \ {0}
    BY <2>1, <2>2 DEF Calls
  <2>4. b # NoCode
    BY <2>1, CallsDiffer, Zenon DEF Calls
  <2> QED BY <2>1, <2>3, <2>4
<1>4. /\ code' \in [Threads -> Calls \cup {NoCode}] /\ pc' \in [Threads -> Nat]
      /\ code'[t] = b /\ pc'[t] = 1
      /\ \A s \in Threads \ {t} : code'[s] = code[s] /\ pc'[s] = pc[s]
  BY <1>1, <1>2, <1>3
<1>5. pc[t] = 0 /\ code[t] = NoCode
  <2>1. pc[t] = 0
    BY <1>1 DEF Busy
  <2>2. code[t] # NoCode => pc[t] # 0
    BY <1>2, <2>1 DEF StepsOf
  <2> QED BY <2>1, <2>2
<1>6. \A s \in Threads : code'[s] \in Codes[s] \cup {NoCode} /\ pc'[s] \in StepsOf(code'[s])
  <2>1. 1 \in StepsOf(b)
    BY <1>3 DEF StepsOf
  <2> QED BY <1>2, <1>4, <2>1
<1>7. timedOut \/ LocksAsHeld'
  <2> SUFFICES ASSUME ~timedOut PROVE LocksAsHeld'
    OBVIOUS
  <2>1. LocksAsHeld
    BY Zenon DEF SettledInv
  <2>2. \A m \in {"satpi", "ssdp"} : HeldAt(b, 1, m) = 0 /\ HeldAt(NoCode, 0, m) = 0
    BY <1>3, NothingHeld
  <2>3. \A m \in {"satpi", "ssdp"}, s \in Threads :
          HeldAt(code'[s], pc'[s], m) = HeldAt(code[s], pc[s], m)
    BY <1>4, <1>5, <2>2
  <2> QED BY <1>1, <2>1, <2>3 DEF LocksAsHeld
<1>8. ASSUME ~timedOut, ~unguarded'
      PROVE  DiskFollows(code["http"], pc["http"], code["ssdp"], pc["ssdp"],
                         settings, view["http"], view["ssdp"], stored)'
  <2>1. ~unguarded /\ {code'["http"], code'["ssdp"]} # {FromXML, FirstBoot}
    <3>1. unguarded \/ {code'["http"], code'["ssdp"]} = {FromXML, FirstBoot} => unguarded'
      BY <1>1, Zenon
    <3> QED BY <1>8, <3>1, Zenon
  <2>2. ~(code'["http"] = FromXML /\ code'["ssdp"] = FirstBoot)
    BY <2>1
  <2>3. DiskFollows(code["http"], pc["http"], code["ssdp"], pc["ssdp"],
                    settings, view["http"], view["ssdp"], stored)
    BY <1>8, <2>1, Zenon DEF SettledInv
  <2>4. "http" \in Threads /\ "ssdp" \in Threads /\ "http" # "ssdp"
    BY DEF Threads
  <2>5. CASE t = "http"
    <3>1. b \in Posts
      BY <2>5, CodesAre DEF Posts
    <3>2. code'["http"] = b /\ pc'["http"] = 1 /\ code'["ssdp"] = code["ssdp"]
          /\ pc'["ssdp"] = pc["ssdp"] /\ code["http"] = NoCode /\ pc["http"] = 0
      BY <1>4, <1>5, <2>4, <2>5
    <3> QED BY <1>1, <2>2, <2>3, <3>1, <3>2, PostEnds
  <2>6. CASE t = "ssdp"
    <3>1. b \in Boots
      BY <2>6, CodesAre DEF Boots
    <3>2. code'["ssdp"] = b /\ pc'["ssdp"] = 1 /\ code'["http"] = code["http"]
          /\ pc'["http"] = pc["http"] /\ code["ssdp"] = NoCode /\ pc["ssdp"] = 0
      BY <1>4, <1>5, <2>4, <2>6
    <3> QED BY <1>1, <2>2, <2>3, <3>1, <3>2, BootEnds
  <2> QED BY <2>5, <2>6 DEF Threads
<1> QED BY <1>1, <1>4, <1>6, <1>7, <1>8, Zenon DEF SettledInv

\* thus every step.
LEMMA SettledStep ==
  ASSUME SettledInv, [ConfigNext]_configVars PROVE SettledInv'
<1>1. ASSUME NEW t \in Threads, Begin(t) PROVE SettledInv'
  BY <1>1, BeginKeeps
<1>2. ASSUME NEW t \in Threads, ConfigStep(t) PROVE SettledInv'
  BY <1>2, StepKeeps
<1>3. CASE UNCHANGED configVars
  BY <1>3, ZenonT(60) DEF configVars, SettledInv, LocksAsHeld, DiskFollows
<1> QED BY <1>1, <1>2, <1>3, Zenon DEF ConfigNext

\* The invariant says what the property says.
LEMMA SettledIsOnDisk == ASSUME SettledInv PROVE SettingsOnDisk
<1> SUFFICES ASSUME \A t \in Threads : ~Busy(t), ~timedOut, ~unguarded
             PROVE  stored = settings
  BY Zenon DEF SettingsOnDisk
<1>1. pc["http"] = 0 /\ pc["ssdp"] = 0
  BY DEF Busy, Threads
<1>2. DiskFollows(code["http"], pc["http"], code["ssdp"], pc["ssdp"],
                  settings, view["http"], view["ssdp"], stored)
  BY Zenon DEF SettledInv
<1> QED BY <1>1, <1>2 DEF DiskFollows

\* However the posts of the web server's thread and the saves of the SSDP server's interleave
\* (SatPI::fromXML(), addToXML(), saveXML(), incrementBootID()): when both are done SatPI.xml has
\* the settings that are in memory, unless a MutexLock was given up after 15 seconds, or a
\* post and the first save, which has no lock of its own, overlapped.
THEOREM SettingsAlwaysOnDisk == ConfigSpec => []SettingsOnDisk
<1>1. ConfigInit => SettledInv
  BY SettledInit
<1>2. SettledInv /\ [ConfigNext]_configVars => SettledInv'
  BY SettledStep
<1>3. SettledInv => SettingsOnDisk
  BY SettledIsOnDisk
<1> QED BY <1>1, <1>2, <1>3, PTL DEF ConfigSpec

-----------------------------------------------------------------------------
(* Daemon: what a request uses is there *)

\* Where the members are.
LEMMA MembersAre ==
  /\ Len(Members) = 6
  /\ Members[1] = "interface" /\ Members[2] = "streams" /\ Members[3] = "properties"
  /\ Members[4] = "http" /\ Members[5] = "rtsp" /\ Members[6] = "ssdp"
BY DEF Members

PlaceOf == [http |-> 4, rtsp |-> 5, ssdp |-> 6]

\* The first n members.
LEMMA FirstMembers ==
  ASSUME NEW n \in 0 .. Len(Members)
  PROVE  LET first == {Members[i] : i \in 1 .. n} IN
         /\ \A s \in ServerThreads : s \in first <=> PlaceOf[s] <= n
         /\ "streams" \in first <=> 2 <= n
         /\ "properties" \in first <=> 3 <= n
         /\ \A s \in ServerThreads : n > 0 => (Members[n] = s <=> n = PlaceOf[s])
<1> DEFINE first == {Members[i] : i \in 1 .. n}
<1>1. n \in {0, 1, 2, 3, 4, 5, 6}
  BY MembersAre
<1>2. ASSUME NEW i \in {1, 2, 3, 4, 5, 6} PROVE Members[i] \in first <=> i <= n
  <2>1. ASSUME NEW j \in {1, 2, 3, 4, 5, 6}, Members[i] = Members[j] PROVE i = j
    BY <2>1, MembersAre
  <2> QED BY <1>1, <2>1
<1> QED BY <1>1, <1>2, MembersAre DEF ServerThreads, PlaceOf

\* The invariant holds at first,
LEMMA DaemonInitInv == DaemonInit => DaemonInv
BY MembersAre DEF DaemonInit, DaemonInv, ServerThreads

\* what changes no member keeps it,
LEMMA KeepsInv ==
  ASSUME DaemonInv, UNCHANGED <<alive, threads, using>>, main = "ended" => main' = "ended"
  PROVE  DaemonInv'
BY DEF DaemonInv, Alive

\* and so does every step.
LEMMA DaemonNextInv == DaemonInv /\ [DaemonNext]_daemonVars => DaemonInv'
<1> SUFFICES ASSUME DaemonInv, [DaemonNext]_daemonVars PROVE DaemonInv'
  OBVIOUS
<1>1. ASSUME \/ \E words \in CommandLines, underInit \in BOOLEAN : StartProgram(words, underInit)
             \/ Prepare \/ Fork \/ BecomeDaemon \/ Pause \/ AlarmRings
             \/ EnterLoop \/ LeaveLoop \/ Cancel \/ ReturnFromMain \/ StopPage \/ Signal
             \/ UNCHANGED daemonVars
      PROVE  DaemonInv'
  <2>1. UNCHANGED <<alive, threads, using>>
    BY <1>1 DEF StartProgram, Prepare, Fork, BecomeDaemon, Pause, AlarmRings, EnterLoop, MayEnterLoop,
       LeaveLoop, MayLeaveLoop, Cancel, MayCancel, ReturnFromMain, MayReturn, StopPage, Signal, daemonVars, keepsServers
  <2>2. main = "ended" => main' = "ended"
    BY <1>1 DEF StartProgram, Prepare, Fork, BecomeDaemon, Pause, AlarmRings, EnterLoop, MayEnterLoop,
       LeaveLoop, MayLeaveLoop, Cancel, MayCancel, ReturnFromMain, MayReturn, StopPage, Signal, child_handler, daemonVars
  <2> QED BY <2>1, <2>2, KeepsInv
<1>2. CASE Construct
  <2>1. UNCHANGED <<threads, using>> /\ main = "build" /\ alive = 0 /\ alive' = 6
    BY <1>2, MembersAre DEF Construct, MayConstruct
  <2>2. \A s \in ServerThreads : threads[s] \notin {"idle", "busy"}
    BY <2>1, FirstMembers DEF DaemonInv, Alive, ServerThreads, PlaceOf
  <2> QED BY <2>1, <2>2, MembersAre DEF DaemonInv
<1>3. ASSUME NEW s \in ServerThreads, StartServer(s) PROVE DaemonInv'
  <2>1. /\ alive' = alive /\ main' = main /\ using' = using /\ alive = 6
        /\ threads' = [threads EXCEPT ![s] = "idle"]
    BY <1>3, MembersAre DEF StartServer, MayStartServer
  <2>2. using[s] = {}
    BY <1>3 DEF StartServer, MayStartServer, DaemonInv
  <2>3. \A u \in ServerThreads : u \in Alive /\ Alive' = Alive
    BY <2>1, FirstMembers, MembersAre DEF DaemonInv, Alive, ServerThreads, PlaceOf
  <2> QED BY <2>1, <2>2, <2>3 DEF DaemonInv
<1>4. CASE Destroy
  <2>1. /\ main = "destroy" /\ main' = main /\ UNCHANGED <<threads, using>>
        /\ alive > 0 /\ alive' = alive - 1
        /\ LastMember \in ServerThreads => threads[LastMember] \in {"none", "ended"}
    BY <1>4 DEF Destroy, MayDestroy
  <2>2. alive' \in 0 .. Len(Members)
    BY <2>1, MembersAre DEF DaemonInv
  <2>3. ASSUME NEW s \in ServerThreads, threads[s] \in {"idle", "busy"} PROVE s \in Alive'
    <3>1. s \in Alive /\ LastMember # s
      BY <2>1, <2>3 DEF DaemonInv
    <3>2. PlaceOf[s] <= alive /\ alive # PlaceOf[s]
      BY <2>1, <3>1, FirstMembers DEF DaemonInv, Alive, LastMember
    <3>3. PlaceOf[s] <= alive'
      BY <2>1, <3>2, MembersAre DEF DaemonInv, ServerThreads, PlaceOf
    <3> QED BY <2>2, <3>3, FirstMembers DEF Alive
  <2> QED BY <2>1, <2>2, <2>3 DEF DaemonInv
<1>5. ASSUME NEW s \in ServerThreads, TakeRequest(s) PROVE DaemonInv'
  <2>1. PICK u \in Uses[s] : using' = [using EXCEPT ![s] = u]
    BY <1>5 DEF TakeRequest
  <2>2. UNCHANGED <<alive, main>> /\ threads' = [threads EXCEPT ![s] = "busy"] /\ threads[s] = "idle"
    BY <1>5 DEF TakeRequest
  <2>3. u \subseteq {"properties", "streams", "ssdp"}
    BY <2>1 DEF Uses, ServerThreads
  <2> QED BY <2>1, <2>2, <2>3 DEF DaemonInv, Alive
<1>6. ASSUME NEW s \in ServerThreads, ThreadStep(s) PROVE DaemonInv'
  <2>1. /\ UNCHANGED <<alive, main>> /\ using' = [using EXCEPT ![s] = {}]
        /\ threads[s] \in {"idle", "busy"}
        /\ \E l \in {"idle", "ended"} : threads' = [threads EXCEPT ![s] = l]
    BY <1>6 DEF ThreadStep, MayStep
  <2> QED BY <2>1 DEF DaemonInv, Alive
<1> QED BY <1>1, <1>2, <1>3, <1>4, <1>5, <1>6 DEF DaemonNext, MainStep

\* SatPI and its servers: whatever a request uses exists while it is handled, although the
\* members are destroyed while the server threads still run; the SSDP server of which the
\* settings page reads is the exception that the property names.
THEOREM UsedStaysThere == DaemonSpec => []UsedIsThere
<1>1. DaemonInv => UsedIsThere
  <2> SUFFICES ASSUME DaemonInv, main # "ended", NEW s \in ServerThreads,
                      NEW m \in using[s] \ ({"ssdp"} \ {s})
               PROVE  m \in Alive
    BY DEF UsedIsThere
  <2>1. s \in Alive /\ using[s] \in Uses[s]
    BY DEF DaemonInv
  <2>2. m \in {"properties", "streams"} \/ (m = "ssdp" /\ s = "ssdp")
    BY <2>1 DEF Uses, ServerThreads
  <2>3. alive > 3 /\ alive \in Nat
    BY <2>1, FirstMembers, MembersAre DEF DaemonInv, Alive, ServerThreads, PlaceOf
  <2> QED BY <2>1, <2>2, <2>3, FirstMembers DEF DaemonInv, Alive
<1> QED BY <1>1, DaemonInitInv, DaemonNextInv, PTL DEF DaemonSpec

-----------------------------------------------------------------------------
(* Daemon: nobody waits for what never comes *)

\* The invariant holds at first,
LEMMA StoppingInit == DaemonInit => StoppingInv
BY DEF DaemonInit, StoppingInv

\* and every step keeps it.
LEMMA StoppingNext == StoppingInv /\ [DaemonNext]_daemonVars => StoppingInv'
<1> SUFFICES ASSUME StoppingInv, [DaemonNext]_daemonVars PROVE StoppingInv'
  OBVIOUS
<1>1. ASSUME NEW words, NEW underInit, StartProgram(words, underInit) PROVE StoppingInv'
  <2>1. main = "start" /\ main' \in {"ended", "daemonize", "build"}
    BY <1>1, Zenon DEF StartProgram
  <2>2. UNCHANGED <<alive, handlers, exitApp, exitPage, askedToStop>>
    BY <1>1, Zenon DEF StartProgram, keepsServers, keepsSignals
  <2> QED BY <2>1, <2>2 DEF StoppingInv
<1>2. CASE Prepare
  <2>1. main = "daemonize" /\ main' \in {"daemonize", "ended"}
    BY <1>2 DEF Prepare
  <2>2. UNCHANGED <<alive, exitApp, exitPage, askedToStop>>
    BY <1>2 DEF Prepare, keepsServers
  <2> QED BY <2>1, <2>2 DEF StoppingInv
<1>3. CASE Fork \/ BecomeDaemon
  <2>1. main \in {"daemonize", "child"} /\ main' \in {"child", "build", "ended"}
    BY <1>3 DEF Fork, BecomeDaemon
  <2>2. UNCHANGED <<alive, handlers, exitApp, exitPage, askedToStop>>
    BY <1>3, Zenon DEF Fork, BecomeDaemon, keepsServers, keepsSignals
  <2> QED BY <2>1, <2>2 DEF StoppingInv
<1>4. CASE Pause \/ AlarmRings \/ UNCHANGED daemonVars
  <2>1. UNCHANGED <<main, alive, handlers, exitApp, exitPage, askedToStop>>
    BY <1>4, Zenon DEF Pause, AlarmRings, daemonVars, keepsServers, keepsSignals
  <2> QED BY <2>1 DEF StoppingInv
<1>5. CASE Construct
  <2>1. alive' = Len(Members) /\ main' \in {"build", "destroy"}
    BY <1>5 DEF Construct, MayConstruct
  <2>2. UNCHANGED <<handlers, exitApp, exitPage, askedToStop>>
    BY <1>5, Zenon DEF Construct, MayConstruct, keepsSignals
  <2> QED BY <2>1, <2>2 DEF StoppingInv
<1>6. CASE EnterLoop \/ LeaveLoop \/ ReturnFromMain
  <2>1. main' \in {"loop", "destroy", "ended"}
    BY <1>6 DEF EnterLoop, MayEnterLoop, LeaveLoop, MayLeaveLoop, ReturnFromMain, MayReturn
  <2>2. UNCHANGED <<alive, handlers, exitApp, exitPage, askedToStop>>
    BY <1>6, Zenon DEF EnterLoop, MayEnterLoop, LeaveLoop, MayLeaveLoop, ReturnFromMain, MayReturn, keepsServers, keepsSignals
  <2> QED BY <2>1, <2>2 DEF StoppingInv
<1>7. CASE Cancel \/ Destroy
  <2>1. main = "destroy" /\ main' \in {"destroy", "ended"}
    BY <1>7 DEF Cancel, MayCancel, Destroy, MayDestroy
  <2>2. UNCHANGED <<handlers, exitApp, exitPage, askedToStop>>
    BY <1>7, Zenon DEF Cancel, MayCancel, Destroy, MayDestroy, keepsSignals
  <2> QED BY <2>1, <2>2 DEF StoppingInv
<1>8. ASSUME NEW s \in ServerThreads, StartServer(s) \/ TakeRequest(s) \/ ThreadStep(s)
      PROVE  StoppingInv'
  <2>1. UNCHANGED <<main, alive, handlers, exitApp, exitPage, askedToStop>>
    BY <1>8, Zenon DEF StartServer, MayStartServer, TakeRequest, ThreadStep, MayStep, keepsSignals
  <2> QED BY <2>1 DEF StoppingInv
<1>9. CASE StopPage
  <2>1. main # "start" /\ exitPage' = TRUE
    BY <1>9 DEF StopPage, Running
  <2>2. UNCHANGED <<main, alive>>
    BY <1>9 DEF StopPage
  <2> QED BY <2>1, <2>2 DEF StoppingInv
<1>10. CASE Signal
  <2>1. UNCHANGED <<alive, handlers, exitPage>>
    BY <1>10, Zenon DEF Signal, keepsServers
  <2>2. CASE main # "ended" /\ child_handler
    <3>1. CASE handlers
      <4>1. exitApp' = TRUE /\ UNCHANGED main
        BY <2>2, <3>1, Zenon DEF child_handler
      <4> QED BY <2>1, <3>1, <4>1 DEF StoppingInv
    <3>2. CASE ~handlers
      <4>1. main' = "ended" /\ UNCHANGED <<exitApp, askedToStop>>
        BY <2>2, <3>2, Zenon DEF child_handler
      <4> QED BY <2>1, <4>1 DEF StoppingInv
    <3> QED BY <3>1, <3>2
  <2>3. CASE UNCHANGED <<main, exitApp, askedToStop>>
    BY <2>1, <2>3 DEF StoppingInv
  <2> QED BY <1>10, <2>2, <2>3, Zenon DEF Signal
<1> QED BY <1>1, <1>2, <1>3, <1>4, <1>5, <1>6, <1>7, <1>8, <1>9, <1>10, Zenon
        DEF DaemonNext, MainStep

\* While the members are constructed: the next server is started, or the loop is entered.
LEMMA BuildGoesOn ==
  ASSUME StoppingInv, main = "build"
  PROVE  SomebodyGoesOn
<1>1. alive = 0 \/ alive = Len(Members)
  BY DEF StoppingInv
<1>2. CASE threads["rtsp"] # "none" /\ (params.ssdp => threads["ssdp"] # "none")
  BY <1>2, Zenon DEF SomebodyGoesOn, MainGoesOn, MayEnterLoop
<1>3. CASE alive = Len(Members) /\ threads["rtsp"] = "none"
  <2>1. MayStartServer("http") \/ MayStartServer("rtsp")
    BY <1>3 DEF MayStartServer
  <2> QED BY <2>1 DEF SomebodyGoesOn, MainGoesOn, ServerThreads
<1>4. CASE alive = Len(Members) /\ threads["rtsp"] # "none" /\ params.ssdp /\ threads["ssdp"] = "none"
  <2>1. MayStartServer("ssdp")
    BY <1>4 DEF MayStartServer
  <2> QED BY <2>1 DEF SomebodyGoesOn, MainGoesOn, ServerThreads
<1>5. CASE alive = 0
  BY <1>5, Zenon DEF SomebodyGoesOn, MainGoesOn, MayConstruct
<1> QED BY <1>1, <1>2, <1>3, <1>4, <1>5, Zenon

\* While they are destroyed: the last member is cancelled, its thread ends, or it is destroyed.
LEMMA DestroyGoesOn ==
  ASSUME DaemonInv, main = "destroy"
  PROVE  SomebodyGoesOn
<1>1. alive = 0 \/ alive > 0
  BY MembersAre DEF DaemonInv
<1>2. CASE alive = 0
  BY <1>2, Zenon DEF SomebodyGoesOn, MainGoesOn, MayReturn
<1>3. CASE alive > 0 /\ LastMember \notin ServerThreads
  BY <1>3, Zenon DEF SomebodyGoesOn, MainGoesOn, MayDestroy
<1>4. CASE alive > 0 /\ LastMember \in ServerThreads \ cancelled
  BY <1>4, Zenon DEF SomebodyGoesOn, MainGoesOn, MayCancel
<1>5. CASE alive > 0 /\ LastMember \in ServerThreads /\ LastMember \in cancelled
  <2>1. threads[LastMember] \in {"none", "idle", "busy", "ended"}
    BY <1>5 DEF DaemonInv
  <2>2. CASE threads[LastMember] \in {"none", "ended"}
    BY <1>5, <2>2, Zenon DEF SomebodyGoesOn, MainGoesOn, MayDestroy
  <2>3. CASE threads[LastMember] \in {"idle", "busy"}
    <3>1. MayStep(LastMember)
      BY <1>5, <2>3 DEF MayStep, Running
    <3> QED BY <1>5, <3>1, Zenon DEF SomebodyGoesOn
  <2> QED BY <2>1, <2>2, <2>3
<1> QED BY <1>1, <1>2, <1>3, <1>4, <1>5, Zenon

\* main(): a signal or the page that asked for the end is never forgotten, at whatever point of
\* the construction it came, and from then on main() or a server thread that is waited for has
\* a step to take until the program has ended; so has the parent that waits for the fork.
THEOREM NobodyStaysStuck == DaemonSpec => []NobodyStuck
<1>1. DaemonInv /\ StoppingInv => NobodyStuck
  <2> SUFFICES ASSUME DaemonInv, StoppingInv,
                      (askedToStop /\ main # "ended") \/ parent \in {"alarm", "pause"}
               PROVE  SomebodyGoesOn
    BY Zenon DEF NobodyStuck
  <2>1. CASE parent \in {"alarm", "pause"} \/ main \in {"daemonize", "child"}
    BY <2>1, Zenon DEF SomebodyGoesOn, MainGoesOn
  <2>2. CASE askedToStop /\ main # "ended"
    <3>1. main \in {"daemonize", "child"} \/ main = "build" \/ main = "loop" \/ main = "destroy"
      BY <2>2 DEF StoppingInv
    <3>2. CASE main = "loop"
      <4>1. exitApp \/ exitPage
        BY <2>2, Zenon DEF StoppingInv
      <4> QED BY <3>2, <4>1, Zenon DEF SomebodyGoesOn, MainGoesOn, MayLeaveLoop
    <3> QED BY <2>1, <3>1, <3>2, BuildGoesOn, DestroyGoesOn
  <2> QED BY <2>1, <2>2
<1> QED BY <1>1, DaemonInitInv, DaemonNextInv, StoppingInit, StoppingNext, PTL DEF DaemonSpec

-----------------------------------------------------------------------------
(* SettingsXml: where the settings are in a file *)

\* A tag in front of others: the n-th of these lemmas is for n others.
LEMMA Joined1 ==
  ASSUME NEW a, NEW b
  PROVE  <<a>> \o <<b>> = <<a, b>>
<1> DEFINE S == {a, b}
           e == <<a>> \o <<b>>
<1>1. /\ e \in Seq(S) /\ Len(e) = 2
     /\ e[1] = a /\ e[2] = b OBVIOUS
<1> HIDE DEF e
<1>2. e = <<a, b>> BY <1>1
<1> QED BY <1>2 DEF e

LEMMA Joined2 ==
  ASSUME NEW a, NEW b, NEW c
  PROVE  <<a>> \o <<b, c>> = <<a, b, c>>
<1> DEFINE S == {a, b, c}
           e == <<a>> \o <<b, c>>
<1>1. /\ e \in Seq(S) /\ Len(e) = 3
     /\ e[1] = a /\ e[2] = b /\ e[3] = c OBVIOUS
<1> HIDE DEF e
<1>2. e = <<a, b, c>> BY <1>1
<1> QED BY <1>2 DEF e

LEMMA Joined3 ==
  ASSUME NEW a, NEW b, NEW c, NEW d
  PROVE  <<a>> \o <<b, c, d>> = <<a, b, c, d>>
<1> DEFINE S == {a, b, c, d}
           e == <<a>> \o <<b, c, d>>
<1>1. /\ e \in Seq(S) /\ Len(e) = 4
     /\ e[1] = a /\ e[2] = b /\ e[3] = c /\ e[4] = d OBVIOUS
<1> HIDE DEF e
<1>2. e = <<a, b, c, d>> BY <1>1
<1> QED BY <1>2 DEF e

LEMMA Joined4 ==
  ASSUME NEW a, NEW b, NEW c, NEW d, NEW f
  PROVE  <<a>> \o <<b, c, d, f>> = <<a, b, c, d, f>>
<1> DEFINE S == {a, b, c, d, f}
           e == <<a>> \o <<b, c, d, f>>
<1>1. /\ e \in Seq(S) /\ Len(e) = 5
     /\ e[1] = a /\ e[2] = b /\ e[3] = c /\ e[4] = d /\ e[5] = f OBVIOUS
<1> HIDE DEF e
<1>2. e = <<a, b, c, d, f>> BY <1>1
<1> QED BY <1>2 DEF e

LEMMA Joined5 ==
  ASSUME NEW a, NEW b, NEW c, NEW d, NEW f, NEW g
  PROVE  <<a>> \o <<b, c, d, f, g>> = <<a, b, c, d, f, g>>
<1> DEFINE S == {a, b, c, d, f, g}
           e == <<a>> \o <<b, c, d, f, g>>
<1>1. /\ e \in Seq(S) /\ Len(e) = 6
     /\ e[1] = a /\ e[2] = b /\ e[3] = c /\ e[4] = d /\ e[5] = f /\ e[6] = g OBVIOUS
<1> HIDE DEF e
<1>2. e = <<a, b, c, d, f, g>> BY <1>1
<1> QED BY <1>2 DEF e

LEMMA Joined6 ==
  ASSUME NEW a, NEW b, NEW c, NEW d, NEW f, NEW g, NEW h
  PROVE  <<a>> \o <<b, c, d, f, g, h>> = <<a, b, c, d, f, g, h>>
<1> DEFINE S == {a, b, c, d, f, g, h}
           e == <<a>> \o <<b, c, d, f, g, h>>
<1>1. /\ e \in Seq(S) /\ Len(e) = 7
     /\ e[1] = a /\ e[2] = b /\ e[3] = c /\ e[4] = d /\ e[5] = f /\ e[6] = g /\ e[7] = h OBVIOUS
<1> HIDE DEF e
<1>2. e = <<a, b, c, d, f, g, h>> BY <1>1
<1> QED BY <1>2 DEF e

LEMMA Joined7 ==
  ASSUME NEW a, NEW b, NEW c, NEW d, NEW f, NEW g, NEW h, NEW k
  PROVE  <<a>> \o <<b, c, d, f, g, h, k>> = <<a, b, c, d, f, g, h, k>>
<1> DEFINE S == {a, b, c, d, f, g, h, k}
           e == <<a>> \o <<b, c, d, f, g, h, k>>
<1>1. /\ e \in Seq(S) /\ Len(e) = 8
     /\ e[1] = a /\ e[2] = b /\ e[3] = c /\ e[4] = d /\ e[5] = f /\ e[6] = g /\ e[7] = h
     /\ e[8] = k
  OBVIOUS
<1> HIDE DEF e
<1>2. e = <<a, b, c, d, f, g, h, k>> BY <1>1
<1> QED BY <1>2 DEF e

\* The tags around the element of a stream, in front of as many others.
LEMMA Around2 ==
  ASSUME NEW i, NEW b, NEW c
  PROVE  <<"data">> \o (<<"streams">> \o (<<i>> \o <<b, c>>)) = <<"data", "streams", i, b, c>>
<1>1. <<i>> \o <<b, c>> = <<i, b, c>> BY Joined2
<1>2. <<"streams">> \o <<i, b, c>> = <<"streams", i, b, c>> BY Joined3
<1>3. <<"data">> \o <<"streams", i, b, c>> = <<"data", "streams", i, b, c>> BY Joined4
<1> QED BY <1>1, <1>2, <1>3

LEMMA Around3 ==
  ASSUME NEW i, NEW b, NEW c, NEW d
  PROVE  <<"data">> \o (<<"streams">> \o (<<i>> \o <<b, c, d>>)) = <<"data", "streams", i, b, c, d>>
<1>1. <<i>> \o <<b, c, d>> = <<i, b, c, d>> BY Joined3
<1>2. <<"streams">> \o <<i, b, c, d>> = <<"streams", i, b, c, d>> BY Joined4
<1>3. <<"data">> \o <<"streams", i, b, c, d>> = <<"data", "streams", i, b, c, d>> BY Joined5
<1> QED BY <1>1, <1>2, <1>3

LEMMA Around4 ==
  ASSUME NEW i, NEW b, NEW c, NEW d, NEW f
  PROVE  <<"data">> \o (<<"streams">> \o (<<i>> \o <<b, c, d, f>>)) =
              <<"data", "streams", i, b, c, d, f>>
<1>1. <<i>> \o <<b, c, d, f>> = <<i, b, c, d, f>> BY Joined4
<1>2. <<"streams">> \o <<i, b, c, d, f>> = <<"streams", i, b, c, d, f>> BY Joined5
<1>3. <<"data">> \o <<"streams", i, b, c, d, f>> = <<"data", "streams", i, b, c, d, f>> BY Joined6
<1> QED BY <1>1, <1>2, <1>3

LEMMA Around5 ==
  ASSUME NEW i, NEW b, NEW c, NEW d, NEW f, NEW g
  PROVE  <<"data">> \o (<<"streams">> \o (<<i>> \o <<b, c, d, f, g>>)) =
              <<"data", "streams", i, b, c, d, f, g>>
<1>1. <<i>> \o <<b, c, d, f, g>> = <<i, b, c, d, f, g>> BY Joined5
<1>2. <<"streams">> \o <<i, b, c, d, f, g>> = <<"streams", i, b, c, d, f, g>> BY Joined6
<1>3. <<"data">> \o <<"streams", i, b, c, d, f, g>> = <<"data", "streams", i, b, c, d, f, g>>
  BY Joined7
<1> QED BY <1>1, <1>2, <1>3

\* What is inside a tag has it in front.
LEMMA InsideIs ==
  ASSUME NEW a, NEW E, NEW x \in Inside(a, E)
  PROVE  \E y \in E : x = <<a>> \o y
BY DEF Inside

LEMMA ValueIs ==
  ASSUME NEW T, NEW x \in Values(T)
  PROVE  \E t \in T : x = <<t, "value">>
BY DEF Values

LEMMA InsideValueIs ==
  ASSUME NEW a, NEW T, NEW x \in Inside(a, Values(T))
  PROVE  \E t \in T : x = <<a, t, "value">>
<1>1. PICK y \in Values(T) : x = <<a>> \o y BY InsideIs
<1>2. PICK t \in T : y = <<t, "value">> BY ValueIs
<1>3. <<a>> \o <<t, "value">> = <<a, t, "value">> BY Joined2
<1> QED BY <1>1, <1>2, <1>3

\* Where each setting is: the elements of a file, by the tag of the setting.
StreamPlace(x) ==
  \E i \in Streams, t \in StreamTags \cup DeviceTags \cup FrontendTags :
    x = <<"data", "streams", i, t, "value">>
TransformationPlace(x) ==
  \E i \in Streams, t \in TransformationTags :
    x = <<"data", "streams", i, "transformation", t, "value">>
FilterPlace(x) ==
  \E i \in Streams, t \in FilterTags : x = <<"data", "streams", i, "filter", t, "value">>
DeliveryPlace(x) ==
  \E i \in Streams, t \in DVBSTags \cup DVBTTags :
    x = <<"data", "streams", i, "deliverySystem0", t, "value">>
DiseqcPlace(x) ==
  \E i \in Streams, t \in DiSEqcTags \cup SwitchTags \cup UnicableTags :
    x = <<"data", "streams", i, "deliverySystem0", "diseqc", t, "value">>
LnbPlace(x) ==
  \E i \in Streams :
    \/ \E t \in LnbTags :
         x = <<"data", "streams", i, "deliverySystem0", "diseqc", "lnb1", t, "value">>
    \/ x = <<"data", "streams", i, "deliverySystem0", "diseqc", "lnb1", "lnbtype">>
DecryptPlace(x) ==
  \E t \in DecryptTags : x = <<"data", "streams", "decrypt", t, "value">>
PropertiesPlace(x) ==
  \E t \in PropertiesTags : x = <<"data", "configdata", t, "value">>
ServerPlace(x) ==
  \/ x = <<"data", "ssdp", "annouceTime", "value">>
  \/ \E t \in {"bootID", "deviceID"} : x = <<"data", "ssdp", t>>

\* What is inside the element of a stream, with the tags around it in front.
LEMMA StreamsAre ==
  ASSUME NEW i \in Streams, NEW type, NEW y \in StreamXml(Inputs[i], type),
         NEW x, x = <<"data">> \o (<<"streams">> \o (<<i>> \o y))
  PROVE  \/ StreamPlace(x) \/ TransformationPlace(x) \/ FilterPlace(x)
         \/ DeliveryPlace(x) \/ DiseqcPlace(x) \/ LnbPlace(x)
<1>1. CASE y \in Values(StreamTags) \cup Values(DeviceTags) \cup Values(FrontendTags)
  <2>1. PICK t \in StreamTags \cup DeviceTags \cup FrontendTags : y = <<t, "value">>
    BY <1>1, ValueIs
  <2>2. x = <<"data", "streams", i, t, "value">> BY <2>1, Around2
  <2> QED BY <2>2 DEF StreamPlace
<1>2. CASE y \in Inside("transformation", Values(TransformationTags))
  <2>1. PICK t \in TransformationTags : y = <<"transformation", t, "value">>
    BY <1>2, InsideValueIs
  <2>2. x = <<"data", "streams", i, "transformation", t, "value">> BY <2>1, Around3
  <2> QED BY <2>2 DEF TransformationPlace
<1>3. CASE y \in Inside("filter", Values(FilterTags))
  <2>1. PICK t \in FilterTags : y = <<"filter", t, "value">> BY <1>3, InsideValueIs
  <2>2. x = <<"data", "streams", i, "filter", t, "value">> BY <2>1, Around3
  <2> QED BY <2>2 DEF FilterPlace
<1>4. CASE y \in Inside("deliverySystem0", DVBSXml(type) \cup Values(DVBTTags))
  <2>1. PICK z \in DVBSXml(type) \cup Values(DVBTTags) : y = <<"deliverySystem0">> \o z
    BY <1>4, InsideIs
  <2>2. CASE z \in Values(DVBSTags) \cup Values(DVBTTags)
    <3>1. PICK t \in DVBSTags \cup DVBTTags : z = <<t, "value">> BY <2>2, ValueIs
    <3>2. y = <<"deliverySystem0", t, "value">> BY <2>1, <3>1, Joined2
    <3>3. x = <<"data", "streams", i, "deliverySystem0", t, "value">> BY <3>2, Around3
    <3> QED BY <3>3 DEF DeliveryPlace
  <2>3. CASE z \in Inside("diseqc", DiSEqcXml(type))
    <3>1. PICK u \in DiSEqcXml(type) : z = <<"diseqc">> \o u BY <2>3, InsideIs
    <3>2. CASE u \notin LnbXml
      <4>1. u \in Values(DiSEqcTags) \cup Values(SwitchTags) \cup Values(UnicableTags)
        BY <3>1, <3>2 DEF DiSEqcXml
      <4>2. PICK t \in DiSEqcTags \cup SwitchTags \cup UnicableTags : u = <<t, "value">>
        BY <4>1, ValueIs
      <4>3. z = <<"diseqc", t, "value">> BY <3>1, <4>2, Joined2
      <4>4. y = <<"deliverySystem0", "diseqc", t, "value">> BY <2>1, <4>3, Joined3
      <4>5. x = <<"data", "streams", i, "deliverySystem0", "diseqc", t, "value">>
        BY <4>4, Around4
      <4> QED BY <4>5 DEF DiseqcPlace
    <3>3. CASE u \in LnbXml
      <4>1. PICK v \in Values(LnbTags) \cup {<<"lnbtype">>} : u = <<"lnb1">> \o v
        BY <3>3, InsideIs DEF LnbXml
      <4>2. CASE v = <<"lnbtype">>
        <5>1. u = <<"lnb1", "lnbtype">> BY <4>1, <4>2, Joined1
        <5>2. z = <<"diseqc", "lnb1", "lnbtype">> BY <3>1, <5>1, Joined2
        <5>3. y = <<"deliverySystem0", "diseqc", "lnb1", "lnbtype">> BY <2>1, <5>2, Joined3
        <5>4. x = <<"data", "streams", i, "deliverySystem0", "diseqc", "lnb1", "lnbtype">>
          BY <5>3, Around4
        <5> QED BY <5>4 DEF LnbPlace
      <4>3. CASE v \in Values(LnbTags)
        <5>1. PICK t \in LnbTags : v = <<t, "value">> BY <4>3, ValueIs
        <5>2. u = <<"lnb1", t, "value">> BY <4>1, <5>1, Joined2
        <5>3. z = <<"diseqc", "lnb1", t, "value">> BY <3>1, <5>2, Joined3
        <5>4. y = <<"deliverySystem0", "diseqc", "lnb1", t, "value">> BY <2>1, <5>3, Joined4
        <5>5. x = <<"data", "streams", i, "deliverySystem0", "diseqc", "lnb1", t, "value">>
          BY <5>4, Around5
        <5> QED BY <5>5 DEF LnbPlace
      <4> QED BY <4>1, <4>2, <4>3
    <3> QED BY <3>2, <3>3
  <2>4. z \in Values(DVBSTags) \cup Values(DVBTTags) \/ z \in Inside("diseqc", DiSEqcXml(type))
    BY DEF DVBSXml
  <2> QED BY <2>2, <2>3, <2>4
<1>5. \A E, F, a, z : z \in Inside(a, E) => z \in Inside(a, E \cup F) /\ z \in Inside(a, F \cup E)
  BY DEF Inside
<1>6. \/ y \in Values(StreamTags) \cup Values(DeviceTags) \cup Values(FrontendTags)
      \/ y \in Inside("transformation", Values(TransformationTags))
      \/ y \in Inside("filter", Values(FilterTags))
      \/ y \in Inside("deliverySystem0", DVBSXml(type))
      \/ y \in Inside("deliverySystem0", Values(DVBTTags))
  BY DEF StreamXml, DeviceDataXml, FrontendXml
<1> QED BY <1>1, <1>2, <1>3, <1>4, <1>5, <1>6

\* Each element of a file is at one of these places.
LEMMA PlacesAre ==
  ASSUME NEW types, NEW x \in SatPIXml(types)
  PROVE  \/ StreamPlace(x) \/ TransformationPlace(x) \/ FilterPlace(x)
         \/ DeliveryPlace(x) \/ DiseqcPlace(x) \/ LnbPlace(x)
         \/ DecryptPlace(x) \/ PropertiesPlace(x) \/ ServerPlace(x)
<1>1. PICK y \in Inside("streams", StreamManagerXml(types))
                   \cup Inside("configdata", Values(PropertiesTags))
                   \cup Inside("ssdp", ServerXml) :
        x = <<"data">> \o y
  BY InsideIs DEF SatPIXml
<1>2. CASE y \in Inside("streams", StreamManagerXml(types))
  <2>1. PICK z \in StreamManagerXml(types) : y = <<"streams">> \o z BY <1>2, InsideIs
  <2>2. CASE z \in Inside("decrypt", Values(DecryptTags))
    <3>1. PICK t \in DecryptTags : z = <<"decrypt", t, "value">> BY <2>2, InsideValueIs
    <3>2. y = <<"streams", "decrypt", t, "value">> BY <2>1, <3>1, Joined3
    <3>3. x = <<"data", "streams", "decrypt", t, "value">> BY <1>1, <3>2, Joined4
    <3> QED BY <3>3 DEF DecryptPlace
  <2>3. CASE z \notin Inside("decrypt", Values(DecryptTags))
    <3> DEFINE type(i) == IF i \in Satellites THEN types[i] ELSE "lnb"
           inside(i) == Inside(i, StreamXml(Inputs[i], type(i)))
    <3>1. StreamManagerXml(types) =
            (UNION {inside(i) : i \in Streams}) \cup Inside("decrypt", Values(DecryptTags))
      BY DEF StreamManagerXml
    <3> HIDE DEF type, inside
    <3>2. PICK i \in Streams : z \in inside(i) BY <2>1, <2>3, <3>1
    <3>3. PICK u \in StreamXml(Inputs[i], type(i)) : z = <<i>> \o u
      BY <3>2, InsideIs DEF inside
    <3> QED BY <1>1, <2>1, <3>3, StreamsAre
  <2> QED BY <2>2, <2>3
<1>3. CASE y \in Inside("configdata", Values(PropertiesTags))
  <2>1. PICK t \in PropertiesTags : y = <<"configdata", t, "value">> BY <1>3, InsideValueIs
  <2>2. x = <<"data", "configdata", t, "value">> BY <1>1, <2>1, Joined3
  <2> QED BY <2>2 DEF PropertiesPlace
<1>4. CASE y \in Inside("ssdp", ServerXml)
  <2>1. PICK z \in ServerXml : y = <<"ssdp">> \o z BY <1>4, InsideIs
  <2>2. CASE z \in Values({"annouceTime"})
    <3>1. z = <<"annouceTime", "value">> BY <2>2, ValueIs
    <3>2. y = <<"ssdp", "annouceTime", "value">> BY <2>1, <3>1, Joined2
    <3>3. x = <<"data", "ssdp", "annouceTime", "value">> BY <1>1, <3>2, Joined3
    <3> QED BY <3>3 DEF ServerPlace
  <2>3. CASE z \in {<<"bootID">>, <<"deviceID">>}
    <3>1. PICK t \in {"bootID", "deviceID"} : z = <<t>> BY <2>3
    <3>2. y = <<"ssdp", t>> BY <2>1, <3>1, Joined1
    <3>3. x = <<"data", "ssdp", t>> BY <1>1, <3>2, Joined2
    <3> QED BY <3>3 DEF ServerPlace
  <2> QED BY <2>1, <2>2, <2>3 DEF ServerXml
<1> QED BY <1>1, <1>2, <1>3, <1>4

\* The one place for a setting with this tag, of stream i if it is one of a stream.
PlaceFor(t, i) ==
  IF t \in StreamTags \cup DeviceTags \cup FrontendTags THEN <<"data", "streams", i, t, "value">>
  ELSE IF t \in TransformationTags THEN <<"data", "streams", i, "transformation", t, "value">>
  ELSE IF t \in FilterTags THEN <<"data", "streams", i, "filter", t, "value">>
  ELSE IF t \in DVBSTags \cup DVBTTags THEN <<"data", "streams", i, "deliverySystem0", t, "value">>
  ELSE IF t \in DiSEqcTags \cup SwitchTags \cup UnicableTags
       THEN <<"data", "streams", i, "deliverySystem0", "diseqc", t, "value">>
  ELSE IF t \in LnbTags
       THEN <<"data", "streams", i, "deliverySystem0", "diseqc", "lnb1", t, "value">>
  ELSE IF t = "lnbtype" THEN <<"data", "streams", i, "deliverySystem0", "diseqc", "lnb1", t>>
  ELSE IF t \in DecryptTags THEN <<"data", "streams", "decrypt", t, "value">>
  ELSE IF t \in PropertiesTags THEN <<"data", "configdata", t, "value">>
  ELSE IF t = "annouceTime" THEN <<"data", "ssdp", t, "value">>
  ELSE <<"data", "ssdp", t>>

AllTags == Streams \cup OuterTags \cup SettingTags

\* What is known of an element by its place.
Element(x) ==
  /\ x \in Seq(AllTags) /\ Len(x) \in 3..8
  /\ Tag(x) \in SettingTags /\ Tag(x) \in Range(x)
  /\ Range(x) \subseteq {Tag(x)} \cup (Streams \cap {x[3]}) \cup (OuterTags \ {"nb"})
  /\ x = PlaceFor(Tag(x), x[3])
  /\ x[3] \in Streams \/ \A i : x = PlaceFor(Tag(x), i)

LEMMA StreamElement ==
  ASSUME NEW x, StreamPlace(x) PROVE Element(x)
<1>1. PICK i \in Streams, t \in StreamTags \cup DeviceTags \cup FrontendTags :
        x = <<"data", "streams", i, t, "value">>
  BY DEF StreamPlace
<1>2. t \in SettingTags BY DEF SettingTags
<1>3. Tag(x) = t /\ x[3] = i /\ Len(x) = 5 BY <1>1 DEF Tag, Last
<1>4. Range(x) = {"data", "streams", i, t, "value"} BY <1>1 DEF Range
<1>5. PlaceFor(t, i) = x BY <1>1 DEF PlaceFor
<1>6. x \in Seq(AllTags) BY <1>1, <1>2 DEF AllTags, OuterTags
<1> QED BY <1>2, <1>3, <1>4, <1>5, <1>6 DEF Element, OuterTags

LEMMA TransformationElement ==
  ASSUME NEW x, TransformationPlace(x) PROVE Element(x)
<1>1. PICK i \in Streams, t \in TransformationTags :
        x = <<"data", "streams", i, "transformation", t, "value">>
  BY DEF TransformationPlace
<1>2. t \in SettingTags BY DEF SettingTags
<1>3. Tag(x) = t /\ x[3] = i /\ Len(x) = 6 BY <1>1 DEF Tag, Last
<1>4. Range(x) = {"data", "streams", i, "transformation", t, "value"} BY <1>1 DEF Range
<1>5. PlaceFor(t, i) = x
  BY <1>1 DEF PlaceFor, StreamTags, DeviceTags, FrontendTags, TransformationTags, FilterTags,
              DVBSTags, DVBTTags, DiSEqcTags, SwitchTags, UnicableTags, LnbTags, DecryptTags,
              PropertiesTags
<1>6. x \in Seq(AllTags) BY <1>1, <1>2 DEF AllTags, OuterTags
<1> QED BY <1>2, <1>3, <1>4, <1>5, <1>6 DEF Element, OuterTags

LEMMA FilterElement ==
  ASSUME NEW x, FilterPlace(x) PROVE Element(x)
<1>1. PICK i \in Streams, t \in FilterTags : x = <<"data", "streams", i, "filter", t, "value">>
  BY DEF FilterPlace
<1>2. t \in SettingTags BY DEF SettingTags
<1>3. Tag(x) = t /\ x[3] = i /\ Len(x) = 6 BY <1>1 DEF Tag, Last
<1>4. Range(x) = {"data", "streams", i, "filter", t, "value"} BY <1>1 DEF Range
<1>5. PlaceFor(t, i) = x
  BY <1>1 DEF PlaceFor, StreamTags, DeviceTags, FrontendTags, TransformationTags, FilterTags,
              DVBSTags, DVBTTags, DiSEqcTags, SwitchTags, UnicableTags, LnbTags, DecryptTags,
              PropertiesTags
<1>6. x \in Seq(AllTags) BY <1>1, <1>2 DEF AllTags, OuterTags
<1> QED BY <1>2, <1>3, <1>4, <1>5, <1>6 DEF Element, OuterTags

LEMMA DeliveryElement ==
  ASSUME NEW x, DeliveryPlace(x) PROVE Element(x)
<1>1. PICK i \in Streams, t \in DVBSTags \cup DVBTTags :
        x = <<"data", "streams", i, "deliverySystem0", t, "value">>
  BY DEF DeliveryPlace
<1>2. t \in SettingTags BY DEF SettingTags
<1>3. Tag(x) = t /\ x[3] = i /\ Len(x) = 6 BY <1>1 DEF Tag, Last
<1>4. Range(x) = {"data", "streams", i, "deliverySystem0", t, "value"} BY <1>1 DEF Range
<1>5. PlaceFor(t, i) = x
  BY <1>1 DEF PlaceFor, StreamTags, DeviceTags, FrontendTags, TransformationTags, FilterTags,
              DVBSTags, DVBTTags, DiSEqcTags, SwitchTags, UnicableTags, LnbTags, DecryptTags,
              PropertiesTags
<1>6. x \in Seq(AllTags) BY <1>1, <1>2 DEF AllTags, OuterTags
<1> QED BY <1>2, <1>3, <1>4, <1>5, <1>6 DEF Element, OuterTags

LEMMA DiseqcElement ==
  ASSUME NEW x, DiseqcPlace(x) PROVE Element(x)
<1>1. PICK i \in Streams, t \in DiSEqcTags \cup SwitchTags \cup UnicableTags :
        x = <<"data", "streams", i, "deliverySystem0", "diseqc", t, "value">>
  BY DEF DiseqcPlace
<1>2. t \in SettingTags BY DEF SettingTags
<1>3. Tag(x) = t /\ x[3] = i /\ Len(x) = 7 BY <1>1 DEF Tag, Last
<1>4. Range(x) = {"data", "streams", i, "deliverySystem0", "diseqc", t, "value"} BY <1>1 DEF Range
<1>5. PlaceFor(t, i) = x
  BY <1>1 DEF PlaceFor, StreamTags, DeviceTags, FrontendTags, TransformationTags, FilterTags,
              DVBSTags, DVBTTags, DiSEqcTags, SwitchTags, UnicableTags, LnbTags, DecryptTags,
              PropertiesTags
<1>6. x \in Seq(AllTags) BY <1>1, <1>2 DEF AllTags, OuterTags
<1> QED BY <1>2, <1>3, <1>4, <1>5, <1>6 DEF Element, OuterTags

LEMMA DecryptElement ==
  ASSUME NEW x, DecryptPlace(x) PROVE Element(x)
<1>1. PICK t \in DecryptTags : x = <<"data", "streams", "decrypt", t, "value">>
  BY DEF DecryptPlace
<1>2. t \in SettingTags BY DEF SettingTags
<1>3. Tag(x) = t /\ x[3] = "decrypt" /\ Len(x) = 5 BY <1>1 DEF Tag, Last
<1>4. Range(x) = {"data", "streams", "decrypt", t, "value"} BY <1>1 DEF Range
<1>5. \A i : PlaceFor(t, i) = x
  BY <1>1 DEF PlaceFor, StreamTags, DeviceTags, FrontendTags, TransformationTags, FilterTags,
              DVBSTags, DVBTTags, DiSEqcTags, SwitchTags, UnicableTags, LnbTags, DecryptTags,
              PropertiesTags
<1>6. x \in Seq(AllTags) BY <1>1, <1>2 DEF AllTags, OuterTags
<1> QED BY <1>2, <1>3, <1>4, <1>5, <1>6 DEF Element, OuterTags

LEMMA PropertiesElement ==
  ASSUME NEW x, PropertiesPlace(x) PROVE Element(x)
<1>1. PICK t \in PropertiesTags : x = <<"data", "configdata", t, "value">>
  BY DEF PropertiesPlace
<1>2. t \in SettingTags BY DEF SettingTags
<1>3. Tag(x) = t /\ x[3] = t /\ Len(x) = 4 BY <1>1 DEF Tag, Last
<1>4. Range(x) = {"data", "configdata", t, "value"} BY <1>1 DEF Range
<1>5. \A i : PlaceFor(t, i) = x
  BY <1>1 DEF PlaceFor, StreamTags, DeviceTags, FrontendTags, TransformationTags, FilterTags,
              DVBSTags, DVBTTags, DiSEqcTags, SwitchTags, UnicableTags, LnbTags, DecryptTags,
              PropertiesTags
<1>6. x \in Seq(AllTags) BY <1>1, <1>2 DEF AllTags, OuterTags
<1> QED BY <1>2, <1>3, <1>4, <1>5, <1>6 DEF Element, OuterTags

LEMMA LnbElement ==
  ASSUME NEW x, LnbPlace(x) PROVE Element(x)
<1>1. CASE \E i \in Streams, t \in LnbTags :
             x = <<"data", "streams", i, "deliverySystem0", "diseqc", "lnb1", t, "value">>
  <2>1. PICK i \in Streams, t \in LnbTags :
          x = <<"data", "streams", i, "deliverySystem0", "diseqc", "lnb1", t, "value">>
    BY <1>1
  <2>2. t \in SettingTags BY DEF SettingTags
  <2>3. Tag(x) = t /\ x[3] = i /\ Len(x) = 8 BY <2>1 DEF Tag, Last
  <2>4. Range(x) = {"data", "streams", i, "deliverySystem0", "diseqc", "lnb1", t, "value"}
    BY <2>1 DEF Range
  <2>5. PlaceFor(t, i) = x
    BY <2>1 DEF PlaceFor, StreamTags, DeviceTags, FrontendTags, TransformationTags, FilterTags,
                  DVBSTags, DVBTTags, DiSEqcTags, SwitchTags, UnicableTags, LnbTags
  <2>6. x \in Seq(AllTags) BY <2>1, <2>2 DEF AllTags, OuterTags
  <2> QED BY <2>2, <2>3, <2>4, <2>5, <2>6 DEF Element, OuterTags
<1>2. CASE \E i \in Streams :
             x = <<"data", "streams", i, "deliverySystem0", "diseqc", "lnb1", "lnbtype">>
  <2>1. PICK i \in Streams :
          x = <<"data", "streams", i, "deliverySystem0", "diseqc", "lnb1", "lnbtype">>
    BY <1>2
  <2>2. "lnbtype" \in SettingTags BY DEF SettingTags
  <2>3. Tag(x) = "lnbtype" /\ x[3] = i /\ Len(x) = 7 BY <2>1 DEF Tag, Last
  <2>4. Range(x) = {"data", "streams", i, "deliverySystem0", "diseqc", "lnb1", "lnbtype"}
    BY <2>1 DEF Range
  <2>5. PlaceFor("lnbtype", i) = x
    BY <2>1 DEF PlaceFor, StreamTags, DeviceTags, FrontendTags, TransformationTags, FilterTags,
                  DVBSTags, DVBTTags, DiSEqcTags, SwitchTags, UnicableTags, LnbTags
  <2>6. x \in Seq(AllTags) BY <2>1, <2>2 DEF AllTags, OuterTags
  <2> QED BY <2>2, <2>3, <2>4, <2>5, <2>6 DEF Element, OuterTags
<1> QED BY <1>1, <1>2 DEF LnbPlace

LEMMA ServerElement ==
  ASSUME NEW x, ServerPlace(x) PROVE Element(x)
<1>1. CASE x = <<"data", "ssdp", "annouceTime", "value">>
  <2>1. "annouceTime" \in SettingTags BY DEF SettingTags
  <2>2. Tag(x) = "annouceTime" /\ x[3] = "annouceTime" /\ Len(x) = 4 BY <1>1 DEF Tag, Last
  <2>3. Range(x) = {"data", "ssdp", "annouceTime", "value"} BY <1>1 DEF Range
  <2>4. \A i : PlaceFor("annouceTime", i) = x
    BY <1>1 DEF PlaceFor, StreamTags, DeviceTags, FrontendTags, TransformationTags, FilterTags,
                  DVBSTags, DVBTTags, DiSEqcTags, SwitchTags, UnicableTags, LnbTags,
                  DecryptTags, PropertiesTags
  <2>5. x \in Seq(AllTags) BY <1>1, <2>1 DEF AllTags, OuterTags
  <2> QED BY <2>1, <2>2, <2>3, <2>4, <2>5 DEF Element, OuterTags
<1>2. ASSUME NEW t \in {"bootID", "deviceID"}, x = <<"data", "ssdp", t>> PROVE Element(x)
  <2>1. t \in SettingTags BY DEF SettingTags
  <2>2. Tag(x) = t /\ x[3] = t /\ Len(x) = 3 BY <1>2 DEF Tag, Last
  <2>3. Range(x) = {"data", "ssdp", t} BY <1>2 DEF Range
  <2>4. \A i : PlaceFor(t, i) = x
    BY <1>2 DEF PlaceFor, StreamTags, DeviceTags, FrontendTags, TransformationTags, FilterTags,
                  DVBSTags, DVBTTags, DiSEqcTags, SwitchTags, UnicableTags, LnbTags,
                  DecryptTags, PropertiesTags
  <2>5. x \in Seq(AllTags) BY <1>2, <2>1 DEF AllTags, OuterTags
  <2> QED BY <2>1, <2>2, <2>3, <2>4, <2>5 DEF Element, OuterTags
<1> QED BY <1>1, <1>2 DEF ServerPlace

LEMMA ElementOfFile ==
  ASSUME NEW types, NEW x \in SatPIXml(types) PROVE Element(x)
BY PlacesAre, StreamElement, TransformationElement, FilterElement, DeliveryElement,
   DiseqcElement, LnbElement, DecryptElement, PropertiesElement, ServerElement

\* An element is where its tag is, of the stream that it is of.
LEMMA SamePlace ==
  ASSUME NEW x, Element(x), NEW y, Element(y),
         Tag(x) = Tag(y), x[3] \in Streams => x[3] = y[3]
  PROVE  x = y
BY DEF Element

\* The first tags of an element, and the last.
LEMMA EndsAre ==
  ASSUME NEW x, Element(x)
  PROVE  /\ x[1] = "data" /\ x[2] \in {"streams", "configdata", "ssdp"}
             /\ x[Len(x)] \in {"value", Tag(x)}
<1>1. x = PlaceFor(Tag(x), x[3]) BY DEF Element
<1>2. ASSUME NEW t, NEW i, NEW y, y = PlaceFor(t, i)
     PROVE  /\ y[1] = "data" /\ y[2] \in {"streams", "configdata", "ssdp"}
                 /\ y[Len(y)] \in {"value", t}
  BY <1>2 DEF PlaceFor
<1> QED BY <1>1, <1>2

LEMMA TagsApart == OuterTags \cap SettingTags = {}
BY DEF OuterTags, SettingTags, LnbTags, DiSEqcTags, SwitchTags, UnicableTags, DVBTTags, DVBSTags,
       TransformationTags, FilterTags, FrontendTags, DeviceTags, StreamTags, DecryptTags,
       PropertiesTags

\* An element has the tag of one setting only, and of one stream only.
LEMMA OwnTags ==
  ASSUME SettingsXmlAssumption, NEW x, Element(x)
  PROVE  /\ \A t \in Range(x) \cap SettingTags : t = Tag(x)
         /\ \A i \in Range(x) \cap Streams : i = x[3]
         /\ "nb" \notin Range(x)
<1>1. Streams \cap (OuterTags \cup SettingTags) = {} BY DEF SettingsXmlAssumption
<1>2. "nb" \in OuterTags BY DEF OuterTags
<1> QED BY <1>1, <1>2, TagsApart DEF Element

\* Of some numbers one is the least.
LEMMA LeastIs ==
  ASSUME NEW S \in SUBSET Nat, S # {}
  PROVE  \E x \in S : \A y \in S : x <= y
<1>1. IsWellFoundedOn(OpToRel(<, Nat), Nat)
  BY NatLessThanWellFounded
<1>2. PICK x \in S : \A y \in S : <<y, x>> \notin OpToRel(<, Nat)
  BY <1>1, WFMin
<1>3. ASSUME NEW y \in S PROVE x <= y
  <2>1. x \in Nat /\ y \in Nat OBVIOUS
  <2>2. ~(y < x) BY <1>2, <2>1 DEF OpToRel
  <2> QED BY <2>1, <2>2
<1> QED BY <1>3

\* What holds of the first, and of the next whenever it holds of one, holds of all.
LEMMA UpTo ==
  ASSUME NEW n \in Nat, NEW Good \in SUBSET (0..n), 0 \in Good,
         \A k \in 1..n : k - 1 \in Good => k \in Good
  PROVE  Good = 0..n
<1> SUFFICES ASSUME (0..n) \ Good # {} PROVE FALSE
  OBVIOUS
<1>1. (0..n) \ Good \in SUBSET Nat OBVIOUS
<1>2. PICK x \in (0..n) \ Good : \A y \in (0..n) \ Good : x <= y BY <1>1, LeastIs
<1>3. x \in 1..n /\ x - 1 \in 0..n BY <1>2
<1>4. x - 1 \in Good BY <1>2, <1>3
<1> QED BY <1>2, <1>3, <1>4

-----------------------------------------------------------------------------
(* The search for an element *)

\* Where the tag n of want is found in x, when the one before it is at a place.
Next(x, want, n, around) == Min({k \in DOMAIN x : k > around /\ x[k] = want[n]} \cup {Len(x) + 1})

\* f is where each of the first m tags of want is found.
Course(x, want, m, f) ==
  f = [n \in 0..m |-> IF n = 0 THEN 0 ELSE Next(x, want, n, f[n - 1])]

\* The search has one course.
LEMMA ReachedIs ==
  ASSUME NEW x, NEW want, Len(want) \in Nat
  PROVE  \E f : Course(x, want, Len(want), f) /\ Reached(x, want) = f[Len(want)]
<1> DEFINE L == Len(want)
           Good == {m \in 0..L : \E f : Course(x, want, m, f)}
<1>1. 0 \in Good
  <2> DEFINE f == [n \in 0..0 |-> 0]
  <2>1. f = [n \in 0..0 |-> IF n = 0 THEN 0 ELSE Next(x, want, n, f[n - 1])]
    <3>1. \A n \in 0..0 : (IF n = 0 THEN 0 ELSE Next(x, want, n, f[n - 1])) = 0 OBVIOUS
    <3> HIDE DEF f
    <3>2. f = [n \in 0..0 |-> 0] BY DEF f
    <3> QED BY <3>1, <3>2
  <2> HIDE DEF f
  <2>2. Course(x, want, 0, f) BY <2>1 DEF Course
  <2>3. 0 \in 0..L OBVIOUS
  <2> HIDE DEF L
  <2> QED BY <2>2, <2>3
<1>2. ASSUME NEW m \in 1..L, m - 1 \in Good PROVE m \in Good
  <2>0. m \in Nat /\ m # 0 OBVIOUS
  <2>1. PICK f : f = [n \in 0..m - 1 |-> IF n = 0 THEN 0 ELSE Next(x, want, n, f[n - 1])]
    BY <1>2 DEF Course
  <2> DEFINE h == [n \in 0..m |-> IF n = m THEN Next(x, want, m, f[m - 1]) ELSE f[n]]
  <2>2. ASSUME NEW n \in 0..m PROVE h[n] = IF n = 0 THEN 0 ELSE Next(x, want, n, h[n - 1])
    <3>1. CASE n = m
      <4>1. h[n] = Next(x, want, m, f[m - 1]) BY <3>1
      <4>2. m - 1 \in 0..m /\ m - 1 # m BY <2>0
      <4>3. h[m - 1] = f[m - 1] BY <4>2
      <4> HIDE DEF h
      <4> QED BY <4>1, <4>3, <3>1
    <3>2. CASE n # m
      <4>1. n \in 0..m - 1 BY <3>2, <2>0
      <4>2. h[n] = f[n] BY <3>2
      <4>3. f[n] = IF n = 0 THEN 0 ELSE Next(x, want, n, f[n - 1]) BY <2>1, <4>1
      <4>4. n = 0 \/ (n - 1 \in 0..m /\ n - 1 # m) BY <4>1, <2>0
      <4>5. n = 0 \/ h[n - 1] = f[n - 1] BY <4>4
      <4> HIDE DEF h
      <4> QED BY <4>2, <4>3, <4>5
    <3> QED BY <3>1, <3>2
  <2>3. h = [n \in 0..m |-> h[n]] OBVIOUS
  <2> HIDE DEF h
  <2>4. h = [n \in 0..m |-> IF n = 0 THEN 0 ELSE Next(x, want, n, h[n - 1])] BY <2>2, <2>3
  <2> QED BY <2>0, <2>4 DEF Course
<1>3. PICK g : Course(x, want, L, g)
  <2> HIDE DEF Good, L
  <2>1. L \in Nat BY DEF L
  <2>2. Good \in SUBSET (0..L) BY DEF Good
  <2>3. Good = 0..L BY <1>1, <1>2, <2>1, <2>2, UpTo
  <2>4. L \in Good BY <2>1, <2>3
  <2> QED BY <2>4 DEF Good
<1> DEFINE foundAt[n \in 0..Len(want)] ==
             IF n = 0 THEN 0
             ELSE LET around == foundAt[n - 1]
                  IN Min({k \in DOMAIN x : k > around /\ x[k] = want[n]} \cup {Len(x) + 1})
<1>4. foundAt = CHOOSE f :
                f = [n \in 0..Len(want) |-> IF n = 0 THEN 0 ELSE Next(x, want, n, f[n - 1])]
  BY Zenon DEF foundAt, Next
<1>5. Reached(x, want) = foundAt[Len(want)] BY Zenon DEF Reached
<1>6. Course(x, want, Len(want), foundAt)
  <2> HIDE DEF foundAt
  <2> QED BY <1>3, <1>4, Zenon DEF Course
<1> HIDE DEF foundAt
<1> QED BY <1>5, <1>6

\* Where a tag is found is behind where the one before it was, at the first such place; what is
\* behind the element is not found.
LEMMA NextIs ==
  ASSUME NEW x, Len(x) \in Nat, DOMAIN x = 1..Len(x), NEW want, NEW n, NEW around \in Nat
  PROVE  LET k == Next(x, want, n, around)
         IN /\ k \in 1..Len(x) + 1
            /\ k <= Len(x) => k > around /\ x[k] = want[n]
            /\ \A j \in 1..Len(x) : j > around /\ x[j] = want[n] => k <= j
<1> DEFINE S == {k \in DOMAIN x : k > around /\ x[k] = want[n]} \cup {Len(x) + 1}
<1>1. S \in SUBSET Nat /\ S # {} OBVIOUS
<1>2. \E k \in S : \A j \in S : k <= j
  <2> HIDE DEF S
  <2> QED BY <1>1, LeastIs
<1>3. Min(S) \in S /\ \A j \in S : Min(S) <= j
  <2> HIDE DEF S
  <2> QED BY <1>2, <1>1 DEF Min
<1>4. Next(x, want, n, around) = Min(S) BY DEF Next
<1> DEFINE k == Next(x, want, n, around)
<1>5. k \in S /\ \A j \in S : k <= j BY <1>3, <1>4
<1>6. \A j \in 1..Len(x) : j > around /\ x[j] = want[n] => j \in S OBVIOUS
<1> HIDE DEF k
<1>7. k \in 1..Len(x) + 1 /\ (k <= Len(x) => k > around /\ x[k] = want[n])
  BY <1>5
<1>8. \A j \in 1..Len(x) : j > around /\ x[j] = want[n] => k <= j
  <2> HIDE DEF S
  <2> QED BY <1>5, <1>6
<1> QED BY <1>7, <1>8 DEF k

\* If the last tag is found, all are.
LEMMA FoundHasAll ==
  ASSUME NEW x, Len(x) \in Nat, DOMAIN x = 1..Len(x), NEW want, Len(want) \in Nat \ {0},
         Reached(x, want) <= Len(x)
  PROVE  /\ \A n \in 1..Len(want) : want[n] \in Range(x)
         /\ Reached(x, want) \in 1..Len(x) /\ x[Reached(x, want)] = want[Len(want)]
<1>0. PICK f : Course(x, want, Len(want), f) /\ Reached(x, want) = f[Len(want)]
  BY ReachedIs
<1> DEFINE L == Len(want)
<1>1. Course(x, want, L, f) /\ Reached(x, want) = f[L] BY <1>0
<1>2. L \in Nat \ {0} OBVIOUS
<1> HIDE DEF L
<1>3. f[0] = 0 /\ \A n \in 1..L : f[n] = Next(x, want, n, f[n - 1])
  BY <1>1, <1>2 DEF Course
<1> DEFINE Right(n) == /\ f[n] \in 0..Len(x) + 1
                       /\ f[n] <= Len(x) => \A m \in 1..n : /\ f[m] \in 1..Len(x)
                                                            /\ x[f[m]] = want[m]
           Good == {n \in 0..L : Right(n)}
<1>4. 0 \in Good BY <1>2, <1>3
<1>5. ASSUME NEW n \in 1..L, n - 1 \in Good PROVE n \in Good
  <2>1. n \in Nat /\ n - 1 \in Nat /\ Right(n - 1) BY <1>2, <1>5
  <2>2. f[n - 1] \in Nat BY <2>1
  <2>3. f[n] = Next(x, want, n, f[n - 1]) BY <1>3
  <2>4. /\ f[n] \in 1..Len(x) + 1
        /\ f[n] <= Len(x) => f[n] > f[n - 1] /\ x[f[n]] = want[n]
    BY <2>2, <2>3, NextIs
  <2>5. f[n] <= Len(x) => f[n - 1] <= Len(x) BY <2>1, <2>2, <2>4
  <2>6. \A m \in 1..n : m = n \/ m \in 1..n - 1 BY <2>1
  <2>7. Right(n) BY <2>1, <2>4, <2>5, <2>6
  <2> HIDE DEF Right
  <2> QED BY <2>7, <1>2
<1>6. Good = 0..L
  <2>1. Good \in SUBSET (0..L) OBVIOUS
  <2> HIDE DEF Good
  <2> QED BY <1>2, <1>4, <1>5, <2>1, UpTo
<1>7. Right(L)
  <2> HIDE DEF Right
  <2> QED BY <1>2, <1>6
<1>8. \A m \in 1..L : f[m] \in 1..Len(x) /\ x[f[m]] = want[m] BY <1>1, <1>7
<1> QED BY <1>1, <1>2, <1>8 DEF Range, L

\* In an element itself, what is around it but for the first tag, and it, are found one by one.
LEMMA FoundInItself ==
  ASSUME NEW x, Len(x) \in Nat \ {0, 1}, DOMAIN x = 1..Len(x), x[1] # x[2],
         NEW want, Len(want) = Len(x) - 1, \A n \in 1..Len(want) : want[n] = x[n + 1]
  PROVE  Reached(x, want) = Len(x)
<1>1. PICK f : Course(x, want, Len(want), f) /\ Reached(x, want) = f[Len(want)]
  BY ReachedIs
<1> DEFINE L == Len(want)
<1>2. L \in Nat \ {0} /\ L + 1 = Len(x) /\ \A n \in 1..L : want[n] = x[n + 1] OBVIOUS
<1>3. Course(x, want, L, f) BY <1>1
<1> HIDE DEF L
<1>4. f[0] = 0 /\ \A n \in 1..L : f[n] = Next(x, want, n, f[n - 1])
  BY <1>3, <1>2 DEF Course
<1> DEFINE Good == {n \in 0..L : n = 0 \/ f[n] = n + 1}
<1>5. ASSUME NEW n \in 1..L, n - 1 \in Good PROVE n \in Good
  <2>1. n \in Nat /\ n + 1 \in 1..Len(x) /\ want[n] = x[n + 1] BY <1>2
  <2>2. f[n - 1] \in Nat /\ f[n - 1] <= n /\ (n = 1 \/ f[n - 1] = n) BY <2>1, <1>4, <1>5
  <2>3. f[n] = Next(x, want, n, f[n - 1]) BY <1>4
  <2>4. f[n] <= n + 1 /\ f[n] \in 1..Len(x) /\ f[n] > f[n - 1] /\ x[f[n]] = x[n + 1]
    BY <2>1, <2>2, <2>3, NextIs
  <2>5. f[n] = n + 1
    <3>1. CASE n = 1
      <4>1. f[n] \in {1, 2} BY <2>4, <3>1
      <4>2. f[n] # 1 BY <2>4, <3>1
      <4> QED BY <4>1, <4>2, <3>1
    <3>2. CASE n # 1 BY <2>1, <2>2, <2>4, <3>2
    <3> QED BY <3>1, <3>2
  <2> QED BY <2>5, <1>2
<1>6. Good = 0..L
  <2>1. Good \in SUBSET (0..L) /\ 0 \in Good BY <1>2
  <2> HIDE DEF Good
  <2> QED BY <1>2, <1>5, <2>1, UpTo
<1>7. L \in Good BY <1>2, <1>6
<1> QED BY <1>1, <1>2, <1>7 DEF L

\* Of each setting what is searched for.
LEMMA SearchesAre ==
  ASSUME SettingsXmlAssumption, NEW types, NEW x, Element(x)
  PROVE  LET want == Searches(x, types)
         IN /\ Len(want) = Len(x) - 1 /\ Len(want) \in Nat \ {0} /\ DOMAIN want = 1..Len(want)
            /\ want[Len(want)] = x[Len(x)]
            /\ Tag(x) \in Range(want)
            /\ x[3] \in Streams => x[3] \in Range(want)
            /\ OfSwitchLnb(x, types) => "nb" \in Range(want)
            /\ ~OfSwitchLnb(x, types) => \A n \in 1..Len(want) : want[n] = x[n + 1]
<1> DEFINE want == Searches(x, types)
<1>1. /\ x \in Seq(AllTags) /\ Len(x) \in 3..8 /\ DOMAIN x = 1..Len(x) BY DEF Element
<1>2. want = [n \in 1..Len(x) - 1 |->
                IF x[n + 1] = "lnb1" /\ OfSwitchLnb(x, types) THEN "nb" ELSE x[n + 1]]
  BY DEF Searches
<1> HIDE DEF want
<1>3. Len(want) = Len(x) - 1 /\ DOMAIN want = 1..Len(x) - 1 BY <1>1, <1>2
<1>4. {"data", "lnb1", "value"} \subseteq OuterTags BY DEF OuterTags
<1>5. Tag(x) \notin {"data", "lnb1"} /\ x[Len(x)] # "lnb1" /\ x[1] = "data"
  BY <1>4, TagsApart, EndsAre DEF Element
<1>6. \A t \in Range(x) \ {"data", "lnb1"} : t \in Range(want)
  <2>1. SUFFICES ASSUME NEW n \in 1..Len(x), x[n] \notin {"data", "lnb1"} PROVE x[n] \in Range(want)
    BY <1>1 DEF Range
  <2>2. n # 1 BY <1>5, <2>1
  <2>3. n - 1 \in 1..Len(x) - 1 /\ (n - 1) + 1 = n BY <1>1, <2>2
  <2>4. want[n - 1] = x[n] BY <1>2, <2>1, <2>3
  <2> QED BY <1>3, <2>3, <2>4 DEF Range
<1>7. x[3] \in Streams => x[3] \in Range(x) \ {"data", "lnb1"}
  BY <1>1, <1>4 DEF Range, SettingsXmlAssumption
<1>8. Len(want) \in Nat \ {0} /\ want[Len(want)] = x[Len(x)]
  <2>1. Len(x) - 1 \in 1..Len(x) - 1 /\ (Len(x) - 1) + 1 = Len(x) BY <1>1
  <2> QED BY <1>2, <1>3, <1>5, <2>1
<1>9. ASSUME OfSwitchLnb(x, types) PROVE "nb" \in Range(want)
  <2>1. PICK n \in 1..Len(x) : x[n] = "lnb1" BY <1>1, <1>9 DEF OfSwitchLnb, Range
  <2>2. n # 1 BY <1>5, <2>1
  <2>3. n - 1 \in 1..Len(x) - 1 /\ (n - 1) + 1 = n BY <1>1, <2>2
  <2>4. want[n - 1] = "nb" BY <1>2, <1>9, <2>1, <2>3
  <2> QED BY <1>3, <2>3, <2>4 DEF Range
<1>10. ~OfSwitchLnb(x, types) => \A n \in 1..Len(want) : want[n] = x[n + 1] BY <1>2, <1>3
<1>11. DOMAIN want = 1..Len(want) BY <1>3
<1> QED BY <1>3, <1>5, <1>6, <1>7, <1>8, <1>9, <1>10, <1>11 DEF want, Element

\* What a search for a setting finds, in a file with settings of other types: its element, if
\* that is there; but nothing for the LNBs of a switch.
LEMMA SearchFinds ==
  ASSUME SettingsXmlAssumption, NEW old, NEW new, NEW e \in SatPIXml(new)
  PROVE  Found(e, new, SatPIXml(old)) =
           IF e \in SatPIXml(old) /\ ~OfSwitchLnb(e, new) THEN {e} ELSE {}
<1> DEFINE want == Searches(e, new)
<1>1. Element(e) BY ElementOfFile
<1>2. /\ Len(want) = Len(e) - 1 /\ Len(want) \in Nat \ {0} /\ want[Len(want)] = e[Len(e)]
      /\ DOMAIN want = 1..Len(want)
      /\ Tag(e) \in Range(want) /\ (e[3] \in Streams => e[3] \in Range(want))
      /\ OfSwitchLnb(e, new) => "nb" \in Range(want)
      /\ ~OfSwitchLnb(e, new) => \A n \in 1..Len(want) : want[n] = e[n + 1]
  BY <1>1, SearchesAre
<1>3. Found(e, new, SatPIXml(old)) =
        {SubSeq(x, 1, Reached(x, want)) : x \in {y \in SatPIXml(old) : Reached(y, want) <= Len(y)}}
  BY DEF Found, FindXMLElement
<1> HIDE DEF want
<1>5. ASSUME NEW x \in SatPIXml(old), Reached(x, want) <= Len(x)
      PROVE  x = e /\ ~OfSwitchLnb(e, new)
  <2>1. Element(x) BY ElementOfFile
  <2>2. Len(x) \in Nat /\ DOMAIN x = 1..Len(x) BY <2>1 DEF Element
  <2>3. \A t \in Range(want) : t \in Range(x)
    <3>1. \A n \in 1..Len(want) : want[n] \in Range(x) BY <1>2, <1>5, <2>2, FoundHasAll
    <3> QED BY <1>2, <3>1 DEF Range
  <2>4. Tag(e) = Tag(x) BY <1>1, <1>2, <2>1, <2>3, OwnTags DEF Element
  <2>5. e[3] \in Streams => e[3] = x[3] BY <1>2, <2>1, <2>3, OwnTags
  <2> QED BY <1>1, <1>2, <2>1, <2>3, <2>4, <2>5, SamePlace, OwnTags
<1>6. ASSUME ~OfSwitchLnb(e, new) PROVE Reached(e, want) = Len(e) /\ SubSeq(e, 1, Len(e)) = e
  <2>1. Len(e) \in Nat \ {0, 1} /\ DOMAIN e = 1..Len(e) /\ e \in Seq(AllTags) BY <1>1 DEF Element
  <2>2. e[1] # e[2] BY <1>1, EndsAre
  <2>3. Reached(e, want) = Len(e) BY <1>2, <1>6, <2>1, <2>2, FoundInItself
  <2>4. SubSeq(e, 1, Len(e)) = e BY <2>1
  <2> QED BY <2>3, <2>4
<1> DEFINE found == {y \in SatPIXml(old) : Reached(y, want) <= Len(y)}
<1>7. found \subseteq {e} /\ (found # {} => ~OfSwitchLnb(e, new)) BY <1>5
<1>8. e \in SatPIXml(old) /\ ~OfSwitchLnb(e, new) => e \in found
  BY <1>1, <1>6 DEF Element
<1>9. found \subseteq SatPIXml(old) OBVIOUS
<1>10. Found(e, new, SatPIXml(old)) = {SubSeq(x, 1, Reached(x, want)) : x \in found} BY <1>3
<1> HIDE DEF found
<1>11. CASE e \in SatPIXml(old) /\ ~OfSwitchLnb(e, new)
  <2>1. found = {e} BY <1>7, <1>8, <1>11
  <2>2. SubSeq(e, 1, Reached(e, want)) = e BY <1>6, <1>11
  <2> QED BY <1>10, <1>11, <2>1, <2>2
<1>12. CASE ~(e \in SatPIXml(old) /\ ~OfSwitchLnb(e, new))
  <2>1. found = {} BY <1>7, <1>9, <1>12
  <2> QED BY <1>10, <1>12, <2>1
<1> QED BY <1>11, <1>12

-----------------------------------------------------------------------------
(* The settings *)

\* What is found for a setting.
LEMMA LookupIs ==
  ASSUME SettingsXmlAssumption, NEW old \in DiseqcTypeChoices, NEW new \in DiseqcTypeChoices,
         NEW e \in SatPIXml(new)
  PROVE  Lookup[old][new][e] = IF e \in SatPIXml(old) /\ ~OfSwitchLnb(e, new) THEN {e} ELSE {}
<1> DEFINE row(o, n) == Tabulated([x \in SatPIXml(n) |-> Found(x, n, SatPIXml(o))])
           rows(o) == Tabulated([n \in DiseqcTypeChoices |-> row(o, n)])
<1>1. ASSUME NEW f PROVE Tabulated(f) = f BY DEF Tabulated
<1>2. Lookup = Tabulated([o \in DiseqcTypeChoices |-> rows(o)]) BY Zenon DEF Lookup
<1>3. row(old, new)[e] = Found(e, new, SatPIXml(old)) BY <1>1
<1> HIDE DEF row
<1>4. rows(old)[new] = row(old, new) BY <1>1
<1> HIDE DEF rows
<1>5. Lookup[old] = rows(old) BY <1>1, <1>2
<1> QED BY <1>3, <1>4, <1>5, SearchFinds

\* The settings of a DiSEqC.
DiseqcSettings == UNION {DiSEqcTags, SwitchTags, UnicableTags, LnbTags, {"lnbtype"}}

LEMMA OfDiseqcIs ==
  ASSUME SettingsXmlAssumption, NEW types, NEW x \in SatPIXml(types)
  PROVE  /\ OfDiseqc(x) <=> Tag(x) \in DiseqcSettings
         /\ \A t : OfSwitchLnb(x, t) => OfDiseqc(x)
<1> DEFINE Others == UNION {StreamTags, DeviceTags, FrontendTags, TransformationTags, FilterTags,
                            DVBSTags, DVBTTags, DecryptTags, PropertiesTags,
                            {"annouceTime", "bootID", "deviceID"}}
           DiseqcOuter == {"diseqc", "lnb1"}
           Plain(e) == Range(e) \cap DiseqcOuter = {} /\ Tag(e) \in Others
           Within(e) == "diseqc" \in Range(e) /\ Tag(e) \in DiseqcSettings
<1>1. Others \cap DiseqcSettings = {} /\ (Others \cup DiseqcSettings) \cap DiseqcOuter = {}
  BY DEF DiseqcSettings, LnbTags, DiSEqcTags, SwitchTags, UnicableTags, DVBTTags, DVBSTags,
         TransformationTags, FilterTags, FrontendTags, DeviceTags, StreamTags, DecryptTags,
         PropertiesTags
<1>2. \A i \in Streams : i \notin DiseqcOuter BY DEF OuterTags, SettingsXmlAssumption
<1>3. ASSUME Plain(x) \/ Within(x) PROVE OfDiseqc(x) <=> Tag(x) \in DiseqcSettings
  BY <1>1, <1>3 DEF OfDiseqc
<1>4. ASSUME Plain(x) \/ Within(x) PROVE \A t : OfSwitchLnb(x, t) => OfDiseqc(x)
  BY <1>4 DEF OfDiseqc, OfSwitchLnb
<1>5. CASE StreamPlace(x)
  <2>1. PICK i \in Streams, t \in StreamTags \cup DeviceTags \cup FrontendTags :
          x = <<"data", "streams", i, t, "value">>
    BY <1>5 DEF StreamPlace
  <2>2. Tag(x) = t /\ Range(x) = {"data", "streams", i, t, "value"} BY <2>1 DEF Tag, Last, Range
  <2>3. t \in Others OBVIOUS
  <2> HIDE DEF Others
  <2> QED BY <1>1, <1>2, <1>3, <1>4, <2>2, <2>3
<1>6. CASE TransformationPlace(x)
  <2>1. PICK i \in Streams, t \in TransformationTags :
          x = <<"data", "streams", i, "transformation", t, "value">>
    BY <1>6 DEF TransformationPlace
  <2>2. Tag(x) = t /\ Range(x) = {"data", "streams", i, "transformation", t, "value"}
    BY <2>1 DEF Tag, Last, Range
  <2>3. t \in Others OBVIOUS
  <2> HIDE DEF Others
  <2> QED BY <1>1, <1>2, <1>3, <1>4, <2>2, <2>3
<1>7. CASE FilterPlace(x)
  <2>1. PICK i \in Streams, t \in FilterTags : x = <<"data", "streams", i, "filter", t, "value">>
    BY <1>7 DEF FilterPlace
  <2>2. Tag(x) = t /\ Range(x) = {"data", "streams", i, "filter", t, "value"}
    BY <2>1 DEF Tag, Last, Range
  <2>3. t \in Others OBVIOUS
  <2> HIDE DEF Others
  <2> QED BY <1>1, <1>2, <1>3, <1>4, <2>2, <2>3
<1>8. CASE DeliveryPlace(x)
  <2>1. PICK i \in Streams, t \in DVBSTags \cup DVBTTags :
          x = <<"data", "streams", i, "deliverySystem0", t, "value">>
    BY <1>8 DEF DeliveryPlace
  <2>2. Tag(x) = t /\ Range(x) = {"data", "streams", i, "deliverySystem0", t, "value"}
    BY <2>1 DEF Tag, Last, Range
  <2>3. t \in Others OBVIOUS
  <2> HIDE DEF Others
  <2> QED BY <1>1, <1>2, <1>3, <1>4, <2>2, <2>3
<1>9. CASE DiseqcPlace(x)
  <2>1. PICK i \in Streams, t \in DiSEqcTags \cup SwitchTags \cup UnicableTags :
          x = <<"data", "streams", i, "deliverySystem0", "diseqc", t, "value">>
    BY <1>9 DEF DiseqcPlace
  <2>2. Tag(x) = t /\ Range(x) = {"data", "streams", i, "deliverySystem0", "diseqc", t, "value"}
    BY <2>1 DEF Tag, Last, Range
  <2>3. t \in DiseqcSettings BY DEF DiseqcSettings
  <2> QED BY <1>3, <1>4, <2>2, <2>3
<1>10. CASE LnbPlace(x)
  <2>1. PICK i \in Streams :
          \/ \E t \in LnbTags :
               x = <<"data", "streams", i, "deliverySystem0", "diseqc", "lnb1", t, "value">>
          \/ x = <<"data", "streams", i, "deliverySystem0", "diseqc", "lnb1", "lnbtype">>
    BY <1>10 DEF LnbPlace
  <2>2. Within(x)
    <3>1. CASE \E t \in LnbTags :
                 x = <<"data", "streams", i, "deliverySystem0", "diseqc", "lnb1", t, "value">>
      <4>1. PICK t \in LnbTags :
              x = <<"data", "streams", i, "deliverySystem0", "diseqc", "lnb1", t, "value">>
        BY <3>1
      <4>2. Tag(x) = t /\ x[5] = "diseqc" /\ 5 \in DOMAIN x BY <4>1 DEF Tag, Last
      <4> QED BY <4>2 DEF DiseqcSettings, Range
    <3>2. CASE x = <<"data", "streams", i, "deliverySystem0", "diseqc", "lnb1", "lnbtype">>
      <4>1. Tag(x) = "lnbtype" /\ x[5] = "diseqc" /\ 5 \in DOMAIN x BY <3>2 DEF Tag, Last
      <4> QED BY <4>1 DEF DiseqcSettings, Range
    <3> QED BY <2>1, <3>1, <3>2
  <2> QED BY <1>3, <1>4, <2>2
<1>11. CASE DecryptPlace(x)
  <2>1. PICK t \in DecryptTags : x = <<"data", "streams", "decrypt", t, "value">>
    BY <1>11 DEF DecryptPlace
  <2>2. Tag(x) = t /\ Range(x) = {"data", "streams", "decrypt", t, "value"}
    BY <2>1 DEF Tag, Last, Range
  <2>3. t \in Others OBVIOUS
  <2> HIDE DEF Others
  <2> QED BY <1>1, <1>3, <1>4, <2>2, <2>3
<1>12. CASE PropertiesPlace(x)
  <2>1. PICK t \in PropertiesTags : x = <<"data", "configdata", t, "value">>
    BY <1>12 DEF PropertiesPlace
  <2>2. Tag(x) = t /\ Range(x) = {"data", "configdata", t, "value"} BY <2>1 DEF Tag, Last, Range
  <2>3. t \in Others OBVIOUS
  <2> HIDE DEF Others
  <2> QED BY <1>1, <1>3, <1>4, <2>2, <2>3
<1>13. CASE ServerPlace(x)
  <2>1. Plain(x)
    <3>1. CASE x = <<"data", "ssdp", "annouceTime", "value">>
      <4>1. Tag(x) = "annouceTime" /\ Range(x) = {"data", "ssdp", "annouceTime", "value"}
        BY <3>1 DEF Tag, Last, Range
      <4> QED BY <4>1
    <3>2. CASE \E t \in {"bootID", "deviceID"} : x = <<"data", "ssdp", t>>
      <4>1. PICK t \in {"bootID", "deviceID"} : x = <<"data", "ssdp", t>> BY <3>2
      <4>2. Tag(x) = t /\ Range(x) = {"data", "ssdp", t} BY <4>1 DEF Tag, Last, Range
      <4> QED BY <4>2
    <3> QED BY <1>13, <3>1, <3>2 DEF ServerPlace
  <2> QED BY <1>3, <1>4, <2>1
<1> HIDE DEF Others
<1> QED BY <1>5, <1>6, <1>7, <1>8, <1>9, <1>10, <1>11, <1>12, <1>13, PlacesAre

-----------------------------------------------------------------------------
(* The texts *)

Characters == [char : Alphabet, escaped : Nat]

LEMMA SameText ==
  ASSUME NEW C, NEW t \in Seq(C), NEW u \in Seq(C)
  PROVE  Said(t) = Said(u) <=> Len(t) = Len(u) /\ \A n \in 1..Len(t) : t[n].char = u[n].char
<1> DEFINE char(c) == c.char
           a == [n \in 1..Len(t) |-> char(t[n])]
           b == [n \in 1..Len(u) |-> char(u[n])]
<1>1. Said(t) = a /\ Said(u) = b BY DEF Said
<1> HIDE DEF char
<1>2. Len(t) \in Nat /\ Len(u) \in Nat OBVIOUS
<1>3. ASSUME a = b PROVE Len(t) = Len(u) /\ \A n \in 1..Len(t) : char(t[n]) = char(u[n])
  <2>1. 1..Len(t) = 1..Len(u)
    <3>1. DOMAIN a = 1..Len(t) /\ DOMAIN b = 1..Len(u) OBVIOUS
    <3> QED BY <1>3, <3>1
  <2>2. Len(t) = Len(u) BY <1>2, <2>1
  <2>3. ASSUME NEW n \in 1..Len(t) PROVE char(t[n]) = char(u[n])
    <3>1. a[n] = char(t[n]) /\ b[n] = char(u[n]) BY <2>1
    <3> QED BY <1>3, <3>1
  <2> QED BY <2>2, <2>3
<1>4. ASSUME Len(t) = Len(u), \A n \in 1..Len(t) : char(t[n]) = char(u[n]) PROVE a = b
  BY <1>4
<1> QED BY <1>1, <1>3, <1>4 DEF char

LEMMA FrontIs ==
  ASSUME NEW C, NEW t \in Seq(C), t # <<>>
  PROVE  /\ Front(t) \in Seq(C) /\ Len(Front(t)) = Len(t) - 1
         /\ \A n \in 1..Len(t) - 1 : Front(t)[n] = t[n]
         /\ Last(t) = t[Len(t)]
<1>1. Len(t) \in Nat \ {0} BY EmptySeq
<1>2. Len(t) - 1 \in 0..Len(t) /\ 1 \in 1..Len(t) + 1 BY <1>1
<1> DEFINE m == Len(t) - 1
<1>3. Front(t) = SubSeq(t, 1, m) BY DEF Front
<1>4. m \in Int /\ \A k \in 1..m : t[k] \in C
  <2>1. \A k \in 1..m : k \in 1..Len(t) BY <1>1
  <2> QED BY <1>1, <2>1, ElementOfSeq
<1>5. m \in Nat /\ m = Len(t) - 1 BY <1>1
<1> HIDE DEF m
<1>6. 1 \in Int /\ (1 <= m \/ m = 0) BY <1>5
<1>7. /\ SubSeq(t, 1, m) \in Seq(C)
      /\ Len(SubSeq(t, 1, m)) = IF 1 <= m THEN m - 1 + 1 ELSE 0
      /\ \A k \in 1..m - 1 + 1 : SubSeq(t, 1, m)[k] = t[1 + k - 1]
  BY <1>4, SubSeqProperties
<1>8. Len(SubSeq(t, 1, m)) = m BY <1>5, <1>6, <1>7
<1>9. \A k \in 1..m : SubSeq(t, 1, m)[k] = t[k]
  <2>1. \A k \in 1..m : k \in 1..m - 1 + 1 /\ 1 + k - 1 = k BY <1>5
  <2> QED BY <1>7, <2>1
<1> QED BY <1>3, <1>5, <1>7, <1>8, <1>9 DEF Last

\* Without its commas a text is still one, and texts that say the same still do.
LEMMA TrimmedIs ==
  ASSUME NEW C, NEW t \in Seq(C)
  PROVE  /\ Trimmed(t) \in Seq(C)
         /\ \A u \in Seq(C) : Said(t) = Said(u) => Said(Trimmed(t)) = Said(Trimmed(u))
<1> DEFINE char(c) == c.char
           rest(s) == IF s # <<>> /\ char(Head(s)) = "," THEN Tail(s) ELSE s
           cut(s) == IF s # <<>> /\ char(Last(s)) = "," THEN Front(s) ELSE s
           Alike(s, u) == Len(s) = Len(u) /\ \A n \in 1..Len(s) : char(s[n]) = char(u[n])
<1>1. \A s : Trimmed(s) = cut(rest(s)) BY DEF Trimmed
<1>2. \A s \in Seq(C), u \in Seq(C) : Said(s) = Said(u) <=> Alike(s, u) BY SameText
<1> HIDE DEF char
<1>3. ASSUME NEW s \in Seq(C) PROVE rest(s) \in Seq(C)
  BY HeadTailProperties
<1>4. ASSUME NEW s \in Seq(C) PROVE cut(s) \in Seq(C) BY FrontIs
<1>5. ASSUME NEW s \in Seq(C), NEW u \in Seq(C), Alike(s, u) PROVE Alike(rest(s), rest(u))
  <2>1. s = <<>> <=> u = <<>> BY <1>5, EmptySeq
  <2>2. s # <<>> => char(Head(s)) = char(Head(u))
    <3>1. SUFFICES ASSUME s # <<>> PROVE char(Head(s)) = char(Head(u)) OBVIOUS
    <3>2. 1 \in 1..Len(s) BY <3>1, EmptySeq
    <3> QED BY <1>5, <3>2
  <2>3. CASE ~(s # <<>> /\ char(Head(s)) = ",") BY <2>1, <2>2, <2>3, <1>5
  <2>4. CASE s # <<>> /\ char(Head(s)) = ","
    <3>1. rest(s) = Tail(s) /\ rest(u) = Tail(u) BY <2>1, <2>2, <2>4
    <3>2. Len(Tail(s)) = Len(s) - 1 /\ Len(Tail(u)) = Len(u) - 1
      BY <2>1, <2>4, HeadTailProperties
    <3>3. ASSUME NEW n \in 1..Len(s) - 1 PROVE char(Tail(s)[n]) = char(Tail(u)[n])
      <4>1. Tail(s)[n] = s[n + 1] /\ Tail(u)[n] = u[n + 1]
        BY <1>5, <2>1, <2>4, <3>2, HeadTailProperties
      <4>2. n + 1 \in 1..Len(s) OBVIOUS
      <4> QED BY <1>5, <4>1, <4>2
    <3> QED BY <1>5, <3>1, <3>2, <3>3
  <2> QED BY <2>3, <2>4
<1>6. ASSUME NEW s \in Seq(C), NEW u \in Seq(C), Alike(s, u) PROVE Alike(cut(s), cut(u))
  <2>1. s = <<>> <=> u = <<>> BY <1>6, EmptySeq
  <2>2. s # <<>> => char(Last(s)) = char(Last(u))
    <3>1. SUFFICES ASSUME s # <<>> PROVE char(Last(s)) = char(Last(u)) OBVIOUS
    <3>2. Len(s) \in 1..Len(s) BY <3>1, EmptySeq
    <3>3. Last(s) = s[Len(s)] /\ Last(u) = u[Len(s)] BY <1>6 DEF Last
    <3> QED BY <1>6, <3>2, <3>3
  <2>3. CASE ~(s # <<>> /\ char(Last(s)) = ",") BY <2>1, <2>2, <2>3, <1>6
  <2>4. CASE s # <<>> /\ char(Last(s)) = ","
    <3>1. cut(s) = Front(s) /\ cut(u) = Front(u) BY <2>1, <2>2, <2>4
    <3>2. /\ Len(Front(s)) = Len(s) - 1 /\ Len(Front(u)) = Len(u) - 1
          /\ \A n \in 1..Len(s) - 1 : Front(s)[n] = s[n]
          /\ \A n \in 1..Len(u) - 1 : Front(u)[n] = u[n]
      BY <2>1, <2>4, FrontIs
    <3>3. \A n \in 1..Len(s) - 1 : n \in 1..Len(s) OBVIOUS
    <3>4. \A n \in 1..Len(s) - 1 : char(Front(s)[n]) = char(Front(u)[n])
      BY <1>6, <3>2, <3>3
    <3>5. Len(Front(s)) = Len(Front(u)) BY <1>6, <3>2
    <3> QED BY <3>1, <3>2, <3>4, <3>5
  <2> QED BY <2>3, <2>4
<1> HIDE DEF rest, cut, Alike
<1>7. Trimmed(t) \in Seq(C) BY <1>1, <1>3, <1>4
<1>8. ASSUME NEW u \in Seq(C), Said(t) = Said(u) PROVE Said(Trimmed(t)) = Said(Trimmed(u))
  <2>1. Alike(t, u) BY <1>2, <1>8
  <2>2. rest(t) \in Seq(C) /\ rest(u) \in Seq(C) /\ Alike(rest(t), rest(u)) BY <1>3, <1>5, <2>1
  <2>3. /\ cut(rest(t)) \in Seq(C) /\ cut(rest(u)) \in Seq(C)
        /\ Alike(cut(rest(t)), cut(rest(u)))
    BY <1>4, <1>6, <2>2
  <2> QED BY <1>1, <1>2, <2>3
<1> QED BY <1>7, <1>8

LEMMA EscapedIs ==
  ASSUME NEW text \in Seq(Characters)
  PROVE  EscapedText(text) \in Seq(Characters) /\ Said(EscapedText(text)) = Said(text)
<1> DEFINE more(c) == [c EXCEPT !.escaped = @ + IF c.char \in Escapable THEN 1 ELSE 0]
<1>1. ASSUME NEW c \in Characters PROVE more(c) \in Characters /\ more(c).char = c.char
  BY DEF Characters
<1>2. EscapedText(text) = [n \in 1..Len(text) |-> more(text[n])] BY DEF EscapedText
<1> HIDE DEF more
<1>3. EscapedText(text) \in Seq(Characters) BY <1>1, <1>2
<1>4. Len(EscapedText(text)) = Len(text) BY <1>2
<1>5. ASSUME NEW n \in 1..Len(text) PROVE EscapedText(text)[n].char = text[n].char
  <2>1. text[n] \in Characters OBVIOUS
  <2>2. EscapedText(text)[n] = more(text[n]) BY <1>2
  <2> QED BY <1>1, <2>1, <2>2
<1> QED BY <1>3, <1>4, <1>5, SameText

LEMMA TypedIs ==
  ASSUME NEW text \in Seq(Alphabet)
  PROVE  Typed(text) \in Seq(Characters)
<1> DEFINE plain(c) == [char |-> c, escaped |-> 0]
<1>1. ASSUME NEW c \in Alphabet PROVE plain(c) \in Characters BY DEF Characters
<1>2. Typed(text) = [n \in 1..Len(text) |-> plain(text[n])] BY DEF Typed
<1> HIDE DEF plain
<1>3. \A n \in 1..Len(text) : text[n] \in Alphabet BY ElementOfSeq
<1>4. \A n \in 1..Len(text) : plain(text[n]) \in Characters BY <1>1, <1>3, Zenon
<1> DEFINE f == [n \in 1..Len(text) |-> plain(text[n])]
<1>5. f \in [1..Len(text) -> Characters] BY <1>4, Zenon
<1>6. Len(text) \in Nat BY LenProperties
<1> HIDE DEF f
<1>7. f \in Seq(Characters) BY <1>5, <1>6, IsASeq
<1> QED BY <1>2, <1>7 DEF f

-----------------------------------------------------------------------------
(* The values *)

LEMMA PortsAre ==
  ASSUME SettingsXmlAssumption
  PROVE  /\ \A tag \in PortTags : PortRange(tag) \subseteq Nat \ {0}
         /\ \A opts \in Options, tag \in PortTags : opts[tag] = 0 \/ opts[tag] \in PortRange(tag)
         /\ 8875 \in PortRange("httpport") /\ 554 \in PortRange("rtspport")
<1>1. HttpPorts \subseteq Nat \ {0} /\ RtspPorts \subseteq Nat \ {0}
  BY SMT DEF HttpPorts, RtspPorts
<1>2. 8875 \in HttpPorts /\ 554 \in RtspPorts BY SMT DEF HttpPorts, RtspPorts
<1>3. PortRange("httpport") = HttpPorts /\ PortRange("rtspport") = RtspPorts
  BY DEF PortRange
<1>4. \A tag \in PortTags : PortRange(tag) \subseteq Nat \ {0} BY <1>1, <1>3 DEF PortTags
<1>5. \A opts \in Options, tag \in PortTags : opts[tag] = 0 \/ opts[tag] \in PortRange(tag)
  BY Zenon DEF SettingsXmlAssumption
<1> QED BY <1>2, <1>3, <1>4, <1>5

Limited == {"dvrbuffer", "waitOnLockTimeout", "numberOfInputs", "switchType", "advertiseAsType"}

LEMMA AcceptedIs ==
  ASSUME SettingsXmlAssumption, NEW e, NEW old, NEW v, NEW opts
  PROVE  /\ Tag(e) \in PortTags =>
              Accepted(e, old, v, opts) =
                IF v \notin PortRange(Tag(e)) THEN old
                ELSE IF opts[Tag(e)] # 0 THEN opts[Tag(e)] ELSE v
         /\ Tag(e) = "addUserPids" => Accepted(e, old, v, opts) = Trimmed(v)
         /\ Tag(e) = "dvrbuffer" => Accepted(e, old, v, opts) = IF v < 30 THEN v ELSE 3
         /\ Tag(e) = "waitOnLockTimeout" => Accepted(e, old, v, opts) = IF v < 3500 THEN v ELSE 3500
         /\ Tag(e) = "numberOfInputs" => Accepted(e, old, v, opts) = IF v > 0 THEN v ELSE 1
         /\ Tag(e) = "switchType" => Accepted(e, old, v, opts) = IF v <= 2 THEN v ELSE old
         /\ Tag(e) = "advertiseAsType" => Accepted(e, old, v, opts) = IF v <= 3 THEN v ELSE old
         /\ Tag(e) \notin PortTags \cup Limited \cup {"addUserPids"} =>
              Accepted(e, old, v, opts) = v
<1> DEFINE tag == Tag(e)
<1> HIDE DEF tag
<1> QED BY SMT DEF Accepted, PortTags, Limited, tag

\* A value that is sound is taken as it is, but for the commas; a port, if the command line does
\* not say otherwise.
LEMMA SoundTaken ==
  ASSUME SettingsXmlAssumption, NEW e, NEW opts, NEW v, Sound(e, v, opts), NEW old,
         NEW now \in Options
  PROVE  /\ Tag(e) \notin PortTags \cup {"addUserPids"} => Accepted(e, old, v, now) = v
         /\ Tag(e) \in PortTags =>
              Accepted(e, old, v, now) = IF now[Tag(e)] # 0 THEN now[Tag(e)] ELSE v
         /\ Tag(e) \notin TextInputs => Sound(e, Accepted(e, old, v, now), now)
<1> DEFINE tag == Tag(e)
<1>1. CASE tag \in PortTags
  <2>1. v \in PortRange(tag) BY <1>1 DEF Sound
  <2>2. Accepted(e, old, v, now) = IF now[tag] # 0 THEN now[tag] ELSE v BY <2>1, <1>1, AcceptedIs
  <2>3. tag \notin Limited \cup TextInputs \cup {"addUserPids"}
    BY <1>1 DEF PortTags, Limited, TextInputs
  <2>4. now[tag] = 0 \/ now[tag] \in PortRange(tag) BY <1>1, PortsAre
  <2>5. Accepted(e, old, v, now) \in PortRange(tag) BY <2>1, <2>2, <2>4
  <2>6. Sound(e, Accepted(e, old, v, now), now)
    BY <2>2, <2>3, <2>5 DEF Sound, Limited
  <2> QED BY <1>1, <2>2, <2>3, <2>6
<1>2. CASE tag \in Limited
  <2>1. tag \notin PortTags \cup TextInputs \cup {"addUserPids"}
    BY <1>2 DEF PortTags, Limited, TextInputs
  <2>2. Accepted(e, old, v, now) = v
    <3>1. CASE tag = "dvrbuffer"
      <4>1. v \in 0..29 BY <3>1 DEF Sound
      <4> QED BY <3>1, <4>1, AcceptedIs
    <3>2. CASE tag = "waitOnLockTimeout"
      <4>1. v \in 0..3500 BY <3>2 DEF Sound
      <4>2. v < 3500 \/ v = 3500 BY <4>1
      <4> QED BY <3>2, <4>2, AcceptedIs
    <3>3. CASE tag = "numberOfInputs"
      <4>1. v \in Nat \ {0} BY <3>3 DEF Sound
      <4> QED BY <3>3, <4>1, AcceptedIs
    <3>4. CASE tag = "switchType"
      <4>1. v \in 0..2 BY <3>4 DEF Sound
      <4> QED BY <3>4, <4>1, AcceptedIs
    <3>5. CASE tag = "advertiseAsType"
      <4>1. v \in 0..3 BY <3>5 DEF Sound
      <4> QED BY <3>5, <4>1, AcceptedIs
    <3> QED BY <1>2, <3>1, <3>2, <3>3, <3>4, <3>5 DEF Limited
  <2>3. Sound(e, v, now) BY <2>1 DEF Sound
  <2> QED BY <2>1, <2>2, <2>3
<1>3. CASE tag \notin PortTags \cup Limited
  <2>1. tag # "addUserPids" => Accepted(e, old, v, now) = v BY <1>3, AcceptedIs
  <2>2. tag \notin TextInputs => Sound(e, v, now) BY <1>3 DEF Sound, Limited
  <2>3. "addUserPids" \in TextInputs BY DEF TextInputs
  <2> QED BY <1>3, <2>1, <2>2, <2>3
<1> QED BY <1>1, <1>2, <1>3

\* The values of the constructors are sound.
LEMMA DefaultIs ==
  ASSUME SettingsXmlAssumption, NEW e, NEW opts \in Options
  PROVE  /\ Sound(e, Default(e, opts), opts)
         /\ Tag(e) = "diseqcType" => Default(e, opts) = "lnb"
         /\ Tag(e) \in PortTags /\ opts[Tag(e)] # 0 => Default(e, opts) = opts[Tag(e)]
<1> DEFINE tag == Tag(e)
           d == Default(e, opts)
           a == Typed(<<"a">>)
<1>1. /\ tag = "diseqcType" => d = "lnb"
      /\ tag \in TextInputs => d = a
      /\ tag = "httpport" => d = IF opts[tag] = 0 THEN 8875 ELSE opts[tag]
      /\ tag = "rtspport" => d = IF opts[tag] = 0 THEN 554 ELSE opts[tag]
      /\ tag = "dvrbuffer" => d = 3
      /\ tag \in Limited \ {"dvrbuffer"} => d = 1
  <2> HIDE DEF a
  <2>1. d = CASE tag = "diseqcType" -> "lnb"
              [] tag \in Checkboxes -> tag \in {"enable", "OSCamEnabled"}
              [] tag \in TextInputs -> a
              [] tag = "httpport" -> IF opts[tag] = 0 THEN 8875 ELSE opts[tag]
              [] tag = "rtspport" -> IF opts[tag] = 0 THEN 554 ELSE opts[tag]
              [] tag = "dvrbuffer" -> 3
              [] OTHER -> 1
    BY DEF Default, a
  <2> HIDE DEF d, tag
  <2> QED BY <2>1 DEF Checkboxes, TextInputs, Limited
<1>2. <<"a">> \in Seq(Alphabet)
  <2>1. ASSUME NEW S, NEW c \in S PROVE <<c>> \in Seq(S) OBVIOUS
  <2>2. "a" \in Alphabet BY DEF Alphabet
  <2> QED BY <2>1, <2>2
<1>3. a \in Seq(Characters) BY <1>2, TypedIs
<1> HIDE DEF d, a
<1>4. ASSUME tag \in PortTags
      PROVE  d \in PortRange(tag) /\ opts[tag] \in {0, d} /\ (opts[tag] # 0 => d = opts[tag])
  <2>1. opts[tag] = 0 \/ opts[tag] \in PortRange(tag) BY <1>4, PortsAre
  <2>2. CASE tag = "httpport" BY <2>1, <2>2, <1>1, PortsAre
  <2>3. CASE tag = "rtspport" BY <2>1, <2>3, <1>1, PortsAre
  <2> QED BY <1>4, <2>2, <2>3 DEF PortTags
<1>5. Sound(e, d, opts) BY <1>1, <1>3, <1>4 DEF Sound, Limited, Characters
<1> QED BY <1>1, <1>4, <1>5 DEF d

\* What is posted is sound, or the setting is left as it was; and only a port that is refused is.
LEMMA PostTaken ==
  ASSUME SettingsXmlAssumption, NEW e, NEW opts \in Options, NEW old, Sound(e, old, opts),
         NEW v \in PostsFor(e)
  PROVE  /\ Tag(e) \notin TextInputs => Sound(e, Accepted(e, old, v, opts), opts)
         /\ Tag(e) \notin TextInputs \cup PortTags =>
              \A other : Accepted(e, other, v, opts) = Accepted(e, old, v, opts)
         /\ Tag(e) \in TextInputs => v \in Seq(Characters)
<1> DEFINE tag == Tag(e)
<1>1. /\ tag = "switchType" => v \in 0..2
      /\ tag = "advertiseAsType" => v \in 0..3
      /\ tag \in TextInputs => v \in {Typed(text) : text \in TextPosts}
      /\ tag \in PortTags \cup {"dvrbuffer", "waitOnLockTimeout", "numberOfInputs"} =>
           v \in NumberPosts
  <2> DEFINE texts == {Typed(text) : text \in TextPosts}
  <2>1. PostsFor(e) =
          CASE tag = "diseqcType" -> DiseqcTypes
            [] tag \in Checkboxes -> BOOLEAN
            [] tag \in TextInputs -> texts
            [] tag = "switchType" -> 0..2
            [] tag = "advertiseAsType" -> 0..3
            [] OTHER -> NumberPosts
    BY DEF PostsFor
  <2> HIDE DEF texts, tag
  <2> DEFINE P == PostsFor(e)
  <2>2. P = CASE tag = "diseqcType" -> DiseqcTypes
              [] tag \in Checkboxes -> BOOLEAN
              [] tag \in TextInputs -> texts
              [] tag = "switchType" -> 0..2
              [] tag = "advertiseAsType" -> 0..3
              [] OTHER -> NumberPosts
    BY <2>1
  <2>3. v \in P OBVIOUS
  <2> HIDE DEF P
  <2> QED BY <2>2, <2>3 DEF Checkboxes, TextInputs, PortTags, texts
<1>2. NumberPosts \subseteq Nat /\ TextPosts \subseteq Seq(Alphabet) BY DEF SettingsXmlAssumption
<1>3. ASSUME tag \in TextInputs PROVE v \in Seq(Characters)
  <2>1. PICK text \in TextPosts : v = Typed(text) BY <1>1, <1>3
  <2> QED BY <1>2, <2>1, TypedIs
<1>4. CASE tag \in TextInputs BY <1>3, <1>4
<1>5. CASE tag \in PortTags
  <2>1. tag \notin Limited \cup TextInputs BY <1>5 DEF PortTags, Limited, TextInputs
  <2>2. old \in PortRange(tag) /\ opts[tag] \in {0, old} BY <1>5 DEF Sound
  <2>3. Accepted(e, old, v, opts) =
          IF v \notin PortRange(tag) THEN old ELSE IF opts[tag] # 0 THEN opts[tag] ELSE v
    BY <1>5, AcceptedIs
  <2>4. Accepted(e, old, v, opts) \in PortRange(tag) /\ opts[tag] \in {0, Accepted(e, old, v, opts)}
    BY <2>2, <2>3
  <2> QED BY <1>5, <2>1, <2>4 DEF Sound, Limited
<1>6. CASE tag \in Limited
  <2>1. tag \notin PortTags \cup TextInputs BY <1>6 DEF PortTags, Limited, TextInputs
  <2> DEFINE new(other) == Accepted(e, other, v, opts)
  <2>2. ASSUME NEW other PROVE new(other) = new(old) /\ Sound(e, new(old), opts)
    <3>1. CASE tag = "dvrbuffer"
      <4>1. v \in Nat BY <1>1, <1>2, <3>1
      <4>2. new(other) = IF v < 30 THEN v ELSE 3 BY <3>1, AcceptedIs
      <4>3. new(old) = IF v < 30 THEN v ELSE 3 BY <3>1, AcceptedIs
      <4> HIDE DEF new
      <4>4. new(old) \in 0..29 BY <4>1, <4>3
      <4> QED BY <2>1, <3>1, <4>2, <4>3, <4>4 DEF Sound
    <3>2. CASE tag = "waitOnLockTimeout"
      <4>1. v \in Nat BY <1>1, <1>2, <3>2
      <4>2. new(other) = IF v < 3500 THEN v ELSE 3500 BY <3>2, AcceptedIs
      <4>3. new(old) = IF v < 3500 THEN v ELSE 3500 BY <3>2, AcceptedIs
      <4> HIDE DEF new
      <4>4. new(old) \in 0..3500 BY <4>1, <4>3
      <4> QED BY <2>1, <3>2, <4>2, <4>3, <4>4 DEF Sound
    <3>3. CASE tag = "numberOfInputs"
      <4>1. v \in Nat BY <1>1, <1>2, <3>3
      <4>2. new(other) = IF v > 0 THEN v ELSE 1 BY <3>3, AcceptedIs
      <4>3. new(old) = IF v > 0 THEN v ELSE 1 BY <3>3, AcceptedIs
      <4> HIDE DEF new
      <4>4. new(old) \in Nat \ {0} BY <4>1, <4>3
      <4> QED BY <2>1, <3>3, <4>2, <4>3, <4>4 DEF Sound
    <3>4. CASE tag = "switchType"
      <4>1. v \in 0..2 BY <1>1, <3>4
      <4>2. new(other) = v /\ new(old) = v BY <3>4, <4>1, AcceptedIs
      <4> HIDE DEF new
      <4> QED BY <2>1, <3>4, <4>1, <4>2 DEF Sound
    <3>5. CASE tag = "advertiseAsType"
      <4>1. v \in 0..3 BY <1>1, <3>5
      <4>2. new(other) = v /\ new(old) = v BY <3>5, <4>1, AcceptedIs
      <4> HIDE DEF new
      <4> QED BY <2>1, <3>5, <4>1, <4>2 DEF Sound
    <3> QED BY <1>6, <3>1, <3>2, <3>3, <3>4, <3>5 DEF Limited
  <2> QED BY <2>1, <2>2
<1>7. CASE tag \notin PortTags \cup Limited \cup TextInputs
  <2>1. tag # "addUserPids" BY <1>7 DEF TextInputs
  <2>2. \A other : Accepted(e, other, v, opts) = v BY <1>7, <2>1, AcceptedIs
  <2>3. Sound(e, v, opts) BY <1>7 DEF Sound, Limited
  <2> QED BY <1>7, <2>2, <2>3
<1> QED BY <1>4, <1>5, <1>6, <1>7

-----------------------------------------------------------------------------
(* What a setting is, and what it was to be *)

Agrees(e, value, want) ==
  IF Tag(e) \notin TextInputs THEN value = want
  ELSE \/ Tag(e) = "addUserPids" /\ Trimmed(want) # want
       \/ Said(value) = Said(want)

\* A text is read again as it was, ...
LEMMA TextKept ==
  ASSUME SettingsXmlAssumption, NEW e, Tag(e) \in TextInputs, NEW opts, NEW old,
         NEW text \in Seq(Characters), NEW want \in Seq(Characters), Agrees(e, text, want)
  PROVE  /\ Accepted(e, old, EscapedText(text), opts) \in Seq(Characters)
         /\ Agrees(e, Accepted(e, old, EscapedText(text), opts), want)
<1>1. EscapedText(text) \in Seq(Characters) /\ Said(EscapedText(text)) = Said(text) BY EscapedIs
<1>2. CASE Tag(e) = "addUserPids"
  <2>1. Accepted(e, old, EscapedText(text), opts) = Trimmed(EscapedText(text))
    BY <1>2, AcceptedIs
  <2>2. Trimmed(EscapedText(text)) \in Seq(Characters) BY <1>1, TrimmedIs
  <2>3. CASE Trimmed(want) # want BY <1>2, <2>1, <2>2, <2>3 DEF Agrees
  <2>4. CASE Trimmed(want) = want
    <3>1. Said(EscapedText(text)) = Said(want) BY <1>1, <2>4 DEF Agrees
    <3>2. Said(Trimmed(EscapedText(text))) = Said(Trimmed(want)) BY <1>1, <3>1, TrimmedIs
    <3> QED BY <2>1, <2>2, <2>4, <3>2 DEF Agrees
  <2> QED BY <2>3, <2>4
<1>3. CASE Tag(e) # "addUserPids"
  <2>1. Tag(e) \notin PortTags \cup Limited BY DEF PortTags, Limited, TextInputs
  <2>2. Accepted(e, old, EscapedText(text), opts) = EscapedText(text) BY <1>3, <2>1, AcceptedIs
  <2> QED BY <1>1, <1>3, <2>2 DEF Agrees
<1> QED BY <1>2, <1>3

\* ... and the text that is posted is read as it is.
LEMMA TextTaken ==
  ASSUME SettingsXmlAssumption, NEW e, Tag(e) \in TextInputs, NEW opts, NEW old, NEW other,
         NEW text \in Seq(Characters)
  PROVE  /\ Accepted(e, old, EscapedText(text), opts) \in Seq(Characters)
         /\ Accepted(e, other, text, opts) \in Seq(Characters)
         /\ Agrees(e, Accepted(e, old, EscapedText(text), opts), Accepted(e, other, text, opts))
<1>1. EscapedText(text) \in Seq(Characters) /\ Said(EscapedText(text)) = Said(text) BY EscapedIs
<1>2. CASE Tag(e) = "addUserPids"
  <2>1. /\ Accepted(e, old, EscapedText(text), opts) = Trimmed(EscapedText(text))
        /\ Accepted(e, other, text, opts) = Trimmed(text)
    BY <1>2, AcceptedIs
  <2>2. Trimmed(EscapedText(text)) \in Seq(Characters) /\ Trimmed(text) \in Seq(Characters)
    BY <1>1, TrimmedIs
  <2>3. Said(Trimmed(EscapedText(text))) = Said(Trimmed(text)) BY <1>1, TrimmedIs
  <2> QED BY <2>1, <2>2, <2>3 DEF Agrees
<1>3. CASE Tag(e) # "addUserPids"
  <2>1. Tag(e) \notin PortTags \cup Limited BY DEF PortTags, Limited, TextInputs
  <2>2. /\ Accepted(e, old, EscapedText(text), opts) = EscapedText(text)
        /\ Accepted(e, other, text, opts) = text
    BY <1>3, <2>1, AcceptedIs
  <2> QED BY <1>1, <2>2 DEF Agrees
<1> QED BY <1>2, <1>3

-----------------------------------------------------------------------------
(* Reading a file *)

\* What is inside an element.
LEMMA IsInside ==
  ASSUME NEW tag, NEW elements, NEW e \in elements
  PROVE  <<tag>> \o e \in Inside(tag, elements)
BY DEF Inside

LEMMA IsInsideMore ==
  ASSUME NEW tag, NEW elements, NEW more, elements \subseteq more
  PROVE  Inside(tag, elements) \subseteq Inside(tag, more)
BY DEF Inside

\* The type of a DiSEqC is in every file, and so is the device's ID.
LEMMA DiseqcTypeIs ==
  ASSUME SettingsXmlAssumption, NEW types, NEW i \in Satellites
  PROVE  /\ DiseqcTypeOf(i) \in SatPIXml(types) /\ Tag(DiseqcTypeOf(i)) = "diseqcType"
         /\ \A t : ~OfSwitchLnb(DiseqcTypeOf(i), t)
         /\ ~OfDiseqc(DiseqcTypeOf(i))
<1>1. i \in Streams /\ Inputs[i] = "dvbs" BY DEF Satellites
<1> DEFINE type == types[i]
           v == <<"diseqcType", "value">>
           d == <<"deliverySystem0", "diseqcType", "value">>
           s == <<i, "deliverySystem0", "diseqcType", "value">>
           all == <<"streams", i, "deliverySystem0", "diseqcType", "value">>
           inside(j) ==
             Inside(j, StreamXml(Inputs[j], IF j \in Satellites THEN types[j] ELSE "lnb"))
<1>2. v \in Values(DVBSTags) BY DEF Values, DVBSTags
<1>3. v \in DVBSXml(type) BY <1>2 DEF DVBSXml
<1>4. d \in Inside("deliverySystem0", DVBSXml(type)) BY <1>3, IsInside, Joined2
<1>5. d \in StreamXml("dvbs", type) BY <1>4 DEF StreamXml, FrontendXml
<1>6. s \in inside(i) BY <1>1, <1>5, IsInside, Joined3
<1> HIDE DEF inside
<1>7. s \in StreamManagerXml(types)
  <2>1. StreamManagerXml(types) =
          (UNION {inside(j) : j \in Streams}) \cup Inside("decrypt", Values(DecryptTags))
    BY DEF StreamManagerXml, inside
  <2> QED BY <1>1, <1>6, <2>1
<1>8. all \in Inside("streams", StreamManagerXml(types))
  <2>1. <<"streams">> \o s = all BY Joined4
  <2> HIDE DEF s, all
  <2> QED BY <1>7, <2>1, IsInside
<1>9. DiseqcTypeOf(i) \in SatPIXml(types)
  <2> DEFINE within == Inside("streams", StreamManagerXml(types))
                         \cup Inside("configdata", Values(PropertiesTags))
                         \cup Inside("ssdp", ServerXml)
  <2>1. all \in within BY <1>8
  <2>2. SatPIXml(types) = Inside("data", within) BY DEF SatPIXml
  <2> HIDE DEF within
  <2>3. <<"data">> \o all \in SatPIXml(types) BY <2>1, <2>2, IsInside
  <2> QED BY <2>3, Joined5 DEF DiseqcTypeOf
<1>10. Tag(DiseqcTypeOf(i)) = "diseqcType" BY DEF Tag, Last, DiseqcTypeOf
<1>11. "diseqcType" \notin DiseqcSettings
  BY DEF DiseqcSettings, DiSEqcTags, SwitchTags, UnicableTags, LnbTags
<1> QED BY <1>9, <1>10, <1>11, OfDiseqcIs

LEMMA SomethingIsIn ==
  ASSUME NEW types PROVE <<"data", "ssdp", "deviceID">> \in SatPIXml(types)
<1>1. <<"deviceID">> \in ServerXml BY DEF ServerXml
<1>2. <<"ssdp", "deviceID">> \in Inside("ssdp", ServerXml) BY <1>1, IsInside, Joined1
<1> DEFINE within == Inside("streams", StreamManagerXml(types))
                       \cup Inside("configdata", Values(PropertiesTags))
                       \cup Inside("ssdp", ServerXml)
<1>3. <<"ssdp", "deviceID">> \in within BY <1>2
<1>4. SatPIXml(types) = Inside("data", within) BY DEF SatPIXml
<1> HIDE DEF within
<1>5. <<"data">> \o <<"ssdp", "deviceID">> \in SatPIXml(types) BY <1>3, <1>4, IsInside
<1> QED BY <1>5, Joined2

\* What a setting is when nothing is read for it.
Unread(s, e, opts) == IF e \in DOMAIN s /\ ~OfDiseqc(e) THEN s[e] ELSE Default(e, opts)

\* What is in effect when a file has been read.
Reads(r, s, xml, old, types, opts) ==
  /\ r = [e \in SatPIXml(types) |-> r[e]]
  /\ TypesIn(r) = types
  /\ \A e \in SatPIXml(types) :
       r[e] = IF e \in SatPIXml(old) /\ ~OfSwitchLnb(e, types)
              THEN Accepted(e, Unread(s, e, opts), xml[e], opts)
              ELSE Unread(s, e, opts)

LEMMA FromXmlIs ==
  ASSUME SettingsXmlAssumption, NEW s, NEW xml, NEW old \in DiseqcTypeChoices, NEW opts,
         NEW types \in DiseqcTypeChoices, TypesIn(xml) = types,
         NEW r, r = FromSatPIXml(s, xml, old, opts)
  PROVE  Reads(r, s, xml, old, types, opts)
<1> DEFINE place == Lookup[old][types]
           read(t) == [e \in SatPIXml(t) |->
             IF Lookup[old][t][e] = {} THEN Unread(s, e, opts)
             ELSE Accepted(e, Unread(s, e, opts), xml[CHOOSE x \in Lookup[old][t][e] : TRUE],
                           opts)]
<1>1a. FromSatPIXml(s, xml, old, opts) = read(TypesIn(xml)) BY Zenon DEF FromSatPIXml, Unread
<1>1. r = [e \in SatPIXml(types) |->
             IF place[e] = {} THEN Unread(s, e, opts)
             ELSE Accepted(e, Unread(s, e, opts), xml[CHOOSE x \in place[e] : TRUE], opts)]
  <2> HIDE DEF read
  <2>1. r = read(types) BY <1>1a
  <2> QED BY <2>1, Zenon DEF read
<1> HIDE DEF read
<1>2. \A e \in SatPIXml(types) :
        place[e] = IF e \in SatPIXml(old) /\ ~OfSwitchLnb(e, types) THEN {e} ELSE {}
  BY LookupIs
<1> HIDE DEF place
<1>3. ASSUME NEW e \in SatPIXml(types)
      PROVE  r[e] = IF e \in SatPIXml(old) /\ ~OfSwitchLnb(e, types)
                    THEN Accepted(e, Unread(s, e, opts), xml[e], opts)
                    ELSE Unread(s, e, opts)
  <2>1. r[e] = IF place[e] = {} THEN Unread(s, e, opts)
               ELSE Accepted(e, Unread(s, e, opts), xml[CHOOSE x \in place[e] : TRUE], opts)
    BY <1>1
  <2>2. CASE e \in SatPIXml(old) /\ ~OfSwitchLnb(e, types)
    <3>1. place[e] = {e} BY <1>2, <2>2
    <3>2. (CHOOSE x \in place[e] : TRUE) = e BY <3>1
    <3> QED BY <2>1, <2>2, <3>1, <3>2
  <2>3. CASE ~(e \in SatPIXml(old) /\ ~OfSwitchLnb(e, types))
    <3>1. place[e] = {} BY <1>2, <2>3
    <3> QED BY <2>1, <2>3, <3>1
  <2> QED BY <2>2, <2>3
<1>4. ASSUME NEW i \in Satellites PROVE r[DiseqcTypeOf(i)] = types[i]
  <2> DEFINE e == DiseqcTypeOf(i)
  <2>1. /\ e \in SatPIXml(types) /\ e \in SatPIXml(old) /\ Tag(e) = "diseqcType"
        /\ ~OfSwitchLnb(e, types)
    BY DiseqcTypeIs
  <2>2. r[e] = Accepted(e, Unread(s, e, opts), xml[e], opts) BY <1>3, <2>1
  <2>3. "diseqcType" \notin PortTags \cup Limited \cup {"addUserPids"} BY DEF PortTags, Limited
  <2>4. r[e] = xml[e] BY <2>1, <2>2, <2>3, AcceptedIs
  <2> QED BY <2>4 DEF TypesIn
<1>5. TypesIn(r) = types
  <2>1. types = [i \in Satellites |-> types[i]] BY DEF TypesIn
  <2> QED BY <1>4, <2>1 DEF TypesIn
<1>6. r = [e \in SatPIXml(types) |-> r[e]] BY <1>1
<1> QED BY <1>3, <1>5, <1>6 DEF Reads

-----------------------------------------------------------------------------
(* The invariant *)

\* What is in effect with these options is what was wanted.
Holds(s, want, opts) ==
  /\ TypesIn(s) \in DiseqcTypeChoices
  /\ DOMAIN s = SatPIXml(TypesIn(s))
  /\ DOMAIN want = Kept(s)
  /\ \A e \in DOMAIN s :
       /\ Sound(e, s[e], opts)
       /\ e \notin DOMAIN want => s[e] = Default(e, opts)
       /\ e \in DOMAIN want => Sound(e, want[e], opts) /\ Agrees(e, s[e], want[e])

LEMMA FileIs ==
  ASSUME SettingsXmlAssumption, NEW s, NEW types, DOMAIN s = SatPIXml(types)
  PROVE  /\ TypesIn(ToXML(s)) = TypesIn(s)
         /\ DOMAIN ToXML(s) = DOMAIN s
         /\ \A e \in DOMAIN s :
              ToXML(s)[e] = IF Tag(e) \in TextInputs THEN EscapedText(s[e]) ELSE s[e]
<1>1. DOMAIN ToXML(s) = DOMAIN s BY DEF ToXML
<1>2. \A e \in DOMAIN s :
        ToXML(s)[e] = IF Tag(e) \in TextInputs THEN EscapedText(s[e]) ELSE s[e]
  BY DEF ToXML
<1>3. ASSUME NEW i \in Satellites PROVE ToXML(s)[DiseqcTypeOf(i)] = s[DiseqcTypeOf(i)]
  <2>1. DiseqcTypeOf(i) \in DOMAIN s /\ Tag(DiseqcTypeOf(i)) = "diseqcType" BY DiseqcTypeIs
  <2>2. "diseqcType" \notin TextInputs BY DEF TextInputs
  <2> QED BY <1>2, <2>1, <2>2
<1>4. TypesIn(ToXML(s)) = TypesIn(s) BY <1>3 DEF TypesIn
<1> QED BY <1>1, <1>2, <1>4

\* The settings of the constructors.
LEMMA StartHolds ==
  ASSUME SettingsXmlAssumption, NEW opts \in Options, NEW want,
         DOMAIN want = DOMAIN Constructed(opts),
         \A e \in DOMAIN want : want[e] = Constructed(opts)[e]
  PROVE  Holds(Constructed(opts), want, opts)
<1> DEFINE lnbs == [i \in Satellites |-> "lnb"]
           s == Constructed(opts)
<1>1. lnbs \in DiseqcTypeChoices BY DEF DiseqcTypeChoices, DiseqcTypes
<1>2. s = [e \in SatPIXml(lnbs) |-> Default(e, opts)] BY DEF Constructed
<1>3. DOMAIN s = SatPIXml(lnbs) /\ \A e \in DOMAIN s : s[e] = Default(e, opts) BY <1>2
<1> HIDE DEF s
<1>4. \A i \in Satellites : s[DiseqcTypeOf(i)] = "lnb" BY <1>3, DiseqcTypeIs, DefaultIs
<1>5. TypesIn(s) = lnbs BY <1>4 DEF TypesIn
<1>6. \A e : ~OfSwitchLnb(e, lnbs) BY DEF OfSwitchLnb
<1> HIDE DEF lnbs
<1>7. Kept(s) = DOMAIN s BY <1>5, <1>6 DEF Kept
<1>8. \A e \in DOMAIN s : Sound(e, s[e], opts) BY <1>3, DefaultIs
<1>9. \A e, v : Agrees(e, v, v) BY DEF Agrees
<1> QED BY <1>1, <1>3, <1>5, <1>7, <1>8, <1>9 DEF Holds, s

\* A start with what has been saved.
LEMMA RestartHolds ==
  ASSUME SettingsXmlAssumption, NEW s, NEW want, NEW before, Holds(s, want, before),
         NEW opts \in Options,
         NEW r, r = FromSatPIXml(Constructed(opts), ToXML(s), TypesIn(ToXML(s)), opts),
         NEW kept, kept = [e \in DOMAIN want |->
           IF Tag(e) \in PortTags /\ opts[Tag(e)] # 0 THEN opts[Tag(e)] ELSE want[e]]
  PROVE  Holds(r, kept, opts)
<1> DEFINE types == TypesIn(s)
           xml == ToXML(s)
<1>1. types \in DiseqcTypeChoices /\ DOMAIN s = SatPIXml(types) /\ DOMAIN want = Kept(s)
  BY DEF Holds
<1>2. TypesIn(xml) = types BY <1>1, FileIs
<1>3. \A e \in DOMAIN s :
        xml[e] = IF Tag(e) \in TextInputs THEN EscapedText(s[e]) ELSE s[e]
  BY <1>1, FileIs
<1> DEFINE c == Constructed(opts)
<1>3a. r = FromSatPIXml(c, xml, types, opts) BY <1>2
<1> HIDE DEF types, xml, c
<1>4. /\ r = [e \in SatPIXml(types) |-> r[e]]
      /\ TypesIn(r) = types
      /\ \A e \in SatPIXml(types) :
           r[e] = IF e \in SatPIXml(types) /\ ~OfSwitchLnb(e, types)
                  THEN Accepted(e, Unread(c, e, opts), xml[e], opts) ELSE Unread(c, e, opts)
  <2>1. Reads(r, c, xml, types, types, opts) BY <1>1, <1>2, <1>3a, FromXmlIs
  <2> QED BY <2>1 DEF Reads
<1>5. \A e : Unread(c, e, opts) = Default(e, opts)
  <2>1. \A e \in DOMAIN c : c[e] = Default(e, opts) BY DEF Constructed, c
  <2> QED BY <2>1 DEF Unread
<1>6. DOMAIN r = DOMAIN s BY <1>1, <1>4
<1>7. Kept(r) = Kept(s) BY <1>4, <1>6 DEF Kept, types
<1>8. DOMAIN kept = Kept(r) BY <1>1, <1>7
<1>9. ASSUME NEW e \in DOMAIN r
      PROVE  /\ Sound(e, r[e], opts)
             /\ e \notin DOMAIN kept => r[e] = Default(e, opts)
             /\ e \in DOMAIN kept => Sound(e, kept[e], opts) /\ Agrees(e, r[e], kept[e])
  <2>1. e \in DOMAIN s /\ e \in SatPIXml(types) BY <1>1, <1>6
  <2>2. e \in DOMAIN kept <=> ~OfSwitchLnb(e, types) BY <1>7, <1>8, <2>1 DEF Kept, types
  <2>3. CASE OfSwitchLnb(e, types)
    <3>1. r[e] = Default(e, opts) BY <1>4, <1>5, <2>1, <2>3
    <3> QED BY <2>2, <2>3, <3>1, DefaultIs
  <2>4. CASE ~OfSwitchLnb(e, types)
    <3>1. r[e] = Accepted(e, Default(e, opts), xml[e], opts) BY <1>4, <1>5, <2>1, <2>4
    <3>2. e \in DOMAIN want BY <1>1, <1>7, <1>8, <2>2, <2>4
    <3>3. /\ Sound(e, s[e], before) /\ Sound(e, want[e], before) /\ Agrees(e, s[e], want[e])
      BY <2>1, <3>2 DEF Holds
    <3>4. kept[e] = IF Tag(e) \in PortTags /\ opts[Tag(e)] # 0 THEN opts[Tag(e)] ELSE want[e]
      BY <3>2
    <3>5. CASE Tag(e) \in TextInputs
      <4>1. Tag(e) \notin PortTags \cup Limited BY <3>5 DEF PortTags, Limited, TextInputs
      <4>2. s[e] \in Seq(Characters) /\ want[e] \in Seq(Characters)
        BY <3>3, <3>5 DEF Sound, Characters
      <4>3. xml[e] = EscapedText(s[e]) /\ kept[e] = want[e] BY <1>3, <2>1, <3>4, <3>5, <4>1
      <4>4. r[e] \in Seq(Characters) /\ Agrees(e, r[e], want[e])
        BY <3>1, <3>3, <3>5, <4>2, <4>3, TextKept
      <4>5. Sound(e, r[e], opts) /\ Sound(e, want[e], opts)
        BY <4>1, <4>2, <4>4 DEF Sound, Limited, Characters
      <4> QED BY <2>2, <2>4, <4>3, <4>4, <4>5
    <3>6. CASE Tag(e) \notin TextInputs
      <4>1. xml[e] = s[e] /\ s[e] = want[e] BY <1>3, <2>1, <3>3, <3>6 DEF Agrees
      <4>2. r[e] = kept[e]
        <5>1. "addUserPids" \in TextInputs BY DEF TextInputs
        <5> QED BY <3>1, <3>3, <3>4, <3>6, <4>1, <5>1, SoundTaken
      <4>3. Sound(e, r[e], opts) BY <3>1, <3>3, <3>6, <4>1, SoundTaken
      <4> QED BY <2>2, <2>4, <3>6, <4>2, <4>3 DEF Agrees
    <3> QED BY <3>5, <3>6
  <2> QED BY <2>3, <2>4
<1>10. TypesIn(r) \in DiseqcTypeChoices /\ DOMAIN r = SatPIXml(TypesIn(r))
  BY <1>1, <1>4, <1>6
<1> QED BY <1>8, <1>9, <1>10 DEF Holds

\* A value that is put into the file and read again, ...
LEMMA ValueKept ==
  ASSUME SettingsXmlAssumption, NEW e, NEW opts \in Options, NEW old,
         NEW value, Sound(e, value, opts), NEW want, Sound(e, want, opts), Agrees(e, value, want),
         NEW read, read = (IF Tag(e) \in TextInputs THEN EscapedText(value) ELSE value),
         NEW new, new = Accepted(e, old, read, opts)
  PROVE  Sound(e, new, opts) /\ Agrees(e, new, want)
<1>1. CASE Tag(e) \in TextInputs
  <2>1. value \in Seq(Characters) /\ want \in Seq(Characters) BY <1>1 DEF Sound, Characters
  <2>2. new \in Seq(Characters) /\ Agrees(e, new, want) BY <1>1, <2>1, TextKept
  <2>3. Tag(e) \notin PortTags \cup Limited BY <1>1 DEF PortTags, Limited, TextInputs
  <2>4. Sound(e, new, opts) BY <2>2, <2>3 DEF Sound, Limited, Characters
  <2> QED BY <2>2, <2>4
<1>2. CASE Tag(e) \notin TextInputs
  <2>1. read = value /\ value = want BY <1>2 DEF Agrees
  <2>2. "addUserPids" \in TextInputs BY DEF TextInputs
  <2>3. Tag(e) \in PortTags => opts[Tag(e)] \in {0, value} BY DEF Sound
  <2>4. new = value BY <1>2, <2>1, <2>2, <2>3, SoundTaken
  <2> QED BY <1>2, <2>1, <2>4 DEF Agrees
<1> QED BY <1>1, <1>2

\* ... and one that is posted.
LEMMA ValuePosted ==
  ASSUME SettingsXmlAssumption, NEW e, NEW opts \in Options, NEW old, Sound(e, old, opts),
         NEW want, Tag(e) \in PortTags => want = old, NEW value \in PostsFor(e),
         NEW read, read = (IF Tag(e) \in TextInputs THEN EscapedText(value) ELSE value),
         NEW new, new = Accepted(e, old, read, opts),
         NEW wanted, wanted = Accepted(e, want, value, opts)
  PROVE  Sound(e, new, opts) /\ Sound(e, wanted, opts) /\ Agrees(e, new, wanted)
<1>1. CASE Tag(e) \in TextInputs
  <2>1. value \in Seq(Characters) BY <1>1, PostTaken
  <2>2. new \in Seq(Characters) /\ wanted \in Seq(Characters) /\ Agrees(e, new, wanted)
    BY <1>1, <2>1, TextTaken
  <2>3. Tag(e) \notin PortTags \cup Limited BY <1>1 DEF PortTags, Limited, TextInputs
  <2>4. Sound(e, new, opts) /\ Sound(e, wanted, opts)
    BY <2>2, <2>3 DEF Sound, Limited, Characters
  <2> QED BY <2>2, <2>4
<1>2. CASE Tag(e) \notin TextInputs
  <2>1. Sound(e, new, opts) BY <1>2, PostTaken
  <2>2. new = wanted
    <3>1. CASE Tag(e) \in PortTags BY <1>2, <3>1
    <3>2. CASE Tag(e) \notin PortTags
      <4>1. Accepted(e, want, value, opts) = Accepted(e, old, value, opts) BY <1>2, <3>2, PostTaken
      <4> QED BY <1>2, <4>1
    <3> QED BY <3>1, <3>2
  <2> QED BY <1>2, <2>1, <2>2 DEF Agrees
<1> QED BY <1>1, <1>2

\* What is wanted after a post.
Posted(kept, r, want, p, v, opts) ==
  /\ DOMAIN kept = Kept(r)
  /\ \A e \in DOMAIN kept :
       /\ e = p => kept[e] = Accepted(e, want[e], v, opts)
       /\ e # p /\ e \in DOMAIN want => kept[e] = want[e]
       /\ e # p /\ e \notin DOMAIN want => kept[e] = Default(e, opts)

\* A post of one setting.
LEMMA PostHolds ==
  ASSUME SettingsXmlAssumption, NEW opts \in Options, NEW s, NEW want, Holds(s, want, opts),
         NEW p \in DOMAIN s, NEW v \in PostsFor(p),
         NEW r, r = FromSatPIXml(s, ToXML([s EXCEPT ![p] = v]), TypesIn(s), opts),
         NEW kept, Posted(kept, r, want, p, v, opts)
  PROVE  Holds(r, kept, opts)
<1> DEFINE old == TypesIn(s)
           posted == [s EXCEPT ![p] = v]
           types == TypesIn(posted)
           xml == ToXML(posted)
<1>1. old \in DiseqcTypeChoices /\ DOMAIN s = SatPIXml(old) /\ DOMAIN want = Kept(s)
  BY DEF Holds
<1>2. DOMAIN posted = SatPIXml(old) /\ \A e \in DOMAIN s : posted[e] = IF e = p THEN v ELSE s[e]
  BY <1>1
<1>3. /\ TypesIn(xml) = types
      /\ \A e \in DOMAIN s :
           xml[e] = IF Tag(e) \in TextInputs THEN EscapedText(posted[e]) ELSE posted[e]
  <2> HIDE DEF posted, old
  <2> QED BY <1>1, <1>2, FileIs
<1>4. r = FromSatPIXml(s, xml, old, opts) OBVIOUS
<1> HIDE DEF posted, xml
<1>5. types \in DiseqcTypeChoices
  <2>1. ASSUME NEW i \in Satellites PROVE posted[DiseqcTypeOf(i)] \in DiseqcTypes
    <3>1. DiseqcTypeOf(i) \in DOMAIN s /\ Tag(DiseqcTypeOf(i)) = "diseqcType"
      BY <1>1, DiseqcTypeIs
    <3>2. s[DiseqcTypeOf(i)] \in DiseqcTypes
      <4>1. old[i] = s[DiseqcTypeOf(i)] BY DEF TypesIn
      <4> QED BY <1>1, <4>1 DEF DiseqcTypeChoices
    <3>3. p = DiseqcTypeOf(i) => v \in DiseqcTypes
      <4>1. ASSUME Tag(p) = "diseqcType" PROVE PostsFor(p) = DiseqcTypes 
          BY <4>1 DEF PostsFor, Checkboxes, TextInputs
      <4> QED BY <3>1, <4>1
    <3> QED BY <1>2, <3>1, <3>2, <3>3
  <2>2. \A i \in Satellites : types[i] \in DiseqcTypes BY <2>1 DEF TypesIn
  <2>3. types = [i \in Satellites |-> types[i]] BY DEF TypesIn
  <2> HIDE DEF types
  <2> QED BY <2>2, <2>3 DEF DiseqcTypeChoices
<1>6. ASSUME OfDiseqc(p) PROVE types = old
  <2>1. ASSUME NEW i \in Satellites PROVE posted[DiseqcTypeOf(i)] = s[DiseqcTypeOf(i)]
    <3>1. DiseqcTypeOf(i) \in DOMAIN s /\ ~OfDiseqc(DiseqcTypeOf(i)) BY <1>1, DiseqcTypeIs
    <3> QED BY <1>2, <1>6, <3>1
  <2> QED BY <2>1 DEF TypesIn
<1> HIDE DEF types, old
<1>7. /\ r = [e \in SatPIXml(types) |-> r[e]]
      /\ TypesIn(r) = types
      /\ \A e \in SatPIXml(types) :
           r[e] = IF e \in SatPIXml(old) /\ ~OfSwitchLnb(e, types)
                  THEN Accepted(e, Unread(s, e, opts), xml[e], opts) ELSE Unread(s, e, opts)
  <2>1. Reads(r, s, xml, old, types, opts) BY <1>1, <1>3, <1>4, <1>5, FromXmlIs
  <2> QED BY <2>1 DEF Reads
<1>8. DOMAIN r = SatPIXml(types) BY <1>7
<1>9. DOMAIN kept = Kept(r) BY DEF Posted
<1>10. ASSUME NEW e \in DOMAIN r
       PROVE  /\ Sound(e, r[e], opts)
              /\ e \notin DOMAIN kept => r[e] = Default(e, opts)
              /\ e \in DOMAIN kept => Sound(e, kept[e], opts) /\ Agrees(e, r[e], kept[e])
  <2>1. e \in SatPIXml(types) BY <1>8
  <2>2. e \in DOMAIN kept <=> ~OfSwitchLnb(e, types) BY <1>7, <1>9 DEF Kept
  <2>3. CASE OfSwitchLnb(e, types)
    <3>1. OfDiseqc(e) BY <2>1, <2>3, OfDiseqcIs
    <3>2. r[e] = Default(e, opts) BY <1>7, <2>1, <2>3, <3>1 DEF Unread
    <3> QED BY <2>2, <2>3, <3>2, DefaultIs
  <2>4. CASE ~OfSwitchLnb(e, types) /\ e \notin DOMAIN s
    <3>1. r[e] = Default(e, opts) BY <1>1, <1>7, <2>1, <2>4 DEF Unread
    <3>2. e # p /\ e \notin DOMAIN want BY <1>1, <2>4 DEF Kept
    <3>3. kept[e] = Default(e, opts) BY <2>2, <2>4, <3>2 DEF Posted
    <3> QED BY <2>2, <2>4, <3>1, <3>3, DefaultIs DEF Agrees
  <2>5. CASE ~OfSwitchLnb(e, types) /\ e \in DOMAIN s
    <3> DEFINE o == Unread(s, e, opts)
    <3>1. e \in DOMAIN kept /\ r[e] = Accepted(e, o, xml[e], opts) BY <1>1, <1>7, <2>1, <2>2, <2>5
    <3>2. e \in DOMAIN want <=> ~OfSwitchLnb(e, old) BY <1>1, <2>5 DEF Kept, old
    <3>3. /\ Sound(e, s[e], opts)
          /\ e \notin DOMAIN want => s[e] = Default(e, opts)
          /\ e \in DOMAIN want => Sound(e, want[e], opts) /\ Agrees(e, s[e], want[e])
      BY <2>5 DEF Holds
    <3>4. Sound(e, o, opts) BY <3>3, DefaultIs DEF Unread
    <3>5. xml[e] = IF Tag(e) \in TextInputs THEN EscapedText(posted[e]) ELSE posted[e]
      BY <1>3, <2>5
    <3>6. Tag(e) \in TextInputs \cup PortTags => o = s[e] /\ e \in DOMAIN want
      <4>1. (TextInputs \cup PortTags) \cap DiseqcSettings = {}
        BY DEF DiseqcSettings, DiSEqcTags, SwitchTags, UnicableTags, LnbTags, TextInputs, PortTags
      <4>2. ASSUME Tag(e) \in TextInputs \cup PortTags PROVE ~OfDiseqc(e)
        BY <2>1, <4>1, <4>2, OfDiseqcIs
      <4>3. \A t : OfSwitchLnb(e, t) => OfDiseqc(e) BY <2>1, OfDiseqcIs
      <4> QED BY <2>5, <3>2, <4>2, <4>3 DEF Unread
    <3>7. CASE e = p
      <4>1. posted[e] = v /\ kept[e] = Accepted(e, want[e], v, opts)
        BY <1>2, <2>5, <3>1, <3>7 DEF Posted
      <4>2. e \in DOMAIN want
        <5>1. \A t : OfSwitchLnb(e, t) => OfDiseqc(e) BY <2>1, OfDiseqcIs
        <5> QED BY <1>6, <2>5, <3>2, <3>7, <5>1
      <4>3. Sound(e, want[e], opts) /\ Agrees(e, s[e], want[e]) BY <3>3, <4>2
      <4>4. Tag(e) \in PortTags => want[e] = o
        <5>1. PortTags \cap TextInputs = {} BY DEF PortTags, TextInputs
        <5> QED BY <3>6, <4>3, <5>1 DEF Agrees
      <4>5. v \in PostsFor(e) BY <3>7
      <4>6. xml[e] = IF Tag(e) \in TextInputs THEN EscapedText(v) ELSE v BY <3>5, <4>1
      <4> HIDE DEF o
      <4> QED BY <3>1, <3>4, <4>1, <4>4, <4>5, <4>6, ValuePosted
    <3>8. CASE e # p /\ e \in DOMAIN want
      <4>1. posted[e] = s[e] /\ kept[e] = want[e] BY <1>2, <2>5, <3>1, <3>8 DEF Posted
      <4>2. Sound(e, s[e], opts) /\ Sound(e, want[e], opts) /\ Agrees(e, s[e], want[e])
        BY <3>3, <3>8
      <4>3. xml[e] = IF Tag(e) \in TextInputs THEN EscapedText(s[e]) ELSE s[e] BY <3>5, <4>1
      <4> HIDE DEF o
      <4> QED BY <3>1, <4>1, <4>2, <4>3, ValueKept
    <3>9. CASE e # p /\ e \notin DOMAIN want
      <4>1. posted[e] = s[e] /\ kept[e] = Default(e, opts)
        BY <1>2, <2>5, <3>1, <3>9 DEF Posted
      <4>2. s[e] = Default(e, opts) BY <3>3, <3>9
      <4>3. Tag(e) \notin TextInputs \cup PortTags BY <3>6, <3>9
      <4>4. xml[e] = s[e] BY <3>5, <4>1, <4>3
      <4>5. "addUserPids" \in TextInputs BY DEF TextInputs
      <4>6. r[e] = s[e]
        <5>1. r[e] = Accepted(e, o, s[e], opts) BY <3>1, <4>4
        <5> HIDE DEF o
        <5> QED BY <3>3, <4>3, <4>5, <5>1, SoundTaken
      <4> QED BY <3>1, <3>3, <4>1, <4>2, <4>6 DEF Agrees
    <3> QED BY <3>7, <3>8, <3>9
  <2> QED BY <2>3, <2>4, <2>5
<1> QED BY <1>5, <1>7, <1>8, <1>9, <1>10 DEF Holds

LEMMA InvIs ==
  SettingsXmlInv <=>
    /\ options \in Options /\ Holds(configured, intended, options)
    /\ xmlFile = ToXML(configured) /\ posts \in 0..MaxPosts /\ starts \in 0..MaxStarts
<1>1. SettingsKept <=> \A e \in DOMAIN intended : Agrees(e, configured[e], intended[e])
  BY Zenon DEF SettingsKept, Agrees
<1>2. DOMAIN intended = Kept(configured) => DOMAIN intended \subseteq DOMAIN configured
  BY DEF Kept
<1> QED BY <1>1, <1>2, Zenon DEF SettingsXmlInv, SettingsXmlTypeOK, Holds

\* The settings have values that are read as they are; those of the LNBs of a switch are the
\* constructors'.
THEOREM SettingsXmlInvariant == SettingsXmlSpec => []SettingsXmlInv
<1> USE SettingsXmlAssumption
<1>1. SettingsXmlInit => SettingsXmlInv
  <2>1. SUFFICES ASSUME SettingsXmlInit PROVE SettingsXmlInv OBVIOUS
  <2>2. Holds(Constructed(options), configured, options) BY <2>1, StartHolds DEF SettingsXmlInit
  <2>3. 0 \in 0..MaxPosts /\ 0 \in 0..MaxStarts BY DEF SettingsXmlAssumption
  <2> QED BY <2>1, <2>2, <2>3, InvIs DEF SettingsXmlInit
<1>2. SettingsXmlInv /\ [SettingsXmlNext]_settingsXmlVars => SettingsXmlInv'
  <2>1. SUFFICES ASSUME SettingsXmlInv, [SettingsXmlNext]_settingsXmlVars PROVE SettingsXmlInv'
    OBVIOUS
  <2>2. /\ options \in Options /\ Holds(configured, intended, options)
        /\ xmlFile = ToXML(configured) /\ posts \in 0..MaxPosts /\ starts \in 0..MaxStarts
    BY <2>1, InvIs
  <2>3. SUFFICES /\ options' \in Options /\ Holds(configured', intended', options')
                 /\ xmlFile' = ToXML(configured')
                 /\ posts' \in 0..MaxPosts /\ starts' \in 0..MaxStarts
    <3>1. SettingsKept' <=>
            \A e \in DOMAIN intended' : Agrees(e, configured'[e], intended'[e])
      BY Zenon DEF SettingsKept, Agrees
    <3>2. DOMAIN intended' = Kept(configured') => DOMAIN intended' \subseteq DOMAIN configured'
      BY DEF Kept
    <3> QED BY <3>1, <3>2, Zenon DEF SettingsXmlInv, SettingsXmlTypeOK, Holds
  <2>4. MaxPosts \in Nat /\ MaxStarts \in Nat BY DEF SettingsXmlAssumption
  <2>5. ASSUME NEW e \in DOMAIN configured, NEW value \in PostsFor(e), PostXML(e, value)
        PROVE  /\ options' \in Options /\ Holds(configured', intended', options')
               /\ xmlFile' = ToXML(configured')
               /\ posts' \in 0..MaxPosts /\ starts' \in 0..MaxStarts
    <3> DEFINE s == FromSatPIXml(configured,
                      ToXML([configured EXCEPT ![e] = value]), TypesIn(configured), options)
    <3>1. /\ configured' = s /\ xmlFile' = ToXML(s)
          /\ intended' = [x \in Kept(s) |->
               CASE x = e -> Accepted(e, intended[e], value, options)
                 [] x # e /\ x \in DOMAIN intended -> intended[x]
                 [] OTHER -> Default(x, options)]
          /\ posts < MaxPosts /\ posts' = posts + 1 /\ options' = options /\ starts' = starts
      BY <2>5, Zenon DEF PostXML, Set
    <3>2. Posted(intended', s, intended, e, value, options)
      <4> HIDE DEF s
      <4> QED BY <3>1 DEF Posted
    <3>3. Holds(s, intended', options)
      <4>1. s = FromSatPIXml(configured,
                  ToXML([configured EXCEPT ![e] = value]), TypesIn(configured), options)
        OBVIOUS
      <4> HIDE DEF s
      <4> QED BY <2>2, <2>5, <3>2, <4>1, PostHolds
    <3> HIDE DEF s
    <3> QED BY <2>2, <2>4, <3>1, <3>3
  <2>6. ASSUME Restart
        PROVE  /\ options' \in Options /\ Holds(configured', intended', options')
               /\ xmlFile' = ToXML(configured')
               /\ posts' \in 0..MaxPosts /\ starts' \in 0..MaxStarts
    <3>1. PICK opts \in Options : StartWith(xmlFile, opts, intended) BY <2>6 DEF Restart
    <3> DEFINE s == FromSatPIXml(Constructed(opts), ToXML(configured),
          TypesIn(ToXML(configured)), opts)
    <3>2. xmlFile # <<>>
      <4>1. DOMAIN xmlFile = SatPIXml(TypesIn(configured)) BY <2>2 DEF Holds, ToXML
      <4>2. DOMAIN xmlFile # {} BY <4>1, SomethingIsIn
      <4>3. DOMAIN <<>> = {} OBVIOUS
      <4> QED BY <4>2, <4>3
    <3>3. /\ configured' = s /\ xmlFile' = ToXML(s)
          /\ starts < MaxStarts /\ starts' = starts + 1 /\ options' = opts /\ posts' = posts
          /\ intended' = [x \in DOMAIN intended |->
               IF Tag(x) \in PortTags /\ opts[Tag(x)] # 0 THEN opts[Tag(x)] ELSE intended[x]]
      BY <2>2, <3>1, <3>2 DEF StartWith, Set
    <3>4. Holds(s, intended', opts)
      <4>1. s = FromSatPIXml(Constructed(opts), ToXML(configured), TypesIn(ToXML(configured)), opts)
        OBVIOUS
      <4> HIDE DEF s
      <4> QED BY <2>2, <3>3, <4>1, RestartHolds
    <3> HIDE DEF s
    <3> QED BY <2>2, <2>4, <3>3, <3>4
  <2>7. ASSUME CrashInSave
        PROVE  /\ options' \in Options /\ Holds(configured', intended', options')
               /\ xmlFile' = ToXML(configured')
               /\ posts' \in 0..MaxPosts /\ starts' \in 0..MaxStarts
    <3>1. PICK opts \in Options : StartWith(<<>>, opts, Constructed(opts)) BY <2>7 DEF CrashInSave
    <3> DEFINE s == Constructed(opts)
    <3>2. /\ configured' = s /\ xmlFile' = ToXML(s)
          /\ starts < MaxStarts /\ starts' = starts + 1 /\ options' = opts /\ posts' = posts
          /\ intended' = [x \in DOMAIN s |->
               IF Tag(x) \in PortTags /\ opts[Tag(x)] # 0 THEN opts[Tag(x)] ELSE s[x]]
      BY <3>1 DEF StartWith, Set
    <3>3. \A x \in DOMAIN s : s[x] = Default(x, opts) BY DEF Constructed
    <3>4. \A x \in DOMAIN s : intended'[x] = s[x] BY <3>2, <3>3, DefaultIs
    <3>5. Holds(s, intended', opts) BY <3>2, <3>4, StartHolds
    <3> HIDE DEF s
    <3> QED BY <2>2, <2>4, <3>2, <3>5
  <2>8. CASE UNCHANGED settingsXmlVars BY <2>2, <2>8 DEF settingsXmlVars
  <2> QED BY <2>1, <2>5, <2>6, <2>7, <2>8 DEF SettingsXmlNext
<1> QED BY <1>1, <1>2, PTL DEF SettingsXmlSpec

\* Each setting is what the page or the command line last said, whatever was posted for others
\* since, and after any number of starts (SettingsKept).
THEOREM SettingsAlwaysKept == SettingsXmlSpec => []SettingsKept
<1>1. SettingsXmlInv => SettingsKept BY DEF SettingsXmlInv
<1> QED BY <1>1, SettingsXmlInvariant, PTL
=============================================================================
