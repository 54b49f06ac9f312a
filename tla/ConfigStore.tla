---------------------------- MODULE ConfigStore -----------------------------
(***************************************************************************)
(* How the settings come into SatPI.xml: the web server's thread, which    *)
(* posts and loads them, and the SSDP server's thread, which saves them    *)
(* when it increments the boot ID, with the locks of base/XMLSupport.h and *)
(* of the SSDP server.  They take the locks in opposite orders.  A         *)
(* base::MutexLock gives up after 15 seconds and goes on without the lock. *)
(*                                                                         *)
(* Abstracted: the settings are counters of changes, those made by posts   *)
(* and those made by the SSDP server; the locks inside the streams and the *)
(* properties, under which nothing else is locked.                         *)
(***************************************************************************)
EXTENDS Integers, Sequences

CONSTANT MaxChanges   \* bound: changes of each kind

ASSUME ConfigAssumption == MaxChanges \in Nat

VARIABLES
  owner, depth,   \* the recursive mutexes: who has them, and how often
  code, pc,       \* what each thread executes, and its next step; 0: nothing
  settings,       \* in memory
  view,           \* the XML text that each thread has made
  stored,         \* SatPI.xml
  timedOut,       \* history: a MutexLock gave up
  unguarded       \* history: a post and the first save of the SSDP thread overlapped

configVars == <<owner, depth, code, pc, settings, view, stored, timedOut, unguarded>>

\* "satpi" and "base" are XMLSupport::_mutex of SatPI and of the SSDP server, "ssdp" is
\* ssdp::Server::_mutex.
Locks == {"satpi", "base", "ssdp"}
Threads == {"http", "ssdp"}
Counted == [web : 0..MaxChanges, boot : 0..MaxChanges]

Lock(m) == [op |-> "lock", arg |-> m]
Unlock(m) == [op |-> "unlock", arg |-> m]
Do(op) == [op |-> op, arg |-> "satpi"]

\* SatPI::addToXML(), which asks the SSDP server for its part last.
AddToXML ==
  <<Lock("satpi"), Do("readWeb"), Lock("base"), Lock("ssdp"), Do("readBoot"),
    Unlock("ssdp"), Unlock("base"), Unlock("satpi")>>

\* SatPI::saveXML(): the text is made under the lock, the file is written without.
SaveXML == AddToXML \o <<Do("open"), Do("write")>>

\* Mutant: the lock is released before the file is saved.
FromXML_SavesUnlocked ==
  <<Lock("satpi"), Do("setWeb"), Lock("base"), Lock("ssdp"), Unlock("ssdp"), Unlock("base"),
    Unlock("satpi")>> \o SaveXML

\* SatPI::fromXML(), of a POST: streams and properties, the SSDP server, and the save.
FromXML ==
  <<Lock("satpi"), Do("setWeb"), Lock("base"), Lock("ssdp"), Unlock("ssdp"), Unlock("base")>>
  \o SaveXML \o <<Unlock("satpi")>>

\* incrementBootID() when the SSDP thread starts, and in its loop, under its lock.
FirstBoot == <<Do("setBoot")>> \o SaveXML
NextBoot == <<Lock("ssdp")>> \o FirstBoot \o <<Unlock("ssdp")>>

Codes == [http |-> {FromXML, AddToXML}, ssdp |-> {FirstBoot, NextBoot}]
NoCode == <<>>
Empty == [web |-> -1, boot |-> -1]
Mixed == [web |-> -2, boot |-> -2]

ConfigTypeOK ==
  /\ owner \in [Locks -> Threads \cup {"none"}] /\ depth \in [Locks -> 0..2]
  /\ code \in [Threads -> {NoCode, FromXML, AddToXML, FirstBoot, NextBoot}]
  /\ pc \in [Threads -> 0..17]
  /\ settings \in Counted
  /\ view \in [Threads -> Counted]
  /\ stored \in Counted \cup {Empty, Mixed}
  /\ timedOut \in BOOLEAN /\ unguarded \in BOOLEAN

\* SatPI's constructor has restored the settings and saved them.
ConfigInit ==
  /\ owner = [m \in Locks |-> "none"] /\ depth = [m \in Locks |-> 0]
  /\ code = [t \in Threads |-> NoCode] /\ pc = [t \in Threads |-> 0]
  /\ settings = [web |-> 0, boot |-> 0] /\ stored = settings
  /\ view = [t \in Threads |-> settings]
  /\ timedOut = FALSE /\ unguarded = FALSE

Busy(t) == pc[t] # 0
Now(t) == code[t][pc[t]]

\* A thread begins a call; the SSDP thread starts with its first save.
Begin(t) ==
  \E c \in Codes[t] :
    /\ ~Busy(t)
    /\ (t = "ssdp" => (c = FirstBoot <=> settings.boot = 0))
    /\ (t = "ssdp" => settings.boot < MaxChanges)
    /\ (c = FromXML => settings.web < MaxChanges)
    /\ code' = [code EXCEPT ![t] = c] /\ pc' = [pc EXCEPT ![t] = 1]
    /\ unguarded' = (unguarded \/ {code'["http"], code'["ssdp"]} = {FromXML, FirstBoot})
    /\ UNCHANGED <<owner, depth, settings, view, stored, timedOut>>

\* The step is done; after the last one the call ends.
Onward(t) ==
  IF pc[t] = Len(code[t])
  THEN pc' = [pc EXCEPT ![t] = 0] /\ code' = [code EXCEPT ![t] = NoCode]
  ELSE pc' = [pc EXCEPT ![t] = @ + 1] /\ UNCHANGED code

At(t, op) == Busy(t) /\ Now(t).op = op

Blocked(t) == At(t, "lock") /\ owner[Now(t).arg] \notin {"none", t}

\* MutexLock's constructor.
TakeLock(t) ==
  /\ At(t, "lock") /\ ~Blocked(t) /\ Onward(t)
  /\ owner' = [owner EXCEPT ![Now(t).arg] = t]
  /\ depth' = [depth EXCEPT ![Now(t).arg] = @ + 1]
  /\ UNCHANGED <<settings, view, stored, timedOut, unguarded>>

\* Mutant: a lock that waits for ever.
GiveUp_Never(t) == FALSE

\* tryLock() fails after 15 seconds, which no thread needs for its work: the other one is
\* blocked, too.
GiveUp(t) ==
  /\ Blocked(t) /\ Blocked(owner[Now(t).arg]) /\ Onward(t)
  /\ timedOut' = TRUE
  /\ UNCHANGED <<owner, depth, settings, view, stored, unguarded>>

\* MutexLock's destructor; nothing happens when the thread does not own the mutex.
FreeLock(t) ==
  /\ At(t, "unlock") /\ Onward(t)
  /\ LET m == Now(t).arg IN
       IF owner[m] = t
       THEN /\ depth' = [depth EXCEPT ![m] = @ - 1]
            /\ owner' = IF depth[m] = 1 THEN [owner EXCEPT ![m] = "none"] ELSE owner
       ELSE UNCHANGED <<owner, depth>>
  /\ UNCHANGED <<settings, view, stored, timedOut, unguarded>>

Change(t) ==
  /\ Onward(t)
  /\ \/ At(t, "setWeb") /\ settings' = [settings EXCEPT !.web = @ + 1]
     \/ At(t, "setBoot") /\ settings' = [settings EXCEPT !.boot = @ + 1]
  /\ UNCHANGED <<owner, depth, view, stored, timedOut, unguarded>>

Look(t) ==
  /\ Onward(t)
  /\ \/ At(t, "readWeb") /\ view' = [view EXCEPT ![t].web = settings.web]
     \/ At(t, "readBoot") /\ view' = [view EXCEPT ![t].boot = settings.boot]
  /\ UNCHANGED <<owner, depth, settings, stored, timedOut, unguarded>>

\* XMLSaveSupport::saveXML() truncates the file and then writes it; where another thread
\* has written in between, the longer text's end remains.
WriteFile(t) ==
  /\ Onward(t)
  /\ \/ At(t, "open") /\ stored' = Empty
     \/ At(t, "write") /\ stored' \in IF stored = Empty THEN {view[t]} ELSE {view[t], Mixed}
  /\ UNCHANGED <<owner, depth, settings, view, timedOut, unguarded>>

ConfigStep(t) == TakeLock(t) \/ GiveUp(t) \/ FreeLock(t) \/ Change(t) \/ Look(t) \/ WriteFile(t)

ConfigNext == \E t \in Threads : Begin(t) \/ ConfigStep(t)

\* The threads run.  A lock that is free again and again is got in the end: it is tried
\* every millisecond, and the calls of the web server have seconds between them.
ConfigSpec ==
  /\ ConfigInit /\ [][ConfigNext]_configVars
  /\ \A t \in Threads : WF_configVars(ConfigStep(t)) /\ SF_configVars(TakeLock(t))

-----------------------------------------------------------------------------

\* When no call is under way SatPI.xml has the settings that are in memory.  For this the
\* SSDP thread must keep its lock while the file is written, and a post SatPI's.  It may
\* not have them when a lock was given up, or when a post and the first save overlapped.
SettingsOnDisk ==
  (\A t \in Threads : ~Busy(t)) => timedOut \/ unguarded \/ stored = settings

Times(i, a, b) == IF i \in a..b THEN 1 ELSE 0
StepsOf(c) == IF c = NoCode THEN {0} ELSE 1..Len(c)

\* The number of times a thread at step i of call c has locked m.
HeldAt(c, i, m) ==
  CASE c = FromXML -> IF m = "satpi" THEN Times(i, 2, 17) + Times(i, 8, 14)
                      ELSE Times(i, 5, 5) + Times(i, 11, 12)
    [] c = AddToXML -> IF m = "satpi" THEN Times(i, 2, 8) ELSE Times(i, 5, 6)
    [] c = FirstBoot -> IF m = "satpi" THEN Times(i, 3, 9) ELSE Times(i, 6, 7)
    [] c = NextBoot -> IF m = "satpi" THEN Times(i, 4, 10) ELSE Times(i, 2, 13) + Times(i, 7, 8)
    [] OTHER -> 0

\* Who is in a call has its locks, as long as none was given up.
LocksAsHeld ==
  \A m \in {"satpi", "ssdp"} :
    /\ owner[m] = "none" => depth[m] = 0
    /\ \A t \in Threads : HeldAt(code[t], pc[t], m) = IF owner[m] = t THEN depth[m] ELSE 0

\* The post c and the call d of the SSDP thread, at steps i and j: one whose text is older
\* than the settings is followed by the write of the other.
DiskFollows(c, i, d, j, now, http, ssdp, file) ==
  LET Post(a, b) == c = FromXML /\ i \in a..b
      First(a, b) == d = FirstBoot /\ j \in a..b
      Later(a, b) == d = NextBoot /\ j \in a..b
  IN
  /\ ~(c = FromXML /\ d = FirstBoot) /\ ~(Post(5, 17) /\ Later(4, 13))
  /\ Post(3, 16) \/ First(2, 11) \/ Later(3, 12) \/ file = now
  /\ Post(9, 16) => http.web = now.web
  /\ Post(12, 16) => http.boot = now.boot \/ Later(3, 3)
  /\ First(4, 11) => ssdp.web = now.web
  /\ Later(5, 12) => ssdp.web = now.web \/ Post(3, 4)
  /\ First(7, 11) \/ Later(8, 12) => ssdp.boot = now.boot
  /\ Post(16, 16) \/ First(11, 11) \/ Later(12, 12) => file = Empty
=============================================================================
