--------------------------- MODULE PidFiltersProofs ---------------------------
(***************************************************************************)
(* Proofs about PidFilters, for any PIDs, any requests and a demux device  *)
(* that may fail.                                                          *)
(***************************************************************************)
EXTENDS PidFilters, TLAPS

\* What PidTable::setPID and PidTable::clear may do to a PID.
LEMMA UsedFacts ==
  \A s \in PidState :
    /\ Used(s, TRUE) \in {"ShouldOpen", "Opened", "ShouldCloseReopen"}
    /\ Used(s, TRUE) = "Opened" <=> s = "Opened"
    /\ Used(s, TRUE) = "ShouldOpen" <=> s \in {"ShouldOpen", "Closed"}
    /\ Used(s, TRUE) # s <=> s \in {"Closed", "ShouldClose"}
    /\ Used(s, FALSE) \in PidState \ {"Opened"}
    /\ Used(s, FALSE) # s <=> s = "Opened"
    /\ Used(s, FALSE) # s => Used(s, FALSE) = "ShouldClose"
  BY DEF Used, PidState

LEMMA ClearedFacts ==
  ASSUME NEW t \in [Pids -> PidState]
  PROVE  /\ Cleared(t) \in [Pids -> PidState]
         /\ \A p \in Pids :
              /\ Cleared(t)[p] \in {"Closed", "ShouldClose", "ShouldCloseReopen"}
              /\ Cleared(t)[p] = "Closed" <=> t[p] \in {"Closed", "ShouldOpen"}
  BY DEF Cleared, Used, PidState

LEMMA SetFacts ==
  ASSUME NEW t \in [Pids -> PidState], NEW P \in SUBSET Pids, NEW use \in BOOLEAN
  PROVE  /\ SetPIDs(t, P, use) \in [Pids -> PidState]
         /\ Changes(t, P, use) \in BOOLEAN
         /\ \A p \in Pids \ P : SetPIDs(t, P, use)[p] = t[p]
         /\ \A p \in P : SetPIDs(t, P, use)[p] = Used(t[p], use)
         /\ \A p \in P : Used(t[p], use) # t[p] => Changes(t, P, use)
  BY UsedFacts DEF SetPIDs, Changes, Used, PidState

LEMMA InitInv == Init => IInv
  BY PidsAssumption DEF Init, IInv, TypeOK, LockInv, DeviceInv, WantedInv, NoStrayFilter,
       OpenedIsFiltered, Pids, PidState, Steps, Flaws, ShouldClose, Pending

LEMMA ParseInv == ASSUME IInv, NEW r \in Requests, Parse(r) PROVE IInv'
<1> USE DEF Parse, IInv, tableVars, deviceVars, loopVars
<1>0. r \in Request
  BY RequestsAssumption
<1>1. TypeOK'
  <2>1. CASE Clears(r)
    BY <1>0, <2>1, ClearedFacts DEF TypeOK, Request, Steps, Flaws, ClearChanges, Changes
  <2>2. CASE ~Clears(r)
    BY <1>0, <2>2 DEF TypeOK, Request, Steps, Flaws
  <2> QED
    BY <2>1, <2>2
<1>2. LockInv'
  BY DEF LockInv
<1>3. DeviceInv'
  <2>1. CASE Clears(r)
    BY <2>1, ClearedFacts DEF TypeOK, LockInv, DeviceInv, NoStrayFilter, OpenedIsFiltered
  <2>2. CASE ~Clears(r)
    BY <2>2 DEF TypeOK, LockInv, DeviceInv, NoStrayFilter, OpenedIsFiltered
  <2> QED
    BY <2>1, <2>2
<1>4. WantedInv'
  <2>1. CASE Clears(r)
    BY <2>1, ClearedFacts
       DEF TypeOK, LockInv, DeviceInv, OpenedIsFiltered, WantedInv, ShouldClose, Pending, PidState
  <2>2. CASE ~Clears(r)
    BY <2>2, <1>0 DEF TypeOK, LockInv, WantedInv, ShouldClose, Pending, Clears, Request
  <2> QED
    BY <2>1, <2>2
<1> QED
  BY <1>1, <1>2, <1>3, <1>4

\* What is asked for may change while nobody holds the lock, if it forgets no PID that
\* the device delivers and leaves no PID to be opened unannounced.
LEMMA TableInv ==
  ASSUME IInv, lock = "none", UNCHANGED <<deviceVars, loopVars, request, flaws>>,
         table' \in [Pids -> PidState], changed' \in BOOLEAN, wanted' \in SUBSET Pids,
         edits' \in Seq(Edits),
         \/ request = "edit" /\ oscam' = oscam
         \/ oscam = "idle" /\ oscam' = "check",
         \A p \in Pids :
           /\ table'[p] = "Opened" => table[p] = "Opened"
           /\ ShouldClose(table'[p]) => ShouldClose(table[p]) \/ table[p] = "Opened"
           /\ table'[p] \in {"Closed", "ShouldOpen"} => table[p] \in {"Closed", "ShouldOpen"}
           /\ table'[p] = "ShouldOpen" /\ ~changed' => table[p] = "ShouldOpen" /\ ~changed,
         \A p \in wanted' :
           \/ table'[p] \in {"ShouldOpen", "Opened", "ShouldCloseReopen"}
           \/ p \in wanted /\ table'[p] = table[p]
  PROVE  IInv'
<1> USE DEF IInv, deviceVars, loopVars
<1>1. TypeOK'
  BY DEF TypeOK
<1>2. LockInv'
  BY DEF LockInv
<1>3. (\A p \in Pids : table[p] # "Opened") => (\A p \in Pids : table'[p] # "Opened")
  OBVIOUS
<1>4. DeviceInv'
  <2>1. NoStrayFilter'
    BY <1>1 DEF TypeOK, DeviceInv, NoStrayFilter, PidState
  <2>2. OpenedIsFiltered'
    BY DEF DeviceInv, OpenedIsFiltered
  <2> QED
    BY <1>3, <2>1, <2>2 DEF DeviceInv
<1>5. ASSUME flaws = {} PROVE WantedInv'
  <2>1. ASSUME NEW p \in Pids, ShouldClose(table'[p])
        PROVE  p \in filtered /\ request \notin {"untune", "closeDmx", "teardownDmx"}
    BY <1>5, <2>1 DEF DeviceInv, OpenedIsFiltered, WantedInv
  <2>2. ASSUME NEW p \in wanted', request \notin {"untune", "teardownDmx", "initialize"}
        PROVE  table'[p] \in {"ShouldOpen", "Opened", "ShouldCloseReopen"}
    BY <1>5, <2>2 DEF WantedInv
  <2>3. ASSUME NEW p \in Pids, table'[p] = "ShouldOpen"
        PROVE  /\ changed' \/ Pending(p)
               /\ tuned => \/ request \notin {"idle", "updating"}
                           \/ oscam' \in {"check", "wait"}
                           \/ Pending(p)
    BY <1>5, <2>3 DEF WantedInv, Pending
  <2> QED
    BY <1>3, <1>5, <2>1, <2>2, <2>3 DEF WantedInv, Pending
<1> QED
  BY <1>1, <1>2, <1>4, <1>5 DEF WantedInv

\* PIDs are set, by a parameter of a request or for OSCam.
LEMMA SetInv ==
  ASSUME IInv, lock = "none", UNCHANGED <<deviceVars, loopVars, request, flaws>>,
         edits' \in Seq(Edits),
         \/ request = "edit" /\ oscam' = oscam
         \/ oscam = "idle" /\ oscam' = "check",
         NEW P \in SUBSET Pids, NEW use \in BOOLEAN,
         table' = SetPIDs(table, P, use),
         changed' = (changed \/ Changes(table, P, use)),
         wanted' = IF use THEN wanted \cup P ELSE wanted \ P
  PROVE  IInv'
<1>1. table \in [Pids -> PidState] /\ changed \in BOOLEAN /\ wanted \subseteq Pids
  BY DEF IInv, TypeOK
<1>2. /\ table' \in [Pids -> PidState] /\ Changes(table, P, use) \in BOOLEAN
      /\ \A p \in Pids \ P : table'[p] = table[p]
      /\ \A p \in P : table'[p] = Used(table[p], use)
      /\ \A p \in P : table'[p] # table[p] => Changes(table, P, use)
  <2>1. table \in [Pids -> PidState]
    BY <1>1
  <2> QED
    BY <2>1, SetFacts
<1>3. /\ changed' \in BOOLEAN /\ wanted' \in SUBSET Pids
      /\ \A p \in wanted' : p \in Pids /\ (p \in wanted \/ (use /\ p \in P)) /\ (use \/ p \notin P)
  BY <1>1, <1>2
<1>4. \A p \in Pids :
        /\ table'[p] = "Opened" => table[p] = "Opened"
        /\ ShouldClose(table'[p]) => ShouldClose(table[p]) \/ table[p] = "Opened"
        /\ table'[p] \in {"Closed", "ShouldOpen"} => table[p] \in {"Closed", "ShouldOpen"}
        /\ table'[p] # table[p] => changed'
        /\ p \in P /\ use => table'[p] \in {"ShouldOpen", "Opened", "ShouldCloseReopen"}
        /\ p \notin P => table'[p] = table[p]
  BY <1>1, <1>2, UsedFacts DEF ShouldClose, Used, PidState
<1> QED
  BY <1>2, <1>3, <1>4, TableInv

\* The table is cleared, and PIDs are set.
LEMMA ClearInv ==
  ASSUME IInv, lock = "none", UNCHANGED <<deviceVars, loopVars, request, flaws>>,
         edits' \in Seq(Edits), request = "edit", oscam' = oscam,
         NEW P \in SUBSET Pids, NEW use \in BOOLEAN,
         table' = SetPIDs(Cleared(table), P, use),
         changed' = (ClearChanges(table) \/ Changes(Cleared(table), P, use)),
         wanted' = IF use THEN P ELSE {}
  PROVE  IInv'
<1> DEFINE c == Cleared(table)
<1>1. /\ c \in [Pids -> PidState]
      /\ \A p \in Pids :
           /\ c[p] \in {"Closed", "ShouldClose", "ShouldCloseReopen"}
           /\ c[p] = "Closed" => table[p] \in {"Closed", "ShouldOpen"}
           /\ c[p] # "Closed" => ShouldClose(table[p]) \/ table[p] = "Opened"
  BY ClearedFacts DEF IInv, TypeOK, PidState, ShouldClose
<1>2. /\ table' \in [Pids -> PidState] /\ Changes(c, P, use) \in BOOLEAN
      /\ ClearChanges(table) \in BOOLEAN
      /\ \A p \in Pids \ P : table'[p] = c[p]
      /\ \A p \in P : table'[p] = Used(c[p], use)
      /\ \A p \in P : table'[p] # c[p] => Changes(c, P, use)
  BY <1>1, SetFacts DEF ClearChanges, Changes
<1> HIDE DEF c
<1>3. /\ changed' \in BOOLEAN /\ wanted' \in SUBSET Pids
      /\ \A p \in wanted' : use /\ p \in P
  BY <1>2 DEF c
<1>4. \A p \in Pids :
        /\ table'[p] # "Opened"
        /\ ShouldClose(table'[p]) => ShouldClose(c[p])
        /\ table'[p] \in {"Closed", "ShouldOpen"} => c[p] = "Closed"
        /\ table'[p] = "ShouldOpen" => Changes(c, P, use)
        /\ p \in P /\ use => table'[p] \in {"ShouldOpen", "Opened", "ShouldCloseReopen"}
  BY <1>1, <1>2, UsedFacts DEF ShouldClose, Used, PidState
<1>5. \A p \in Pids :
        /\ ShouldClose(table'[p]) => ShouldClose(table[p]) \/ table[p] = "Opened"
        /\ table'[p] \in {"Closed", "ShouldOpen"} => table[p] \in {"Closed", "ShouldOpen"}
        /\ table'[p] = "ShouldOpen" => changed'
  BY <1>1, <1>4 DEF ShouldClose, c
<1> QED
  BY <1>2, <1>3, <1>4, <1>5, TableInv

LEMMA EditInv == ASSUME IInv, Edit PROVE IInv'
<1> DEFINE e == Head(edits)
           all == IF e.what = "all" THEN {AllPids} ELSE {}
<1>1. edits \in Seq(Edits) /\ edits # <<>>
  BY DEF Edit, IInv, TypeOK
<1>2. e \in Edits /\ Tail(edits) \in Seq(Edits)
  BY <1>1
<1>3. /\ e.add \in BOOLEAN /\ ListOf(e) \in SUBSET Pids
      /\ all \in SUBSET Pids
  <2>1. e.add \in BOOLEAN /\ e.list \subseteq Pids
    BY <1>2 DEF Edits
  <2>2. ListOf(e) \in SUBSET Pids
    BY <2>1, PidsAssumption DEF ListOf
  <2>3. AllPids \in Pids
    BY PidsAssumption DEF Pids
  <2> QED
    BY <2>1, <2>2, <2>3
<1>4. /\ lock = "none" /\ request = "edit" /\ edits' \in Seq(Edits) /\ oscam' = oscam
      /\ UNCHANGED <<deviceVars, loopVars, request, flaws>>
  BY <1>2 DEF Edit
<1>5. CASE e.what = "list"
  <2>1. /\ table' = SetPIDs(table, ListOf(e), e.add)
        /\ changed' = (changed \/ Changes(table, ListOf(e), e.add))
        /\ wanted' = IF e.add THEN wanted \cup ListOf(e) ELSE wanted \ ListOf(e)
    BY <1>5 DEF Edit
  <2> HIDE DEF e
  <2> QED
    BY <1>3, <1>4, <2>1, SetInv
<1>6. CASE e.what # "list"
  <2>1. /\ table' = SetPIDs(Cleared(table), all, e.add)
        /\ changed' = (ClearChanges(table) \/ Changes(Cleared(table), all, e.add))
        /\ wanted' = IF e.add THEN all ELSE {}
    BY <1>6 DEF Edit
  <2> HIDE DEF e, all
  <2> QED
    BY <1>3, <1>4, <2>1, ClearInv
<1> QED
  BY <1>5, <1>6

LEMMA OscamSetPidInv == ASSUME IInv, NEW p \in OscamPids, OscamSetPid(p) PROVE IInv'
<1>1. {p} \in SUBSET Pids /\ edits \in Seq(Edits)
  BY PidsAssumption DEF IInv, TypeOK
<1> QED
  BY <1>1, SetInv DEF OscamSetPid

\* The steps that leave the table alone.
LEMMA StepInv ==
  ASSUME IInv,
         \/ Parsed \/ BeginUpdate \/ CloseDmx \/ Tune \/ Ignored
         \/ BeginTeardown \/ Untune \/ OscamCheck \/ EndFilters
  PROVE  IInv'
<1> USE DEF IInv, tableVars, deviceVars, loopVars
<1>1. CASE Parsed
  <2>1. TypeOK'
    BY <1>1 DEF Parsed, TypeOK, Steps, Pids, Flaws
  <2>2. LockInv'
    BY <1>1 DEF Parsed, TypeOK, LockInv
  <2>3. DeviceInv'
    BY <1>1 DEF Parsed, TypeOK, LockInv, DeviceInv, NoStrayFilter, OpenedIsFiltered
  <2>4. WantedInv'
    BY <1>1 DEF Parsed, TypeOK, LockInv, DeviceInv, OpenedIsFiltered, WantedInv, Pending
  <2> QED
    BY <2>1, <2>2, <2>3, <2>4
<1>2. CASE BeginUpdate
  <2>1. TypeOK'
    BY <1>2 DEF BeginUpdate, TypeOK, Steps, Pids, Flaws
  <2>2. LockInv'
    BY <1>2 DEF BeginUpdate, TypeOK, LockInv
  <2>3. DeviceInv'
    BY <1>2 DEF BeginUpdate, TypeOK, LockInv, DeviceInv, NoStrayFilter, OpenedIsFiltered
  <2>4. WantedInv'
    BY <1>2 DEF BeginUpdate, TypeOK, LockInv, DeviceInv, OpenedIsFiltered, WantedInv, Pending
  <2> QED
    BY <2>1, <2>2, <2>3, <2>4
<1>3. CASE CloseDmx
  <2>1. TypeOK'
    BY <1>3 DEF CloseDmx, TypeOK, Steps, Pids, Flaws
  <2>2. LockInv'
    BY <1>3 DEF CloseDmx, TypeOK, LockInv
  <2>3. DeviceInv'
    BY <1>3 DEF CloseDmx, TypeOK, LockInv, DeviceInv, NoStrayFilter, OpenedIsFiltered
  <2>4. WantedInv'
    BY <1>3 DEF CloseDmx, TypeOK, LockInv, DeviceInv, OpenedIsFiltered, WantedInv, Pending
  <2> QED
    BY <2>1, <2>2, <2>3, <2>4
<1>4. CASE Tune
  <2>1. TypeOK'
    BY <1>4 DEF Tune, TypeOK, Steps, Pids, Flaws
  <2>2. LockInv'
    BY <1>4 DEF Tune, TypeOK, LockInv
  <2>3. DeviceInv'
    BY <1>4 DEF Tune, TypeOK, LockInv, DeviceInv, NoStrayFilter, OpenedIsFiltered
  <2>4. WantedInv'
    BY <1>4 DEF Tune, TypeOK, LockInv, DeviceInv, OpenedIsFiltered, WantedInv, Pending
  <2> QED
    BY <2>1, <2>2, <2>3, <2>4
<1>5. CASE Ignored
  <2>1. TypeOK'
    BY <1>5 DEF Ignored, TypeOK, Steps, Pids, Flaws
  <2>2. LockInv'
    BY <1>5 DEF Ignored, TypeOK, LockInv
  <2>3. DeviceInv'
    BY <1>5 DEF Ignored, TypeOK, LockInv, DeviceInv, NoStrayFilter, OpenedIsFiltered
  <2>4. WantedInv'
    BY <1>5 DEF Ignored, TypeOK, LockInv, DeviceInv, OpenedIsFiltered, WantedInv, Pending
  <2> QED
    BY <2>1, <2>2, <2>3, <2>4
<1>6. CASE BeginTeardown
  <2>1. TypeOK'
    BY <1>6 DEF BeginTeardown, TypeOK, Steps, Pids, Flaws
  <2>2. LockInv'
    BY <1>6 DEF BeginTeardown, TypeOK, LockInv
  <2>3. DeviceInv'
    BY <1>6 DEF BeginTeardown, TypeOK, LockInv, DeviceInv, NoStrayFilter, OpenedIsFiltered
  <2>4. WantedInv'
    BY <1>6 DEF BeginTeardown, TypeOK, LockInv, DeviceInv, OpenedIsFiltered, WantedInv, Pending
  <2> QED
    BY <2>1, <2>2, <2>3, <2>4
<1>7. CASE Untune
  <2>1. TypeOK'
    BY <1>7 DEF Untune, TypeOK, Steps, Pids, Flaws
  <2>2. LockInv'
    BY <1>7 DEF Untune, TypeOK, LockInv
  <2>3. DeviceInv'
    BY <1>7 DEF Untune, TypeOK, LockInv, DeviceInv, NoStrayFilter, OpenedIsFiltered
  <2>4. WantedInv'
    BY <1>7 DEF Untune, TypeOK, LockInv, DeviceInv, OpenedIsFiltered, WantedInv, Pending
  <2> QED
    BY <2>1, <2>2, <2>3, <2>4
<1>8. CASE OscamCheck
  <2>1. TypeOK'
    BY <1>8 DEF OscamCheck, TypeOK, Steps, Pids, Flaws
  <2>2. LockInv'
    BY <1>8 DEF OscamCheck, TypeOK, LockInv
  <2>3. DeviceInv'
    BY <1>8 DEF OscamCheck, TypeOK, LockInv, DeviceInv, NoStrayFilter, OpenedIsFiltered
  <2>4. WantedInv'
    BY <1>8 DEF OscamCheck, TypeOK, LockInv, DeviceInv, OpenedIsFiltered, WantedInv, Pending
  <2> QED
    BY <2>1, <2>2, <2>3, <2>4
<1>9. CASE EndFilters
  <2>1. TypeOK'
    BY <1>9 DEF EndFilters, TypeOK, Steps, Pids, Flaws
  <2>2. LockInv'
    BY <1>9 DEF EndFilters, TypeOK, LockInv
  <2>3. DeviceInv'
    BY <1>9 DEF EndFilters, TypeOK, LockInv, DeviceInv, NoStrayFilter, OpenedIsFiltered
  <2>4. WantedInv'
    BY <1>9, PidsAssumption
       DEF EndFilters, TypeOK, LockInv, DeviceInv, OpenedIsFiltered, WantedInv,
           Pending, Pids
  <2> QED
    BY <2>1, <2>2, <2>3, <2>4
<1> QED
  BY <1>1, <1>2, <1>3, <1>4, <1>5, <1>6, <1>7, <1>8, <1>9

\* updatePIDFilters begins.
LEMMA BeginFiltersInv ==
  ASSUME IInv, BeginRequestFilters \/ BeginOscamFilters
  PROVE  IInv'
<1> USE DEF IInv, tableVars, deviceVars, loopVars, BeginFilters
<1>0. 0 \in 0..(AllPids + 1)
  BY PidsAssumption
<1>1. CASE BeginRequestFilters
  <2>1. TypeOK'
    BY <1>0, <1>1 DEF BeginRequestFilters, TypeOK, Steps
  <2>2. LockInv'
    BY <1>1 DEF BeginRequestFilters, TypeOK, LockInv
  <2>3. DeviceInv'
    BY <1>1 DEF BeginRequestFilters, TypeOK, LockInv, DeviceInv, NoStrayFilter, OpenedIsFiltered
  <2>4. WantedInv'
    BY <1>1 DEF BeginRequestFilters, TypeOK, LockInv, WantedInv, Pending, Pids
  <2> QED
    BY <2>1, <2>2, <2>3, <2>4
<1>2. CASE BeginOscamFilters
  <2>1. /\ flaws \subseteq flaws' /\ flaws' \subseteq flaws \cup {"early", "late"}
        /\ changed /\ (~tuned \/ request = "untune") => "late" \in flaws'
        /\ changed /\ dataChanged => "early" \in flaws'
    BY <1>2 DEF BeginOscamFilters
  <2>2. /\ oscam = "wait" /\ lock = "none"
        /\ UNCHANGED <<table, wanted, hasFreq, dataChanged, tuned, dmx, filtered, request, edits>>
        /\ changed => lock' = "oscam" /\ cursor' = 0 /\ changed' = FALSE /\ oscam' = "updating"
        /\ ~changed => UNCHANGED <<lock, cursor, changed>> /\ oscam' = "idle"
    BY <1>2 DEF BeginOscamFilters, TypeOK
  <2>3. TypeOK'
    BY <1>0, <2>1, <2>2 DEF TypeOK, Flaws
  <2>4. LockInv'
    BY <2>2 DEF TypeOK, LockInv
  <2>5. DeviceInv'
    <3>1. NoStrayFilter' /\ OpenedIsFiltered' /\ (filtered # {} => dmx = "on")'
      BY <2>1, <2>2 DEF DeviceInv, NoStrayFilter, OpenedIsFiltered
    <3>2. ASSUME "late" \notin flaws'
          PROVE  lock' = "oscam" => tuned /\ request \notin {"untune", "closeDmx", "teardownDmx"}
      BY <2>1, <2>2, <3>2 DEF TypeOK, LockInv
    <3> QED
      BY <2>1, <2>2, <3>1, <3>2 DEF DeviceInv
  <2>6. WantedInv'
    <3>1. CASE changed
      BY <2>1, <2>2, <3>1, PidsAssumption DEF TypeOK, LockInv, WantedInv, Pending, Pids
    <3>2. CASE ~changed
      BY <2>1, <2>2, <3>2 DEF TypeOK, LockInv, WantedInv, Pending, Pids
    <3> QED
      BY <3>1, <3>2
  <2> QED
    BY <2>3, <2>4, <2>5, <2>6
<1> QED
  BY <1>1, <1>2

\* The end of a teardown.
LEMMA InitializeInv == ASSUME IInv, Initialize PROVE IInv'
<1> USE DEF IInv, Initialize, loopVars
<1>1. /\ table \in [Pids -> PidState]
      /\ ClearChanges(table) \in BOOLEAN
  BY DEF TypeOK, ClearChanges, Changes
<1>2. TypeOK'
  BY <1>1, ClearedFacts DEF TypeOK, Steps
<1>3. LockInv'
  BY DEF LockInv
<1>4. DeviceInv'
  BY <1>1, ClearedFacts DEF TypeOK, LockInv, DeviceInv, NoStrayFilter, OpenedIsFiltered
<1>5. WantedInv'
  BY <1>1, ClearedFacts
     DEF TypeOK, LockInv, DeviceInv, OpenedIsFiltered, WantedInv, ShouldClose, Pending, PidState
<1> QED
  BY <1>2, <1>3, <1>4, <1>5

\* closeActivePIDFilters, of an update or a teardown.
LEMMA CloseFiltersInv == ASSUME IInv, CloseFilters PROVE IInv'
<1> DEFINE t == SetPIDs(table, Pids, FALSE)
           due == {p \in Pids : ShouldClose(t[p])}
           Done(fails) == IF dmx = "on" THEN due \ fails ELSE {}
           Step(done) ==
             /\ table' = [p \in Pids |-> IF p \in done THEN AfterClose(t[p]) ELSE t[p]]
             /\ changed' = \/ changed \/ Changes(table, Pids, FALSE)
                           \/ \E p \in done : t[p] = "ShouldCloseReopen"
             /\ filtered' = filtered \ done
             /\ flaws' = IF done = due THEN flaws ELSE flaws \cup {"device"}
<1>1. PICK done \in SUBSET due : Step(done)
  <2>1. PICK fails \in Fails(due) : Step(Done(fails))
    BY DEF CloseFilters
  <2>2. Done(fails) \in SUBSET due
    OBVIOUS
  <2> QED
    BY <2>1, <2>2
<1>2. /\ request \in {"close", "teardown"} /\ lock = "none"
      /\ request' = IF request = "close" THEN "closeDmx" ELSE "untune"
      /\ UNCHANGED <<wanted, hasFreq, dataChanged, tuned, dmx, lock, cursor, edits, oscam>>
  BY DEF CloseFilters, loopVars
<1>3. /\ t \in [Pids -> PidState] /\ Changes(table, Pids, FALSE) \in BOOLEAN
      /\ \A p \in Pids : t[p] = Used(table[p], FALSE)
  <2>1. table \in [Pids -> PidState] /\ Pids \in SUBSET Pids /\ FALSE \in BOOLEAN
    BY DEF IInv, TypeOK
  <2> QED
    BY <2>1, SetFacts
<1>4. \A p \in Pids :
        /\ t[p] # "Opened"
        /\ table[p] \in {"Opened", "ShouldClose", "ShouldCloseReopen"} <=> ShouldClose(t[p])
        /\ table[p] # "Opened" => t[p] = table[p]
        /\ t[p] = "ShouldOpen" => table[p] = "ShouldOpen"
        /\ AfterClose(t[p]) \in {"ShouldOpen", "Closed"}
        /\ AfterClose(t[p]) = "ShouldOpen" <=> t[p] = "ShouldCloseReopen"
  BY <1>3, UsedFacts DEF IInv, TypeOK, ShouldClose, AfterClose, Used, PidState
<1> HIDE DEF t
<1>5. \A p \in Pids :
        /\ table'[p] = IF p \in done THEN AfterClose(t[p]) ELSE t[p]
        /\ table'[p] \in PidState /\ table'[p] # "Opened"
  BY <1>1, <1>3, <1>4 DEF PidState
<1>6. TypeOK'
  <2>1. /\ table' \in [Pids -> PidState] /\ changed' \in BOOLEAN
        /\ filtered' \subseteq Pids /\ flaws' \subseteq Flaws
    BY <1>1, <1>3, <1>5 DEF IInv, TypeOK, Flaws
  <2> QED
    BY <1>2, <2>1 DEF IInv, TypeOK, Steps
<1>7. LockInv'
  BY <1>2 DEF IInv, LockInv
<1>8. DeviceInv'
  <2>1. NoStrayFilter'
    BY <1>1, <1>4, <1>5 DEF IInv, TypeOK, DeviceInv, NoStrayFilter, ShouldClose, PidState
  <2>2. OpenedIsFiltered' /\ flaws \subseteq flaws' /\ filtered' \subseteq filtered
    BY <1>1, <1>5 DEF OpenedIsFiltered
  <2> QED
    BY <1>2, <1>5, <2>1, <2>2 DEF IInv, DeviceInv
<1>9. ASSUME flaws' = {} PROVE WantedInv'
  <2>1. flaws = {} /\ done = due
    BY <1>1, <1>9
  <2>2. ASSUME NEW p \in Pids PROVE ~ShouldClose(table'[p])
    BY <1>4, <1>5, <2>1 DEF ShouldClose
  <2>3. ASSUME NEW p \in wanted, request = "close"
        PROVE  table'[p] = "ShouldOpen"
    <3>1. p \in Pids /\ table[p] \in {"ShouldOpen", "ShouldCloseReopen"}
      BY <2>1, <2>3 DEF IInv, TypeOK, WantedInv
    <3> QED
      BY <1>4, <1>5, <2>1, <3>1 DEF ShouldClose
  <2>4. ASSUME NEW p \in Pids, table'[p] = "ShouldOpen"
        PROVE  changed'
    <3>1. CASE p \in done
      BY <1>1, <1>4, <1>5, <2>4, <3>1
    <3>2. CASE p \notin done
      BY <1>1, <1>2, <1>4, <1>5, <2>1, <2>4, <3>2 DEF IInv, WantedInv, Pending
    <3> QED
      BY <3>1, <3>2
  <2> QED
    BY <1>2, <1>5, <2>2, <2>3, <2>4 DEF WantedInv
<1> QED
  BY <1>6, <1>7, <1>8, <1>9 DEF IInv, WantedInv

\* One PID of updatePIDFilters.
LEMMA FilterPidInv == ASSUME IInv, FilterPid PROVE IInv'
<1> DEFINE old == table[cursor]
           due == ShouldClose(old)
           after(closed) == IF closed THEN AfterClose(old) ELSE old
<1>1. PICK closed \in BOOLEAN, opened \in BOOLEAN, dmxNext \in {"closed", "open", "on"} :
        /\ closed => due /\ dmx = "on"
        /\ opened => after(closed) = "ShouldOpen" /\ dmxNext = "on"
        /\ IF after(closed) = "ShouldOpen" /\ dmx = "closed"
           THEN dmxNext = "on" => opened
           ELSE dmxNext = dmx
        /\ table' = [table EXCEPT ![cursor] = IF opened THEN "Opened" ELSE after(closed)]
        /\ changed' = (changed \/ (closed /\ after(closed) = "ShouldOpen"))
        /\ filtered' = (IF closed THEN filtered \ {cursor} ELSE filtered)
                         \cup (IF opened THEN {cursor} ELSE {})
        /\ dmx' = dmxNext
        /\ flaws' = IF (due => closed) /\ (after(closed) = "ShouldOpen" => opened)
                    THEN flaws ELSE flaws \cup {"device"}
  BY ZenonT(60) DEF FilterPid
<1>2. /\ lock # "none" /\ cursor \in Pids /\ cursor' = cursor + 1
      /\ UNCHANGED <<wanted, hasFreq, dataChanged, tuned, lock, request, edits, oscam>>
  BY DEF FilterPid
<1>3. /\ old \in PidState
      /\ AfterClose(old) \in {"ShouldOpen", "Closed"}
      /\ AfterClose(old) = "ShouldOpen" <=> old = "ShouldCloseReopen"
      /\ due <=> old \in {"ShouldClose", "ShouldCloseReopen"}
  BY <1>2 DEF IInv, TypeOK, AfterClose, ShouldClose
<1>4. /\ table' \in [Pids -> PidState]
      /\ \A p \in Pids : p # cursor => table'[p] = table[p]
      /\ opened => table'[cursor] = "Opened"
      /\ closed /\ ~opened => table'[cursor] = AfterClose(old)
      /\ ~closed /\ ~opened => table'[cursor] = old
  BY <1>1, <1>2, <1>3 DEF IInv, TypeOK, PidState
<1>5. /\ flaws \subseteq flaws' /\ flaws' \subseteq flaws \cup {"device"}
      /\ filtered' \subseteq filtered \cup {cursor}
      /\ filtered \subseteq filtered' \cup {cursor}
      /\ opened => cursor \in filtered'
      /\ closed /\ ~opened => cursor \notin filtered'
      /\ ~closed /\ ~opened => filtered' = filtered
  BY <1>1
<1>6. TypeOK'
  <2>1. cursor' \in 0..(AllPids + 1)
    BY <1>2, PidsAssumption DEF Pids
  <2>2. changed' \in BOOLEAN /\ filtered' \subseteq Pids /\ flaws' \subseteq Flaws
    BY <1>1, <1>2, <1>5 DEF IInv, TypeOK, Flaws
  <2> QED
    BY <1>1, <1>2, <1>4, <2>1, <2>2 DEF IInv, TypeOK
<1>7. LockInv'
  BY <1>2 DEF IInv, LockInv
<1> HIDE DEF old, due
<1>8. DeviceInv'
  <2>1. (filtered # {} => dmx = "on")'
    BY <1>1, <1>5 DEF IInv, DeviceInv
  <2>2. NoStrayFilter'
    <3> SUFFICES ASSUME NEW p \in filtered'
                 PROVE  table'[p] \in {"Opened", "ShouldClose", "ShouldCloseReopen"}
      BY DEF NoStrayFilter
    <3>1. CASE p # cursor
      BY <1>2, <1>4, <1>5, <3>1 DEF IInv, TypeOK, DeviceInv, NoStrayFilter
    <3>2. CASE p = cursor
      BY <1>1, <1>2, <1>4, <1>5, <3>2 DEF IInv, DeviceInv, NoStrayFilter, old
    <3> QED
      BY <3>1, <3>2
  <2>3. OpenedIsFiltered'
    <3> SUFFICES ASSUME "late" \notin flaws', NEW p \in Pids, table'[p] = "Opened"
                 PROVE  p \in filtered'
      BY DEF OpenedIsFiltered
    <3>1. CASE p # cursor
      BY <1>4, <1>5, <3>1 DEF IInv, DeviceInv, OpenedIsFiltered
    <3>2. CASE p = cursor
      BY <1>3, <1>4, <1>5, <3>2 DEF IInv, DeviceInv, OpenedIsFiltered, old
    <3> QED
      BY <3>1, <3>2
  <2> QED
    BY <1>2, <1>5, <2>1, <2>2, <2>3 DEF IInv, TypeOK, LockInv, DeviceInv
<1>9. ASSUME flaws' = {} PROVE WantedInv'
  <2>1. flaws = {} /\ (due => closed) /\ (after(closed) = "ShouldOpen" => opened)
    BY <1>1, <1>9
  <2>2. /\ ~ShouldClose(table'[cursor]) /\ table'[cursor] # "ShouldOpen"
        /\ old \in {"ShouldOpen", "Opened", "ShouldCloseReopen"} => table'[cursor] = "Opened"
    BY <1>1, <1>3, <1>4, <2>1 DEF ShouldClose, PidState
  <2>3. ~dataChanged /\ request # "close"
    BY <1>2, <2>1 DEF IInv, WantedInv
  <2>4. ASSUME NEW p \in Pids, ShouldClose(table'[p])
        PROVE  p \in filtered' /\ request \notin {"untune", "closeDmx", "teardownDmx"}
    BY <1>2, <1>4, <1>5, <2>1, <2>2, <2>4 DEF IInv, WantedInv
  <2>5. ASSUME NEW p \in wanted, request \notin {"untune", "teardownDmx", "initialize"}
        PROVE  table'[p] \in {"ShouldOpen", "Opened", "ShouldCloseReopen"}
    BY <1>4, <2>1, <2>2, <2>5 DEF IInv, TypeOK, WantedInv, old
  <2>6. ASSUME NEW p \in Pids, table'[p] = "ShouldOpen"
        PROVE  /\ changed' \/ cursor' <= p
               /\ tuned => \/ request \notin {"idle", "updating"}
                           \/ oscam \in {"check", "wait"}
                           \/ cursor' <= p
    <3>1. p # cursor /\ table[p] = "ShouldOpen"
      BY <1>4, <2>2, <2>6
    <3>2. cursor <= p => cursor' <= p
      BY <1>2, <3>1, PidsAssumption DEF Pids
    <3>3. changed => changed'
      BY <1>1
    <3> QED
      BY <2>1, <3>1, <3>2, <3>3 DEF IInv, WantedInv, Pending
  <2> QED
    BY <1>2, <2>3, <2>4, <2>5, <2>6 DEF WantedInv, Pending
<1> QED
  BY <1>6, <1>7, <1>8, <1>9 DEF IInv, WantedInv

LEMMA NextInv == IInv /\ [Next]_vars => IInv'
<1> SUFFICES ASSUME IInv, [Next]_vars PROVE IInv'
  OBVIOUS
<1>1. CASE UNCHANGED vars
  BY <1>1 DEF vars, tableVars, deviceVars, loopVars, IInv, TypeOK, LockInv, DeviceInv,
       NoStrayFilter, OpenedIsFiltered, WantedInv, Pending
<1>2. CASE Next
  BY <1>2, ParseInv, EditInv, StepInv, CloseFiltersInv, BeginFiltersInv, InitializeInv,
     OscamSetPidInv, FilterPidInv
     DEF Next, RequestStep, OscamStep
<1> QED
  BY <1>1, <1>2

\* The inductive invariant of PidFilters holds in every reachable state.
THEOREM FilterInvariant == Spec => []IInv
  BY InitInv, NextInv, PTL DEF Spec

\* The demux device never delivers a PID that the table has as closed.
THEOREM NoStrayFilters == Spec => []NoStrayFilter
<1>1. IInv => NoStrayFilter
  BY DEF IInv, DeviceInv
<1> QED
  BY <1>1, FilterInvariant, PTL

\* A PID that the table has as opened is delivered, unless OSCam came too late.
THEOREM OpenedAreFiltered == Spec => []OpenedIsFiltered
<1>1. IInv => OpenedIsFiltered
  BY DEF IInv, DeviceInv
<1> QED
  BY <1>1, FilterInvariant, PTL

\* An idle frontend that is not tuned has released the demux device, unless OSCam came
\* too late.
THEOREM DemuxIsReleased == Spec => []DemuxReleased
<1>1. IInv => DemuxReleased
  BY DEF IInv, DeviceInv, DemuxReleased
<1> QED
  BY <1>1, FilterInvariant, PTL

\* If nothing went wrong, what was asked for is delivered once everyone is done.
THEOREM WantedAreFiltered == Spec => []WantedIsFiltered
<1>1. ASSUME IInv, flaws = {}, tuned, Quiet, NEW p \in wanted
      PROVE  p \in filtered
  <2>1. lock = "none"
    BY <1>1 DEF IInv, TypeOK, LockInv, Quiet
  <2>2. p \in Pids /\ table[p] \in {"ShouldOpen", "Opened", "ShouldCloseReopen"}
    BY <1>1 DEF IInv, TypeOK, WantedInv, Quiet
  <2>3. table[p] # "ShouldOpen"
    BY <1>1, <2>1, <2>2 DEF IInv, WantedInv, Quiet, Pending
  <2> QED
    BY <1>1, <2>2, <2>3 DEF IInv, DeviceInv, OpenedIsFiltered, WantedInv, ShouldClose
<1>2. IInv => WantedIsFiltered
  BY <1>1 DEF WantedIsFiltered
<1> QED
  BY <1>2, FilterInvariant, PTL
=============================================================================
