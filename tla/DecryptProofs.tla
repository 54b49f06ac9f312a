------------------------------- MODULE DecryptProofs -------------------------------
(***************************************************************************)
(* What the decryption components promise, for every value of their        *)
(* constants: DvbApiClient and OSCamFilters of the DVBAPI client, and DvbCa.*)
(***************************************************************************)
EXTENDS DvbApiClient, OSCamFilters, DvbCa, FiniteSetTheorems, WellFoundedInduction, TLAPS

-----------------------------------------------------------------------------
(* DvbApiClient: the keys and where they are *)

\* The map is finite, and its size is that of its parts.
LEMMA MapIsFinite ==
  ASSUME DvbApiTypeOK
  PROVE  /\ IsFiniteSet(capmt) /\ Cardinality(capmt) \in Nat
         /\ \A S \in SUBSET capmt :
              /\ IsFiniteSet(S) /\ Cardinality(S) \in Nat /\ Cardinality(S) <= Cardinality(capmt)
              /\ (Cardinality(S) = Cardinality(capmt) => S = capmt)
              /\ (Cardinality(S) = 0 <=> S = {})
<1>1. IsFiniteSet(capmt) BY DvbApiAssumption, FS_Subset DEF DvbApiTypeOK
<1> QED BY <1>1, FS_Subset, FS_CardinalityType, FS_EmptySet

\* Every entry is before the cursor or after it; the cursor is an integer.
LEMMA SentOrLeft ==
  ASSUME DvbApiTypeOK, NEW c \in Channels
  PROVE  /\ cursor[c] \in Int /\ capmt \subseteq Nat
         /\ Sent(c) \cup Left(c) = capmt /\ Sent(c) \cap Left(c) = {}
<1>1. cursor[c] \in Int /\ capmt \subseteq Nat
  <2>1. \A k \in Channels : k \in Nat /\ k \in Int BY DvbApiAssumption
  <2>2. cursor[c] \in Channels \cup {-1, -2} BY DEF DvbApiTypeOK, Idle
  <2>3. cursor[c] \in Int BY <2>1, <2>2
  <2> QED BY <2>1, <2>3 DEF DvbApiTypeOK
<1>2. \A k \in capmt : k \in Int BY <1>1
<1>3. \A k \in capmt : k <= cursor[c] \/ k > cursor[c] BY <1>1, <1>2
<1>4. \A k \in capmt : ~(k <= cursor[c] /\ k > cursor[c]) BY <1>1, <1>2
<1> QED BY <1>1, <1>3, <1>4 DEF Sent, Left

\* DvbApiInv holds initially.
LEMMA DvbApiInitInv == DvbApiInit => DvbApiInv
<1> SUFFICES ASSUME DvbApiInit PROVE DvbApiInv OBVIOUS
<1>1. DvbApiTypeOK
  <2>1. 0 \in 0..MaxTrouble BY DvbApiAssumption
  <2> QED BY <2>1 DEF DvbApiInit, DvbApiTypeOK
<1>2. Sending = {} BY DEF DvbApiInit, Sending
<1> QED BY <1>1, <1>2 DEF DvbApiInit, DvbApiInv, MapIsRight, SendingInv, OSCamHasTheList

\* The types.
LEMMA DvbApiTypes == DvbApiInv /\ [DvbApiNext]_dvbapiVars => DvbApiTypeOK'
<1> SUFFICES ASSUME DvbApiTypeOK, [DvbApiNext]_dvbapiVars PROVE DvbApiTypeOK'
  BY DEF DvbApiInv
<1> USE DEF DvbApiTypeOK, connectionVars, channelVars, oscamVars
<1>1. ASSUME Trouble PROVE trouble' \in 0..MaxTrouble
  BY <1>1, DvbApiAssumption DEF Trouble
<1>2. CASE ClientStep
  <2>1. CASE Loop BY <2>1 DEF Loop
  <2>2. CASE Connect BY <2>2 DEF Connect
  <2>3. CASE PollTimeout BY <2>3 DEF PollTimeout
  <2>4. CASE Receive BY <2>4 DEF Receive
  <2>5. CASE ConnectionLost BY <2>5 DEF ConnectionLost
  <2>6. CASE ServerInfo BY <2>6 DEF ServerInfo
  <2> QED BY <1>2, <2>1, <2>2, <2>3, <2>4, <2>5, <2>6 DEF ClientStep
<1>3. CASE RetryTime \/ Answer \/ OSCamStarts \/ Enable
  <2>1. CASE RetryTime BY <2>1 DEF RetryTime
  <2>2. CASE Answer BY <2>2 DEF Answer
  <2>3. CASE OSCamStarts BY <2>3 DEF OSCamStarts
  <2>4. CASE Enable BY <2>4 DEF Enable
  <2> QED BY <1>3, <2>1, <2>2, <2>3, <2>4
<1>4. CASE OSCamCloses \/ Disable
  <2>1. CASE OSCamCloses BY <2>1, <1>1 DEF OSCamCloses
  <2>2. CASE Disable BY <2>2, <1>1 DEF Disable
  <2> QED BY <1>4, <2>1, <2>2
<1>5. ASSUME NEW c \in Channels, ChannelStarts(c) PROVE DvbApiTypeOK'
  BY <1>5 DEF ChannelStarts
<1>6. ASSUME NEW c \in Channels, SendPMT(c) PROVE DvbApiTypeOK'
  BY <1>6 DEF SendPMT
<1>7. ASSUME NEW c \in Channels, SendEntry(c) PROVE DvbApiTypeOK'
  <2>1. PICK k \in Left(c) :
          /\ cursor' = [cursor EXCEPT ![c] = k] /\ count' = [count EXCEPT ![c] = @ + 1]
          /\ \/ /\ link /\ Receives(k, Management(count[c]))
                /\ UNCHANGED <<trouble, trust>>
             \/ /\ Fails
                /\ trust' = "no"
                /\ UNCHANGED oscamVars
          /\ UNCHANGED <<connectionVars, pmt, capmt, unstopped>>
    BY <1>7 DEF SendEntry
  <2>2. k \in Channels BY DEF Left
  <2>3. /\ cursor' \in [Channels -> Channels \cup {-1, Idle}] /\ count' \in [Channels -> Nat]
    BY <2>1, <2>2
  <2>4. list' \subseteq Channels /\ working' \subseteq Channels
    BY <2>1, <2>2 DEF Receives
  <2>5. trouble' \in 0..MaxTrouble /\ trust' \in {"no", "sending", "yes"}
    BY <2>1, <1>1 DEF Fails
  <2> QED BY <2>1, <2>3, <2>4, <2>5
<1>8. ASSUME NEW c \in Channels, SendDone(c) PROVE DvbApiTypeOK'
  BY <1>8 DEF SendDone
<1>9. ASSUME NEW c \in Channels, StopDecrypt(c) PROVE DvbApiTypeOK'
  BY <1>9, <1>1 DEF StopDecrypt, Disturbed, Fails
<1>10. CASE UNCHANGED dvbapiVars
  BY <1>10 DEF dvbapiVars
<1> QED
  BY <1>2, <1>3, <1>4, <1>5, <1>6, <1>7, <1>8, <1>9, <1>10 DEF DvbApiNext

-----------------------------------------------------------------------------

\* _capmtMap stays right.
LEMMA MapStep == DvbApiInv /\ [DvbApiNext]_dvbapiVars => MapIsRight'
<1> SUFFICES ASSUME DvbApiInv, [DvbApiNext]_dvbapiVars PROVE MapIsRight' OBVIOUS
<1> USE DEF DvbApiInv, DvbApiTypeOK, MapIsRight
<1>1. CASE UNCHANGED <<pmt, capmt, unstopped>>
  BY <1>1
<1>2. CASE \/ ClientStep \/ RetryTime \/ Answer \/ OSCamCloses \/ OSCamStarts \/ Disable
           \/ Enable \/ UNCHANGED dvbapiVars
  <2>1. UNCHANGED channelVars
    BY <1>2 DEF ClientStep, Loop, Connect, PollTimeout, Receive, ConnectionLost, ServerInfo,
                RetryTime, Answer, OSCamCloses, OSCamStarts, Disable, Enable, dvbapiVars
  <2> QED BY <1>1, <2>1 DEF channelVars
<1>3. ASSUME NEW c \in Channels, ChannelStarts(c) PROVE MapIsRight'
  BY <1>3 DEF ChannelStarts
<1>4. ASSUME NEW c \in Channels, SendPMT(c) PROVE MapIsRight'
  BY <1>4 DEF SendPMT
<1>5. ASSUME NEW c \in Channels, SendEntry(c) \/ SendDone(c) PROVE MapIsRight'
  BY <1>1, <1>5 DEF SendEntry, SendDone
<1>6. ASSUME NEW c \in Channels, StopDecrypt(c) PROVE MapIsRight'
  BY <1>6 DEF StopDecrypt
<1> QED
  BY <1>2, <1>3, <1>4, <1>5, <1>6 DEF DvbApiNext

-----------------------------------------------------------------------------

\* The next entry of such a list.
LEMMA NextEntry ==
  ASSUME DvbApiInv, NEW s \in Channels, s \in Sending, Progress(s), DvbApiTypeOK',
         NEW k \in Left(s), \A j \in Left(s) : k <= j, capmt' = capmt,
         cursor' = [cursor EXCEPT ![s] = k], count' = [count EXCEPT ![s] = @ + 1],
         Receives(k, Management(count[s]))
  PROVE  Progress(s)'
<1> DEFINE n == Cardinality(Sent(s))
<1>1. DvbApiTypeOK /\ count[s] = n /\ k \in capmt /\ k \in Channels
  BY DEF DvbApiInv, DvbApiTypeOK, Progress, Left
<1>2. /\ cursor[s] \in Int /\ capmt \subseteq Nat /\ Sent(s) \cup Left(s) = capmt
      /\ Sent(s) \cap Left(s) = {}
  BY <1>1, SentOrLeft
<1>3. Sent(s)' = Sent(s) \cup {k} /\ k \notin Sent(s) /\ Left(s)' = Left(s) \ {k}
  <2>1. cursor'[s] = k BY <1>1 DEF DvbApiTypeOK
  <2>2. \A j \in capmt : j <= k <=> (j <= cursor[s] \/ j = k)
    BY <1>2 DEF Left
  <2>3. \A j \in capmt : j > k <=> (j > cursor[s] /\ j # k)
    BY <1>2 DEF Left
  <2> QED BY <1>1, <1>2, <2>1, <2>2, <2>3 DEF Sent, Left
<1>4. Cardinality(Sent(s)') = n + 1 /\ n \in Nat
  BY <1>1, <1>2, <1>3, MapIsFinite, FS_AddElement
<1>5. Sending' = {s}
  <2>1. k # Idle BY <1>2 DEF Left, Idle
  <2>2. cursor'[s] = k /\ \A c \in Channels : c # s => cursor'[c] = cursor[c]
    BY <1>1 DEF DvbApiTypeOK
  <2> QED BY <2>1, <2>2 DEF Progress, Sending
<1>6. count'[s] = n + 1 BY <1>1 DEF DvbApiTypeOK
<1>7. Sent(s)' \subseteq capmt /\ Sent(s)' # {} BY <1>1, <1>2, <1>3
<1>8. n = 0 <=> Sent(s) = {}
  BY <1>1, <1>2, MapIsFinite
<1>9. list' = Sent(s)'
  BY <1>1, <1>3, <1>8 DEF Receives, Management, Progress
<1>10. ASSUME Left(s)' = {} PROVE working' = capmt
  <2>1. Sent(s)' = capmt BY <1>1, <1>2, <1>3, <1>10
  <2>2. Cardinality(capmt) = n + 1 BY <2>1, <1>4
  <2>3. Management(n) \in {"only", "last"} BY <2>2, <1>4 DEF Management
  <2> QED BY <2>1, <2>3, <1>1, <1>9 DEF Receives
<1> QED BY <1>4, <1>5, <1>6, <1>9, <1>10 DEF Progress

\* SendingInv and OSCamHasTheList hold after every step.
LEMMA SendingStep ==
  DvbApiInv /\ [DvbApiNext]_dvbapiVars => SendingInv' /\ OSCamHasTheList'
<1> SUFFICES ASSUME DvbApiInv, [DvbApiNext]_dvbapiVars
             PROVE  SendingInv' /\ OSCamHasTheList'
  OBVIOUS
<1>1. DvbApiTypeOK /\ DvbApiTypeOK' /\ MapIsRight /\ SendingInv /\ OSCamHasTheList
  BY DvbApiTypes DEF DvbApiInv
<1>2. ASSUME UNCHANGED <<pmt, capmt, cursor, count>>, trust' = "no"
      PROVE  SendingInv' /\ OSCamHasTheList'
  BY <1>1, <1>2 DEF SendingInv, OSCamHasTheList, Sending
<1>3. ASSUME UNCHANGED <<capmt, cursor, count, list, working, trust>>,
             trust # "no" => connected', \A c \in Sending : pmt'[c] = pmt[c]
      PROVE  SendingInv' /\ OSCamHasTheList'
  BY <1>1, <1>3 DEF SendingInv, OSCamHasTheList, Sending, Progress, Sent, Left
<1>4. CASE Loop \/ PollTimeout \/ Receive \/ ServerInfo \/ RetryTime \/ Answer \/ OSCamStarts
           \/ Enable \/ UNCHANGED dvbapiVars
  <2>1. /\ UNCHANGED <<pmt, capmt, cursor, count, list, working, trust>>
        /\ (connected' = connected \/ connected' = TRUE)
    BY <1>4 DEF Loop, PollTimeout, Receive, ServerInfo, RetryTime, Answer, OSCamStarts, Enable,
                dvbapiVars, connectionVars, channelVars, oscamVars
  <2>2. trust # "no" => connected' BY <1>1, <2>1 DEF SendingInv
  <2> QED BY <2>1, <2>2, <1>3
<1>5. CASE Connect \/ ConnectionLost \/ OSCamCloses \/ Disable
  <2>1. UNCHANGED <<pmt, capmt, cursor, count>> /\ trust' = "no"
    BY <1>5 DEF Connect, ConnectionLost, OSCamCloses, Disable, channelVars
  <2> QED BY <2>1, <1>2
<1>6. ASSUME NEW c \in Channels, ChannelStarts(c) PROVE SendingInv' /\ OSCamHasTheList'
  <2>1. c \notin Sending BY <1>1, <1>6 DEF SendingInv, ChannelStarts
  <2>2. \A d \in Sending : pmt'[d] = pmt[d]
    BY <2>1, <1>6, <1>1 DEF ChannelStarts, DvbApiTypeOK, Sending
  <2>3. /\ UNCHANGED <<capmt, cursor, count, list, working, trust>>
        /\ (trust # "no" => connected')
    BY <1>1, <1>6 DEF ChannelStarts, connectionVars, oscamVars, SendingInv
  <2> QED BY <2>2, <2>3, <1>3
<1>7. ASSUME NEW c \in Channels, SendPMT(c) PROVE SendingInv' /\ OSCamHasTheList'
  <2>1. /\ cursor' = [cursor EXCEPT ![c] = -1] /\ count' = [count EXCEPT ![c] = 0]
        /\ pmt' = [pmt EXCEPT ![c] = "sent"] /\ capmt' = capmt \cup {c}
        /\ connected /\ connected' = connected
        /\ trust' = IF Sending = {} THEN "sending" ELSE "no"
    BY <1>7 DEF SendPMT, connectionVars
  <2>2. /\ cursor'[c] = -1 /\ count'[c] = 0 /\ pmt'[c] = "sent"
        /\ \A d \in Channels : d # c => cursor'[d] = cursor[d] /\ pmt'[d] = pmt[d]
    BY <2>1, <1>1 DEF DvbApiTypeOK
  <2>3. Sending' = Sending \cup {c} BY <2>2 DEF Sending, Idle
  <2>4. \A d \in Sending' : pmt'[d] = "sent" /\ d \in capmt'
    <3> TAKE d \in Sending'
    <3>1. CASE d = c BY <3>1, <2>1, <2>2
    <3>2. CASE d # c
      BY <3>2, <2>1, <2>2, <2>3, <1>1 DEF SendingInv, Sending
    <3> QED BY <3>1, <3>2
  <2>5. ASSUME Sending = {} PROVE Progress(c)'
    <3>1. capmt' \subseteq Nat /\ c \in capmt' BY <1>1, <2>1, DvbApiAssumption DEF DvbApiTypeOK
    <3>2. Sent(c)' = {} /\ c \in Left(c)'
      <4>1. \A k \in capmt' : k \in Int /\ k > -1 /\ ~(k <= -1) BY <3>1
      <4> QED BY <4>1, <3>1, <2>2 DEF Sent, Left
    <3>3. Cardinality(Sent(c)') = 0 BY <3>2, FS_EmptySet
    <3> QED BY <2>2, <2>3, <2>5, <3>2, <3>3 DEF Progress
  <2>6. trust' = "sending" => \E s \in Sending' : Progress(s)' BY <2>1, <2>3, <2>5
  <2>7. trust' # "yes" /\ connected' BY <2>1
  <2> QED BY <2>4, <2>6, <2>7 DEF SendingInv, OSCamHasTheList
<1>8. ASSUME NEW c \in Channels, SendEntry(c) PROVE SendingInv' /\ OSCamHasTheList'
  <2>1. PICK k \in Left(c) :
          /\ c \in Sending /\ \A j \in Left(c) : k <= j
          /\ cursor' = [cursor EXCEPT ![c] = k] /\ count' = [count EXCEPT ![c] = @ + 1]
          /\ \/ /\ link /\ Receives(k, Management(count[c]))
                /\ UNCHANGED <<trouble, trust>>
             \/ /\ Fails
                /\ trust' = "no"
                /\ UNCHANGED oscamVars
          /\ UNCHANGED <<connectionVars, pmt, capmt, unstopped>>
    BY <1>8 DEF SendEntry
  <2>2. Sending' = Sending
    <3>1. capmt \subseteq Nat /\ k \in capmt BY <1>1, SentOrLeft DEF Left
    <3>2. k # Idle BY <3>1 DEF Idle
    <3>3. cursor'[c] = k /\ \A d \in Channels : d # c => cursor'[d] = cursor[d]
      BY <2>1, <1>1 DEF DvbApiTypeOK
    <3> QED BY <2>1, <3>2, <3>3 DEF Sending
  <2>3. /\ \A d \in Sending' : pmt'[d] = "sent" /\ d \in capmt'
        /\ (trust # "no" => connected')
    BY <1>1, <2>1, <2>2 DEF SendingInv, connectionVars
  <2>4. trust # "yes" BY <1>1, <2>1 DEF SendingInv
  <2>5. CASE trust' = "no" BY <2>3, <2>5 DEF SendingInv, OSCamHasTheList
  <2>6. CASE trust = "sending" /\ Receives(k, Management(count[c])) /\ UNCHANGED trust
    <3>1. Progress(c) BY <1>1, <2>1, <2>6 DEF SendingInv, Progress
    <3>2. capmt' = capmt BY <2>1
    <3>3. Progress(c)' BY <1>1, <2>1, <2>6, <3>1, <3>2, NextEntry
    <3> QED BY <2>1, <2>2, <2>3, <2>6, <3>3 DEF SendingInv, OSCamHasTheList
  <2>7. trust' = "no" \/ (trust = "sending" /\ Receives(k, Management(count[c])) /\ UNCHANGED trust)
    BY <2>1, <2>4, <1>1 DEF DvbApiTypeOK
  <2> QED BY <2>5, <2>6, <2>7
<1>9. ASSUME NEW c \in Channels, SendDone(c) PROVE SendingInv' /\ OSCamHasTheList'
  <2>1. /\ c \in Sending /\ Left(c) = {}
        /\ cursor' = [cursor EXCEPT ![c] = Idle] /\ count' = [count EXCEPT ![c] = 0]
        /\ trust' = IF trust = "sending" THEN "yes" ELSE trust
        /\ UNCHANGED <<pmt, capmt, list, working, connected>>
    BY <1>9 DEF SendDone, connectionVars, oscamVars
  <2>2. Sending' = Sending \ {c}
    <3>1. cursor'[c] = Idle /\ \A d \in Channels : d # c => cursor'[d] = cursor[d]
      BY <2>1, <1>1 DEF DvbApiTypeOK
    <3> QED BY <3>1 DEF Sending
  <2>3. /\ \A d \in Sending' : pmt'[d] = "sent" /\ d \in capmt'
        /\ (trust' # "no" => connected')
    BY <1>1, <2>1, <2>2 DEF SendingInv
  <2>4. trust # "yes" /\ trust' # "sending" BY <1>1, <2>1 DEF SendingInv
  <2>5. trust = "sending" => Sending' = {} /\ working = capmt
    BY <1>1, <2>1, <2>2 DEF SendingInv, Progress
  <2> QED BY <2>1, <2>3, <2>4, <2>5 DEF SendingInv, OSCamHasTheList
<1>10. ASSUME NEW c \in Channels, StopDecrypt(c) PROVE SendingInv' /\ OSCamHasTheList'
  <2>1. /\ c \notin Sending /\ pmt' = [pmt EXCEPT ![c] = "none"]
        /\ UNCHANGED <<cursor, count, connected>>
    BY <1>10 DEF StopDecrypt, connectionVars
  <2>2. Sending' = Sending /\ \A d \in Sending : d # c /\ pmt'[d] = pmt[d]
    BY <2>1, <1>1 DEF Sending, DvbApiTypeOK
  <2>3. CASE /\ connected /\ link
             /\ list' = list \ {c} /\ working' = working \ {c}
             /\ capmt' = capmt \ {c} /\ trust' = Disturbed
    <3>1. trust' # "sending" /\ (trust' # "no" => trust = "yes")
      BY <2>3, <1>1 DEF Disturbed, DvbApiTypeOK
    <3>2. \A d \in Sending' : pmt'[d] = "sent" /\ d \in capmt'
      BY <2>2, <2>3, <1>1 DEF SendingInv
    <3> QED BY <3>1, <3>2, <2>1, <2>2, <2>3, <1>1 DEF SendingInv, OSCamHasTheList
  <2>4. CASE UNCHANGED <<capmt, list, working, trust>>
    <3>1. trust # "no" => connected' BY <2>1, <1>1 DEF SendingInv
    <3> QED BY <3>1, <2>1, <2>2, <2>4, <1>3
  <2>5. CASE ~connected /\ capmt' = capmt \ {c} /\ UNCHANGED trust
    <3>1. trust' = "no" BY <2>5, <1>1 DEF SendingInv
    <3>2. \A d \in Sending' : pmt'[d] = "sent" /\ d \in capmt'
      BY <2>2, <2>5, <1>1 DEF SendingInv
    <3> QED BY <3>1, <3>2 DEF SendingInv, OSCamHasTheList
  <2> QED BY <1>10, <2>3, <2>4, <2>5 DEF StopDecrypt, oscamVars
<1> QED
  BY <1>4, <1>5, <1>6, <1>7, <1>8, <1>9, <1>10 DEF DvbApiNext, ClientStep

-----------------------------------------------------------------------------

\* The types and the inductive invariant.
THEOREM DvbApiInvariant == DvbApiSpec => []DvbApiInv
<1>1. DvbApiInv /\ [DvbApiNext]_dvbapiVars => DvbApiInv'
  BY DvbApiTypes, MapStep, SendingStep DEF DvbApiInv
<1> QED BY <1>1, DvbApiInitInv, PTL DEF DvbApiSpec

\* After an undisturbed sendPMT() OSCam works with the channels of _capmtMap.
THEOREM OSCamWorksWithTheList == DvbApiSpec => []OSCamHasTheList
<1>1. DvbApiInv => OSCamHasTheList BY DEF DvbApiInv
<1> QED BY <1>1, DvbApiInvariant, PTL

\* _capmtMap has the channels whose PMT was sent, and those that could not be stopped.
THEOREM CapmtMapIsRight == DvbApiSpec => []MapIsRight
<1>1. DvbApiInv => MapIsRight BY DEF DvbApiInv
<1> QED BY <1>1, DvbApiInvariant, PTL

-----------------------------------------------------------------------------
(* OSCamFilters: the sections that OSCam asks for *)

Filters == [active : BOOLEAN, pass : SUBSET Tables, collecting : BOOLEAN,
            of : AirSections \cup {NoSection}, have : 0..2, missed : BOOLEAN, broken : BOOLEAN]

\* A filter that has just been set, or not at all.
LEMMA FreshFilter ==
  ASSUME NEW pass \in SUBSET Tables
  PROVE  /\ NoFilter \in Filters /\ FilterOK(NoFilter)
         /\ SetFilter(pass) \in Filters /\ FilterOK(SetFilter(pass))
<1> DEFINE g == [NoFilter EXCEPT !.active = TRUE]
           h == [g EXCEPT !.pass = pass]
<1>1. NoFilter \in Filters
  BY DEF NoFilter, Filters
<1>2. NoFilter.have = 0 /\ ~NoFilter.collecting
  BY Zenon DEF NoFilter
<1>3. g \in Filters /\ g.have = 0 /\ ~g.collecting
  BY <1>1, <1>2 DEF Filters
<1> HIDE DEF g
<1>4. h \in Filters /\ h.have = 0 /\ ~h.collecting
  BY <1>3 DEF Filters
<1>5. h = SetFilter(pass)
  BY DEF SetFilter, g
<1> HIDE DEF h
<1>6. FilterOK(NoFilter) /\ FilterOK(h)
  BY <1>2, <1>4 DEF FilterOK
<1> QED BY <1>1, <1>4, <1>5, <1>6, Zenon

\* Whether a section was missed is no concern of the invariant.
LEMMA MissedOK ==
  ASSUME NEW f \in Filters, FilterOK(f), NEW b \in BOOLEAN
  PROVE  [f EXCEPT !.missed = b] \in Filters /\ FilterOK([f EXCEPT !.missed = b])
BY DEF Filters, FilterOK

Packets == [section : AirSections, which : 1..2, names : Tables \cup {"none"}]

\* The packets that may come next: a first one names its table.
LEMMA AirPacketOK ==
  ASSUME OSCamFiltersInv, NEW p \in AirPackets
  PROVE  /\ p \in Packets /\ p.which <= p.section.packets
         /\ p.which = 1 => p.names = p.section.table
<1>1. CASE onAir.sent = onAir.section.packets
  BY <1>1 DEF AirPackets, Packets, AirSections
<1>2. CASE onAir.sent # onAir.section.packets
  <2>1. onAir.section \in AirSections /\ onAir.sent = 1 /\ onAir.section.packets = 2
    BY <1>2 DEF OSCamFiltersInv, OSCamFiltersTypeOK, AirSections, NoSection
  <2> QED BY <1>2, <2>1 DEF AirPackets, Packets
<1> QED BY <1>1, <1>2

\* g is f but for the fields named.
Same(f, g) == g.active = f.active /\ g.pass = f.pass /\ g.missed = f.missed

\* One field of a filter is set: the others stay, one lemma for each field.
LEMMA PutOf == ASSUME NEW f \in Filters, NEW o \in AirSections \cup {NoSection}
  PROVE LET g == [f EXCEPT !.of = o] IN g \in Filters /\ Same(f, g) /\ g.of = o /\ g.have = f.have /\ g.broken = f.broken /\ g.collecting = f.collecting
BY DEF Filters, Same
LEMMA PutHave == ASSUME NEW f \in Filters, NEW o \in 0..2
  PROVE LET g == [f EXCEPT !.have = o] IN g \in Filters /\ Same(f, g) /\ g.of = f.of /\ g.have = o /\ g.broken = f.broken /\ g.collecting = f.collecting
BY DEF Filters, Same
LEMMA PutBroken == ASSUME NEW f \in Filters, NEW o \in BOOLEAN
  PROVE LET g == [f EXCEPT !.broken = o] IN g \in Filters /\ Same(f, g) /\ g.of = f.of /\ g.have = f.have /\ g.broken = o /\ g.collecting = f.collecting
BY DEF Filters, Same
LEMMA PutCollecting == ASSUME NEW f \in Filters, NEW o \in BOOLEAN
  PROVE LET g == [f EXCEPT !.collecting = o] IN g \in Filters /\ Same(f, g) /\ g.of = f.of /\ g.have = f.have /\ g.broken = f.broken /\ g.collecting = o
BY DEF Filters, Same

\* A buffer that is erased is broken off.
LEMMA ErasedIs == 
  ASSUME NEW f \in Filters
  PROVE  Erased(f) \in Filters /\ Erased(f).have = 0 /\ Erased(f).broken
<1> DEFINE g == [f EXCEPT !.of = NoSection]
           h == [g EXCEPT !.have = 0]
           i == [h EXCEPT !.broken = TRUE]
<1>1. Erased(f) = i
  BY DEF Erased
<1>2. g \in Filters
  BY PutOf
<1> HIDE DEF g
<1>3. 0 \in 0..2
  OBVIOUS
<1>4. h \in Filters /\ h.have = 0
  BY <1>2, <1>3, PutHave, Zenon
<1> HIDE DEF h
<1>5. i \in Filters /\ i.have = 0 /\ i.broken
  BY <1>4, PutBroken, Zenon
<1> QED BY <1>1, <1>5, Zenon

\* A filter that was reset is ready for the next section.
LEMMA ResetIs ==
  ASSUME NEW f \in Filters
  PROVE  ResetTableData(f) \in Filters /\ FilterOK(ResetTableData(f))
<1> DEFINE g == [f EXCEPT !.collecting = FALSE]
           h == [g EXCEPT !.of = NoSection]
           i == [h EXCEPT !.have = 0]
<1>1. ResetTableData(f) = i
  BY DEF ResetTableData
<1>2. g \in Filters /\ ~g.collecting
  BY PutCollecting
<1> HIDE DEF g
<1>4. h \in Filters /\ ~h.collecting
  BY <1>2, PutOf
<1> HIDE DEF h
<1>3. 0 \in 0..2
  OBVIOUS
<1>5. i \in Filters /\ i.have = 0 /\ ~i.collecting
  BY <1>3, <1>4, PutHave, Zenon
<1> HIDE DEF i
<1>6. FilterOK(i)
  BY <1>5 DEF FilterOK
<1> QED BY <1>1, <1>5, <1>6, Zenon

\* What a filter that takes a packet has then: the rest of a section, as FilterOK says, or a
\* whole one, that was asked for unless one broke off before.
LEMMA Takes ==
  ASSUME NEW f \in Filters, FilterOK(f), NEW p \in Packets, MatchOrCollecting(f, p),
         p.which = 1 => p.names = p.section.table
  PROVE  LET c == CollectRaw(f, p) IN
         /\ c \in Filters
         /\ ~IsCollectedNow(c) => FilterOK(c)
         /\ IsCollectedNow(c) =>
              /\ FilterOK(ResetTableData(c)) /\ ResetTableData(c) \in Filters
              /\ c.of \in AirSections
              /\ c.of.table \in c.pass \/ c.broken
              /\ c.of.packets = 2 => c.of.table \in WithCRC
<1> DEFINE c == CollectRaw(f, p)
           b == [f EXCEPT !.collecting = TRUE, !.missed = FALSE]
<1>1. b \in Filters /\ b.have = f.have /\ b.of = f.of /\ b.pass = f.pass /\ b.broken = f.broken
      /\ b.collecting /\ b.active = f.active /\ f.active
  BY DEF Filters, MatchOrCollecting
<1>2. /\ p.section \in AirSections /\ p.section.packets \in 1..2
      /\ f.have \in 0..2
  BY DEF Packets, AirSections, Filters
<1>9. c = CASE f.have = 0 /\ p.which = 1 -> [b EXCEPT !.of = p.section, !.have = 1]
            [] f.have = 0 /\ p.which # 1 -> Erased(b)
            [] f.have > 0 /\ f.missed -> Erased(b)
            [] f.have > 0 /\ ~f.missed ->
                 IF f.have + 1 < f.of.packets \/ f.of.table \in WithCRC
                 THEN [b EXCEPT !.have = f.have + 1] ELSE Erased(b)
  BY Zenon DEF CollectRaw
<1> HIDE DEF b, c
<1>10. LET d == [b EXCEPT !.of = p.section, !.have = 1] IN
         /\ d \in Filters /\ d.have = 1 /\ d.of = p.section /\ d.pass = b.pass
         /\ d.broken = b.broken /\ d.collecting /\ d.active
  <2> DEFINE g == [b EXCEPT !.of = p.section]
             d == [g EXCEPT !.have = 1]
  <2>1. g \in Filters /\ Same(b, g) /\ g.of = p.section /\ g.broken = b.broken /\ g.collecting
    BY <1>1, <1>2, PutOf
  <2> HIDE DEF g
  <2>2. 1 \in 0..2
    OBVIOUS
  <2>3. d \in Filters /\ Same(g, d) /\ d.have = 1 /\ d.of = g.of /\ d.broken = g.broken
        /\ d.collecting = g.collecting
    BY <2>1, <2>2, PutHave, Zenon
  <2>4. d = [b EXCEPT !.of = p.section, !.have = 1]
    BY DEF g
  <2> HIDE DEF d
  <2>5. /\ d \in Filters /\ d.have = 1 /\ d.of = p.section /\ d.pass = b.pass
        /\ d.broken = b.broken /\ d.collecting /\ d.active
    BY <1>1, <2>1, <2>3 DEF Same
  <2> QED BY <2>4, <2>5, Zenon
<1>11. Erased(b) \in Filters /\ Erased(b).have = 0 /\ Erased(b).broken
  BY <1>1, ErasedIs
<1>12. ASSUME f.have = 1
       PROVE  LET d == [b EXCEPT !.have = f.have + 1] IN
              d \in Filters /\ d.have = 2 /\ d.of = b.of /\ d.pass = b.pass /\ d.broken = b.broken
  BY <1>1, <1>12 DEF Filters
<1>3. CASE f.have = 0 /\ p.which = 1
  <2>1. c = [b EXCEPT !.of = p.section, !.have = 1]
    BY <1>3, <1>9
  <2>2. ~f.broken => p.section.table \in f.pass
    BY <1>3 DEF FilterOK, MatchOrCollecting
  <2>3. /\ c \in Filters /\ c.have = 1 /\ c.of = p.section /\ c.pass = f.pass /\ c.broken = f.broken
        /\ c.collecting /\ c.active
    BY <1>1, <1>10, <2>1
  <2> QED BY <1>2, ResetIs, <2>2, <2>3 DEF IsCollectedNow, FilterOK, c, Filters
<1>4. ASSUME c = Erased(b)
      PROVE  ~IsCollectedNow(c) /\ FilterOK(c) /\ c \in Filters
  BY <1>4, <1>11 DEF IsCollectedNow, FilterOK
<1>6. CASE f.have > 0 /\ ~f.missed /\ (f.have + 1 < f.of.packets \/ f.of.table \in WithCRC)
  <2>1. c = [b EXCEPT !.have = f.have + 1]
    BY <1>2, <1>6, <1>9
  <2>2. f.have = 1 /\ f.of \in AirSections /\ f.of.packets = 2 /\ f.of.table \in WithCRC
    BY <1>2, <1>6 DEF FilterOK, AirSections
  <2>3. /\ c \in Filters /\ c.have = 2 /\ c.of = f.of /\ c.pass = f.pass /\ c.broken = f.broken
    BY <1>1, <1>12, <2>1, <2>2
  <2> QED BY <1>6, ResetIs, <2>2, <2>3 DEF IsCollectedNow, FilterOK, c
<1>7. CASE ~(f.have = 0 /\ p.which = 1)
            /\ ~(f.have > 0 /\ ~f.missed /\ (f.have + 1 < f.of.packets \/ f.of.table \in WithCRC))
  <2>1. c = Erased(b)
    BY <1>2, <1>7, <1>9 DEF Filters, Packets
  <2> QED BY <1>4, <2>1 DEF c
<1> QED BY <1>3, <1>6, <1>7

\* Whichever filters see it, a packet leaves all of them as FilterOK says.
LEMMA ShowToKeeps ==
  ASSUME OSCamFiltersInv, NEW p \in AirPackets, NEW seen, ShowTo(seen, p)
  PROVE  filters' \in [Slots -> Filters] /\ \A s \in Slots : FilterOK(filters[s])'
<1>1. filters \in [Slots -> Filters] /\ \A s \in Slots : FilterOK(filters[s])
  BY DEF OSCamFiltersInv, OSCamFiltersTypeOK, Filters
<1>2. p \in Packets /\ (p.which = 1 => p.names = p.section.table)
  BY AirPacketOK
<1> DEFINE next(s) ==
      LET f == filters[s]
          took == CollectRaw(f, p)
      IN IF s \notin seen THEN [f EXCEPT !.missed = (@ \/ f.have > 0)]
         ELSE IF ~MatchOrCollecting(f, p) THEN f
         ELSE IF IsCollectedNow(took) THEN ResetTableData(took) ELSE took
<1>3. filters' = [s \in Slots |-> next(s)]
  BY Zenon DEF ShowTo
<1>4. ASSUME NEW s \in Slots
      PROVE  next(s) \in Filters /\ FilterOK(next(s))
  <2> DEFINE f == filters[s]
  <2>1. f \in Filters /\ FilterOK(f)
    BY <1>1, Zenon
  <2>2. CASE s \notin seen
    <3> DEFINE b == f.missed \/ f.have > 0
    <3>1. b \in BOOLEAN
      OBVIOUS
    <3>2. next(s) = [f EXCEPT !.missed = b]
      BY <2>2
    <3> HIDE DEF b, next, f
    <3> QED BY <2>1, <3>1, <3>2, MissedOK, Zenon
  <2>3. CASE s \in seen /\ ~MatchOrCollecting(f, p)
    <3>1. next(s) = f
      BY <2>3, Zenon
    <3> HIDE DEF next, f
    <3> QED BY <2>1, <3>1, Zenon
  <2>4. CASE s \in seen /\ MatchOrCollecting(f, p)
    <3>1. next(s) = IF IsCollectedNow(CollectRaw(f, p)) THEN ResetTableData(CollectRaw(f, p))
                                                        ELSE CollectRaw(f, p)
      BY <2>4, Zenon
    <3> HIDE DEF next, f
    <3> QED BY <1>2, <2>1, <2>4, <3>1, Takes, Zenon
  <2> QED BY <2>2, <2>3, <2>4
<1> HIDE DEF next
<1> QED BY <1>3, <1>4, Zenon

\* The section that a filter passes on is one that the filter asks for, or one broke off in it.
LEMMA FindSends ==
  ASSUME OSCamFiltersInv, NEW p \in AirPackets, Find(p)
  PROVE  /\ filterSent' \in [section : AirSections \cup {NoSection}, asked : BOOLEAN, broken : BOOLEAN]
         /\ FilterDataMatches'
         /\ (filterSent.section.packets = 2 => filterSent.section.table \in WithCRC)'
<1>1. CASE UNCHANGED filterSent
  BY <1>1 DEF OSCamFiltersInv, OSCamFiltersTypeOK, FilterDataMatches
<1>2. ASSUME NEW s \in Slots, MatchOrCollecting(filters[s], p),
             IsCollectedNow(CollectRaw(filters[s], p)),
             LET f == CollectRaw(filters[s], p) IN
               filterSent' = [section |-> f.of, asked |-> f.of.table \in f.pass, broken |-> f.broken]
      PROVE  /\ filterSent' \in [section : AirSections \cup {NoSection}, asked : BOOLEAN, broken : BOOLEAN]
             /\ FilterDataMatches'
             /\ (filterSent.section.packets = 2 => filterSent.section.table \in WithCRC)'
  <2> DEFINE f == CollectRaw(filters[s], p)
  <2>1. filters[s] \in Filters /\ FilterOK(filters[s])
    BY DEF OSCamFiltersInv, OSCamFiltersTypeOK, Filters
  <2>2. p \in Packets /\ (p.which = 1 => p.names = p.section.table)
    BY AirPacketOK
  <2>3. /\ f \in Filters /\ f.of \in AirSections /\ (f.of.table \in f.pass \/ f.broken)
        /\ f.of.packets = 2 => f.of.table \in WithCRC
    BY <1>2, <2>1, <2>2, Takes, Zenon
  <2>4. filterSent' = [section |-> f.of, asked |-> f.of.table \in f.pass, broken |-> f.broken]
    BY <1>2
  <2>5. f.broken \in BOOLEAN
    BY <2>3 DEF Filters
  <2> DEFINE fits == f.of.table \in f.pass
  <2>6. fits \in BOOLEAN /\ (fits \/ f.broken)
    BY <2>3
  <2>7. filterSent' = [section |-> f.of, asked |-> fits, broken |-> f.broken]
    BY <2>4, Zenon
  <2> HIDE DEF f, fits
  <2>8. /\ filterSent' \in [section : AirSections \cup {NoSection}, asked : BOOLEAN, broken : BOOLEAN]
        /\ filterSent'.section = f.of
    BY <2>3, <2>5, <2>6, <2>7
  <2>9. filterSent'.asked = fits /\ filterSent'.broken = f.broken
    BY <2>7, Zenon
  <2>10. FilterDataMatches'
    BY <2>6, <2>9, Zenon DEF FilterDataMatches
  <2> QED BY <2>3, <2>8, <2>10, Zenon
<1> QED BY <1>1, <1>2, Zenon DEF Find

\* The invariant holds at first,
LEMMA OSCamInitInv == OSCamFiltersInit => OSCamFiltersInv
<1> SUFFICES ASSUME OSCamFiltersInit PROVE OSCamFiltersInv
  OBVIOUS
<1>1. {} \in SUBSET Tables
  OBVIOUS
<1>2. NoFilter \in Filters /\ FilterOK(NoFilter)
  BY <1>1, FreshFilter
<1>3. filters \in [Slots -> Filters] /\ \A s \in Slots : FilterOK(filters[s])
  BY <1>2 DEF OSCamFiltersInit
<1> QED BY <1>3, OSCamFiltersAssumption
        DEF OSCamFiltersInit, OSCamFiltersInv, OSCamFiltersTypeOK, FilterDataMatches, Filters,
            NothingSent, NoSection

\* and every step keeps it.
LEMMA OSCamNextInv == OSCamFiltersInv /\ [OSCamFiltersNext]_oscamFilterVars => OSCamFiltersInv'
<1> SUFFICES ASSUME OSCamFiltersInv, [OSCamFiltersNext]_oscamFilterVars PROVE OSCamFiltersInv'
  OBVIOUS
<1>1. filters \in [Slots -> Filters] /\ \A s \in Slots : FilterOK(filters[s])
  BY DEF OSCamFiltersInv, OSCamFiltersTypeOK, Filters
\* The part of the invariant that is about what is broadcast.
<1> DEFINE Air == /\ onAir \in [section : AirSections \cup {NoSection}, sent : 0..2]
                  /\ onAir.sent <= onAir.section.packets
                  /\ onAir.sent = 0 => onAir.section = NoSection
           Said == /\ filterSent \in [section : AirSections \cup {NoSection}, asked : BOOLEAN, broken : BOOLEAN]
                   /\ FilterDataMatches
                   /\ filterSent.section.packets = 2 => filterSent.section.table \in WithCRC
           Filled == filters \in [Slots -> Filters] /\ \A s \in Slots : FilterOK(filters[s])
<1>2. OSCamFiltersInv' <=> Air' /\ Said' /\ Filled' /\ gaps' \in 0..MaxGaps
  BY DEF OSCamFiltersInv, OSCamFiltersTypeOK, Filters
<1>3. Air /\ Said /\ Filled /\ gaps \in 0..MaxGaps
  BY DEF OSCamFiltersInv, OSCamFiltersTypeOK, Filters
<1>4. ASSUME NEW p \in AirPackets, Goes(p)
      PROVE  Air'
  BY <1>4, AirPacketOK DEF Goes, Packets
<1>5. ASSUME UNCHANGED <<onAir, filterSent, gaps>>, Filled'
      PROVE  OSCamFiltersInv'
  BY <1>2, <1>3, <1>5 DEF FilterDataMatches
<1>6. ASSUME NEW s \in Slots, NEW pass \in SUBSET Tables, StartFilter(s, pass)
      PROVE  OSCamFiltersInv'
  <2>1. Filled'
    BY <1>1, <1>6, FreshFilter DEF StartFilter
  <2> QED BY <1>5, <1>6, <2>1 DEF StartFilter
<1>7. NoFilter \in Filters /\ FilterOK(NoFilter)
  BY FreshFilter
<1>8. ASSUME NEW s \in Slots, StopFilter(s)
      PROVE  OSCamFiltersInv'
  <2>1. Filled'
    BY <1>1, <1>7, <1>8 DEF StopFilter
  <2> QED BY <1>5, <1>8, <2>1 DEF StopFilter
<1>9. CASE ClearFilters
  <2>1. Filled'
    BY <1>7, <1>9 DEF ClearFilters
  <2> QED BY <1>5, <1>9, <2>1 DEF ClearFilters
<1>10. ASSUME NEW p \in AirPackets, FilterPacket(p)
       PROVE  OSCamFiltersInv'
  <2>1. Air'
    BY <1>4, <1>10 DEF FilterPacket
  <2>2. Said'
    BY <1>10, FindSends DEF FilterPacket
  <2>3. Filled'
    BY <1>10, ShowToKeeps, Zenon DEF FilterPacket, Find
  <2> QED BY <1>2, <1>3, <1>10, <2>1, <2>2, <2>3 DEF FilterPacket
<1>11. ASSUME NEW p \in AirPackets, GapInStream(p)
       PROVE  OSCamFiltersInv'
  <2>1. Air'
    BY <1>4, <1>11 DEF GapInStream
  <2>2. Filled'
    <3>1. ASSUME NEW s \in Slots, NEW b \in BOOLEAN
          PROVE  [filters[s] EXCEPT !.missed = b] \in Filters
                 /\ FilterOK([filters[s] EXCEPT !.missed = b])
      BY <1>1, MissedOK
    <3>2. filters' = [s \in Slots |-> [filters[s] EXCEPT !.missed =
                                          (filters[s].missed \/ filters[s].have > 0)]]
      BY <1>11 DEF GapInStream
    <3>3. \A s \in Slots : (filters[s].missed \/ filters[s].have > 0) \in BOOLEAN
      OBVIOUS
    <3> QED BY <3>1, <3>2, <3>3, Zenon
  <2>3. gaps' \in 0..MaxGaps
    BY <1>3, <1>11, OSCamFiltersAssumption DEF GapInStream
  <2>4. Said'
    BY <1>3, <1>11 DEF GapInStream, FilterDataMatches
  <2> QED BY <1>2, <2>1, <2>2, <2>3, <2>4
<1>12. CASE UNCHANGED oscamFilterVars
  BY <1>12 DEF oscamFilterVars, OSCamFiltersInv, OSCamFiltersTypeOK, FilterDataMatches
<1> QED BY <1>6, <1>8, <1>9, <1>10, <1>11, <1>12 DEF OSCamFiltersNext

\* OSCam is sent no section that the filter does not ask for, as long as none broke off in the
\* filter: Filter::find() and FilterData with any number of slots, tables and lost packets.
THEOREM FilterDataAlwaysMatches == OSCamFiltersSpec => []FilterDataMatches
<1>1. OSCamFiltersInv => FilterDataMatches
  BY DEF OSCamFiltersInv
<1> QED BY <1>1, OSCamInitInv, OSCamNextInv, PTL DEF OSCamFiltersSpec

-----------------------------------------------------------------------------
(* DvbCa: sessions with the module *)

\* Of some numbers one is the least.
LEMMA LeastIs ==
  ASSUME NEW S \in SUBSET Nat, S # {}
  PROVE  \E x \in S : \A y \in S : x <= y
<1>1. IsWellFoundedOn(OpToRel(<, Nat), Nat)
  BY NatLessThanWellFounded
<1>2. PICK x \in S : \A y \in S : <<y, x>> \notin OpToRel(<, Nat)
  BY <1>1, WFMin
<1>3. ASSUME NEW y \in S PROVE x <= y
  <2>1. x \in Nat /\ y \in Nat OBVIOUS
  <2>2. ~(y < x) BY <1>2, <2>1 DEF OpToRel
  <2> QED BY <2>1, <2>2
<1> QED BY <1>3

\* Sequences of one, of two and of no element, and what is in them.
LEMMA OneOf == ASSUME NEW S, NEW x \in S PROVE <<x>> \in Seq(S)
OBVIOUS
LEMMA TwoOf == ASSUME NEW S, NEW x \in S, NEW y \in S PROVE <<x>> \o <<y>> \in Seq(S)
<1>1. <<x>> \in Seq(S) /\ <<y>> \in Seq(S) BY OneOf
<1> QED BY <1>1
LEMMA NoneOf == ASSUME NEW S PROVE <<>> \in Seq(S)
OBVIOUS
LEMMA FirstOf == ASSUME NEW S, NEW s \in Seq(S), s # <<>> PROVE Head(s) \in S /\ Tail(s) \in Seq(S)
OBVIOUS
LEMMA BothOf == ASSUME NEW S, NEW s \in Seq(S), NEW t \in Seq(S) PROVE s \o t \in Seq(S)
OBVIOUS
LEMMA WiderSeq == ASSUME NEW S, NEW T, S \subseteq T, NEW s \in Seq(S) PROVE s \in Seq(T)
OBVIOUS

\* As many numbers as there are up to n.
LEMMA NumbersTo == ASSUME NEW n \in Nat PROVE Cardinality(1..n) = n
<1>1. 1 \in Int /\ n \in Int OBVIOUS
<1>2. Cardinality(1..n) = IF 1 > n THEN 0 ELSE n - 1 + 1 BY <1>1, FS_Interval
<1> QED BY <1>2

-----------------------------------------------------------------------------
\* What is written are some of the messages.
LEMMA WrittenAre ==
  ASSUME NEW S, NEW out \in Seq(S), toModule \in Seq(S), WriteOut(out)
  PROVE  toModule' \in Seq(S)
<1>1. PICK fails \in SUBSET DOMAIN out :
        toModule' = toModule \o [i \in 1..(Len(out) - Cardinality(fails)) |->
                                    out[IF 1 \in fails THEN i + 1 ELSE i]]
  BY DEF WriteOut
<1> DEFINE n == Len(out) - Cardinality(fails)
           rest == [i \in 1..n |-> out[IF 1 \in fails THEN i + 1 ELSE i]]
<1>2. Len(out) \in Nat /\ DOMAIN out = 1..Len(out) OBVIOUS
<1>3. IsFiniteSet(1..Len(out)) BY <1>2, FS_Interval
<1>4. IsFiniteSet(fails) /\ Cardinality(fails) <= Len(out)
  <2>1. Cardinality(1..Len(out)) = Len(out) BY <1>2, NumbersTo
  <2> QED BY <1>2, <1>3, <2>1, FS_Subset
<1>5. Cardinality(fails) \in Nat /\ (1 \in fails => Cardinality(fails) # 0)
  BY <1>4, FS_CardinalityType, FS_EmptySet
<1>6. n \in Nat BY <1>2, <1>4, <1>5
<1>7. ASSUME NEW i \in 1..n PROVE out[IF 1 \in fails THEN i + 1 ELSE i] \in S
  <2>1. CASE 1 \in fails
    <3>1. i + 1 \in 1..Len(out) BY <2>1, <1>2, <1>5
    <3> QED BY <2>1, <3>1, <1>2
  <2>2. CASE 1 \notin fails
    <3>1. i \in 1..Len(out) BY <1>2, <1>5
    <3> QED BY <2>2, <3>1, <1>2
  <2> QED BY <2>1, <2>2
<1>8. rest \in Seq(S)
  <2> DEFINE r(i) == out[IF 1 \in fails THEN i + 1 ELSE i]
  <2>1. rest = [i \in 1..n |-> r(i)] OBVIOUS
  <2>2. \A i \in 1..n : r(i) \in S BY <1>7
  <2> HIDE DEF n, r
  <2>3. [i \in 1..n |-> r(i)] \in [1..n -> S] BY <2>2
  <2>4. \A f \in [1..n -> S] : f \in Seq(S) BY <1>6
  <2> QED BY <2>1, <2>3, <2>4
<1> HIDE DEF rest
<1>9. toModule' = toModule \o rest BY <1>1 DEF rest
<1> QED BY <1>8, <1>9, BothOf

\* No resource and no content is named as an absent one.
LEMMA NoneIsNoResource ==
  /\ None \notin Resources /\ MaxSessions \in Nat \ {0} /\ SessionNBs \subseteq Nat \ {0}
  /\ "PROFILE_ENQUIRY" \notin Resources
BY DvbCaAssumption DEF None, SessionNBs

\* A session number that is found is of the resource.
LEMMA FoundNumber ==
  ASSUME NEW resource, findSessionNumberForRecource(resource) # 0
  PROVE  /\ findSessionNumberForRecource(resource) \in SessionNBs
         /\ sessions[findSessionNumberForRecource(resource)] = resource
<1> DEFINE found == {n \in SessionNBs : sessions[n] = resource}
<1>1. found \in SUBSET Nat BY NoneIsNoResource
<1>2. found # {} BY DEF findSessionNumberForRecource
<1>3. \E n \in found : \A m \in found : n <= m BY <1>1, <1>2, LeastIs
<1>4. findSessionNumberForRecource(resource) = CHOOSE n \in found : \A m \in found : n <= m
  BY <1>2 DEF findSessionNumberForRecource
<1>5. findSessionNumberForRecource(resource) \in found
  <2> HIDE DEF found
  <2> QED BY <1>3, <1>4, Zenon
<1> QED BY <1>5

\* A message on a session of its resource
LEMMA ApduFits ==
  ASSUME NEW nb \in SessionNBs, NEW content \in DOMAIN ResourceOf, NEW ss, ss[nb] = ResourceOf[content]
  PROVE  APDU(nb, content) \in ForModule(ss)
<1>1. APDU(nb, content) \in OfKind("SESSION_NUMBER", SessionNBs, DOMAIN ResourceOf)
  BY DEF APDU, SPDU, OfKind
<1>2. APDU(nb, content).nb = nb /\ APDU(nb, content).content = content BY DEF APDU, SPDU
<1> QED BY <1>1, <1>2 DEF ForModule

\* Which resource each content of the host's APDUs is for,
LEMMA Contents ==
  /\ DOMAIN ResourceOf = {"PROFILE_ENQUIRY", "PROFILE", "PROFILE_CHANGE", "APPLICATION_INFO_ENQUIRY",
                          "CA_INFO_ENQUIRY", "CA_PMT", "DATE_TIME", "MMI_DISPLAY_REPLY"}
  /\ ResourceOf["PROFILE_ENQUIRY"] = "resource_manager" /\ ResourceOf["PROFILE"] = "resource_manager"
  /\ ResourceOf["PROFILE_CHANGE"] = "resource_manager"
  /\ ResourceOf["APPLICATION_INFO_ENQUIRY"] = "application_manager"
  /\ ResourceOf["CA_INFO_ENQUIRY"] = "ca_manager" /\ ResourceOf["CA_PMT"] = "ca_manager"
  /\ ResourceOf["DATE_TIME"] = "date_time" /\ ResourceOf["MMI_DISPLAY_REPLY"] = "mmi_manager"
BY DEF ResourceOf

\* and which one the module asks on.
LEMMA AskedContents ==
  /\ DOMAIN AskedOn = {"DATE_TIME_ENQUIRY", "PROFILE_ENQUIRY", "PROFILE", "MMI_DISPLAY_CONTROL"}
  /\ AskedOn["PROFILE_ENQUIRY"] = "resource_manager" /\ AskedOn["PROFILE"] = "resource_manager"
  /\ AskedOn["DATE_TIME_ENQUIRY"] = "date_time" /\ AskedOn["MMI_DISPLAY_CONTROL"] = "mmi_manager"
BY DEF AskedOn

\* What was asked for and given stays right when a number that was free is given to a resource.
LEMMA MoreSessions ==
  ASSUME NEW ss, NEW tt, \A n \in SessionNBs : ss[n] # None => tt[n] = ss[n]
  PROVE  ForHost(ss) \subseteq ForHost(tt) /\ ForModule(ss) \subseteq ForModule(tt)
<1>1. \A c \in DOMAIN ResourceOf : ResourceOf[c] # None BY Contents DEF None
<1>2. \A c \in DOMAIN AskedOn : AskedOn[c] # None BY AskedContents DEF None
<1>3. ForHost(ss) \subseteq ForHost(tt) BY <1>2 DEF ForHost, OfKind
<1>4. ForModule(ss) \subseteq ForModule(tt)
  <2>1. \A m \in OfKind("OPEN_SESSION_RESPONSE", SessionNBs, Resources) :
          ss[m.nb] = m.content => tt[m.nb] = m.content
    BY NoneIsNoResource DEF OfKind
  <2>2. \A m \in OfKind("SESSION_NUMBER", SessionNBs, DOMAIN ResourceOf) :
          ss[m.nb] = ResourceOf[m.content] => tt[m.nb] = ResourceOf[m.content]
    BY <1>1 DEF OfKind
  <2> QED BY <2>1, <2>2, Zenon DEF ForModule
<1> QED BY <1>3, <1>4

-----------------------------------------------------------------------------
\* The sessions and the messages, while none was closed
Fitting ==
  /\ sessions \in [SessionNBs -> Resources \cup {None}]
  /\ moduleSessions \in [SessionNBs \cup {MaxSessions + 1} -> Resources \cup {None}]
  /\ \A n \in DOMAIN moduleSessions :
       moduleSessions[n] # None => n \in SessionNBs /\ sessions[n] = moduleSessions[n]
  /\ toHost \in Seq(ForHost(sessions)) /\ toModule \in Seq(ForModule(sessions))

\* The answers of the host fit, and take away no session.
LEMMA HandlesRight ==
  ASSUME Fitting, NEW m \in ForHost(sessions)
  PROVE  /\ Handled(m).sessions \in [SessionNBs -> Resources \cup {None}]
         /\ \A n \in SessionNBs : sessions[n] # None => Handled(m).sessions[n] = sessions[n]
         /\ Handled(m).out \in Seq(ForModule(Handled(m).sessions))
<1>0. sessions \in [SessionNBs -> Resources \cup {None}] BY DEF Fitting
<1>1. CASE m \in OfKind("OPEN_SESSION_REQUEST", {0}, Resources)
  <2>1. m.tag = "OPEN_SESSION_REQUEST" /\ m.content \in Resources BY <1>1 DEF OfKind
  <2>2. Handled(m) = openSessionRequest(m.content) BY <2>1 DEF Handled
  <2> DEFINE resource == m.content
             nb == createSessionFor(resource)
             ss == [n \in SessionNBs |-> IF n = nb THEN resource ELSE sessions[n]]
             enquiry == Enquiry(resource, nb)
             response == SPDU("OPEN_SESSION_RESPONSE", nb, resource)
  <2>3. CASE resource \in {"authentication", "host_controler"}
    <3>1. Handled(m).sessions = sessions /\ Handled(m).out = <<>>
      BY <2>2, <2>3 DEF openSessionRequest, Result
    <3> QED BY <3>1, <1>0, NoneOf
  <2>4. CASE resource \notin {"authentication", "host_controler"}
    <3>1. Handled(m).sessions = ss /\ Handled(m).out = <<response>> \o enquiry
      BY <2>2, <2>4 DEF openSessionRequest, Result
    <3>2. nb = 0 \/ (nb \in SessionNBs /\ sessions[nb] = None) BY FoundNumber DEF createSessionFor
    <3>3. resource \in {"resource_manager", "application_manager", "ca_manager", "date_time", "mmi_manager"}
      BY <2>1, <2>4, DvbCaAssumption
    <3> HIDE DEF nb
    <3>4. ss \in [SessionNBs -> Resources \cup {None}] BY <2>1, <1>0
    <3>5. \A n \in SessionNBs : sessions[n] # None => ss[n] = sessions[n] BY <3>2, NoneIsNoResource
    <3>6. response \in ForModule(ss)
      <4>1. response.tag = "OPEN_SESSION_RESPONSE" /\ response.nb = nb /\ response.content = resource
        BY DEF SPDU
      <4>2. CASE nb = 0
        <5>1. response \in OfKind("OPEN_SESSION_RESPONSE", {0}, Resources) BY <4>2, <2>1 DEF SPDU, OfKind
        <5> QED BY <5>1 DEF ForModule
      <4>3. CASE nb \in SessionNBs
        <5>1. response \in OfKind("OPEN_SESSION_RESPONSE", SessionNBs, Resources) BY <4>3, <2>1 DEF SPDU, OfKind
        <5>2. ss[response.nb] = response.content BY <4>1, <4>3
        <5> HIDE DEF ss, response
        <5> QED BY <5>1, <5>2 DEF ForModule
      <4> QED BY <4>2, <4>3, <3>2
    <3>7. enquiry \in Seq(ForModule(ss))
      <4>1. CASE nb = 0
        <5>1. enquiry = <<>> BY <4>1 DEF Enquiry
        <5> QED BY <5>1, NoneOf
      <4>2. CASE nb # 0
        <5>1. nb \in SessionNBs /\ ss[nb] = resource BY <4>2, <3>2
        <5> HIDE DEF ss, resource
        <5>2. CASE resource = "resource_manager"
          <6>1. enquiry = <<APDU(nb, "PROFILE_ENQUIRY")>> BY <4>2, <5>2 DEF Enquiry
          <6>2. APDU(nb, "PROFILE_ENQUIRY") \in ForModule(ss) BY <5>1, <5>2, Contents, ApduFits
          <6> QED BY <6>1, <6>2, OneOf
        <5>3. CASE resource = "application_manager"
          <6>1. enquiry = <<APDU(nb, "APPLICATION_INFO_ENQUIRY")>> BY <4>2, <5>3 DEF Enquiry
          <6>2. APDU(nb, "APPLICATION_INFO_ENQUIRY") \in ForModule(ss) BY <5>1, <5>3, Contents, ApduFits
          <6> QED BY <6>1, <6>2, OneOf
        <5>4. CASE resource = "ca_manager"
          <6>1. enquiry = <<APDU(nb, "CA_INFO_ENQUIRY")>> BY <4>2, <5>4 DEF Enquiry
          <6>2. APDU(nb, "CA_INFO_ENQUIRY") \in ForModule(ss) BY <5>1, <5>4, Contents, ApduFits
          <6> QED BY <6>1, <6>2, OneOf
        <5>5. CASE resource \in {"date_time", "mmi_manager"}
          <6>1. enquiry = <<>> BY <4>2, <5>5 DEF Enquiry
          <6> QED BY <6>1, NoneOf
        <5> QED BY <3>3, <5>2, <5>3, <5>4, <5>5
      <4> QED BY <4>1, <4>2
    <3> HIDE DEF ss, response, enquiry
    <3>8. <<response>> \o enquiry \in Seq(ForModule(ss)) BY <3>6, <3>7, OneOf, BothOf
    <3> QED BY <3>1, <3>4, <3>5, <3>8
  <2> QED BY <2>3, <2>4
<1>2. CASE /\ m \in OfKind("SESSION_NUMBER", SessionNBs, DOMAIN AskedOn)
           /\ sessions[m.nb] = AskedOn[m.content]
  <2>1. m.tag = "SESSION_NUMBER" /\ m.nb \in SessionNBs /\ m.content \in DOMAIN AskedOn
    BY <1>2 DEF OfKind
  <2>2. Handled(m) = parseAPDUTag(m.nb, m.content) BY <2>1 DEF Handled
  <2>3. /\ Handled(m).sessions = sessions
        /\ Handled(m).out = CASE m.content = "PROFILE" -> <<APDU(m.nb, "PROFILE_CHANGE")>>
                              [] m.content = "PROFILE_ENQUIRY" -> <<APDU(m.nb, "PROFILE")>>
                              [] m.content = "MMI_DISPLAY_CONTROL" -> <<APDU(m.nb, "MMI_DISPLAY_REPLY")>>
                              [] OTHER -> <<>>
    BY <2>2 DEF parseAPDUTag, Result
  <2>4. CASE m.content = "PROFILE"
    <3>1. Handled(m).out = <<APDU(m.nb, "PROFILE_CHANGE")>> BY <2>3, <2>4
    <3>2. sessions[m.nb] = ResourceOf["PROFILE_CHANGE"] BY <1>2, <2>4, Contents, AskedContents
    <3>3. APDU(m.nb, "PROFILE_CHANGE") \in ForModule(sessions) BY <2>1, <3>2, Contents, ApduFits
    <3> QED BY <3>1, <3>3, <2>3, <1>0, OneOf
  <2>5. CASE m.content = "PROFILE_ENQUIRY"
    <3>1. Handled(m).out = <<APDU(m.nb, "PROFILE")>> BY <2>3, <2>5
    <3>2. sessions[m.nb] = ResourceOf["PROFILE"] BY <1>2, <2>5, Contents, AskedContents
    <3>3. APDU(m.nb, "PROFILE") \in ForModule(sessions) BY <2>1, <3>2, Contents, ApduFits
    <3> QED BY <3>1, <3>3, <2>3, <1>0, OneOf
  <2>6. CASE m.content = "MMI_DISPLAY_CONTROL"
    <3>1. Handled(m).out = <<APDU(m.nb, "MMI_DISPLAY_REPLY")>> BY <2>3, <2>6
    <3>2. sessions[m.nb] = ResourceOf["MMI_DISPLAY_REPLY"] BY <1>2, <2>6, Contents, AskedContents
    <3>3. APDU(m.nb, "MMI_DISPLAY_REPLY") \in ForModule(sessions) BY <2>1, <3>2, Contents, ApduFits
    <3> QED BY <3>1, <3>3, <2>3, <1>0, OneOf
  <2>7. CASE m.content \notin {"PROFILE", "PROFILE_ENQUIRY", "MMI_DISPLAY_CONTROL"}
    <3>1. Handled(m).out = <<>> BY <2>3, <2>7
    <3> QED BY <3>1, <2>3, <1>0, NoneOf
  <2> QED BY <2>4, <2>5, <2>6, <2>7
<1>3. \/ m \in OfKind("OPEN_SESSION_REQUEST", {0}, Resources)
      \/ /\ m \in OfKind("SESSION_NUMBER", SessionNBs, DOMAIN AskedOn)
         /\ sessions[m.nb] = AskedOn[m.content]
  BY Zenon DEF ForHost
<1> QED BY <1>1, <1>2, <1>3

\* The host reads a message and answers it.
LEMMA HostRight ==
  ASSUME Fitting, HostReads
  PROVE  Fitting'
<1> DEFINE m == Head(toHost)
           d == Handled(m)
<1>1. toHost \in Seq(ForHost(sessions)) /\ toHost # <<>> /\ toHost' = Tail(toHost)
      /\ sessions' = d.sessions /\ WriteOut(d.out) /\ moduleSessions' = moduleSessions
  BY DEF HostReads, Fitting
<1>2. m \in ForHost(sessions) /\ Tail(toHost) \in Seq(ForHost(sessions)) BY <1>1, FirstOf
<1> HIDE DEF m
<1>3. /\ d.sessions \in [SessionNBs -> Resources \cup {None}]
      /\ \A n \in SessionNBs : sessions[n] # None => d.sessions[n] = sessions[n]
      /\ d.out \in Seq(ForModule(d.sessions))
  BY <1>2, HandlesRight
<1> HIDE DEF d
<1>4. ForHost(sessions) \subseteq ForHost(d.sessions) /\ ForModule(sessions) \subseteq ForModule(d.sessions)
  BY <1>3, MoreSessions
<1>5. toHost' \in Seq(ForHost(d.sessions)) BY <1>1, <1>2, <1>4, WiderSeq
<1>6. toModule \in Seq(ForModule(d.sessions))
  <2>1. toModule \in Seq(ForModule(sessions)) BY DEF Fitting
  <2> QED BY <2>1, <1>4, WiderSeq
<1>7. toModule' \in Seq(ForModule(d.sessions)) BY <1>1, <1>3, <1>6, WrittenAre
<1>8. ForHost(sessions)' = ForHost(d.sessions) /\ ForModule(sessions)' = ForModule(d.sessions)
  BY <1>1 DEF ForHost, ForModule
<1>9. \A n \in DOMAIN moduleSessions' :
        moduleSessions'[n] # None => n \in SessionNBs /\ sessions'[n] = moduleSessions'[n]
  BY <1>1, <1>3 DEF Fitting
<1>10. moduleSessions' \in [SessionNBs \cup {MaxSessions + 1} -> Resources \cup {None}]
  BY <1>1 DEF Fitting
<1>11. sessions' \in [SessionNBs -> Resources \cup {None}] BY <1>1, <1>3
<1> QED BY <1>5, <1>7, <1>8, <1>9, <1>10, <1>11 DEF Fitting

\* The host writes without being asked, what is for the session that it looked for.
LEMMA HostWritesRight ==
  ASSUME Fitting, UNCHANGED <<sessions, moduleSessions, toHost>>,
         NEW out \in Seq(ForModule(sessions)), WriteOut(out)
  PROVE  Fitting'
<1>1. toModule' \in Seq(ForModule(sessions)) BY WrittenAre DEF Fitting
<1>2. ForHost(sessions)' = ForHost(sessions) /\ ForModule(sessions)' = ForModule(sessions)
  BY DEF ForHost, ForModule
<1> QED BY <1>1, <1>2 DEF Fitting

\* Nothing of what the invariant is about changes.
LEMMA SameFits ==
  ASSUME Fitting, UNCHANGED <<sessions, moduleSessions, toHost, toModule>>
  PROVE  Fitting'
BY DEF Fitting, ForHost, ForModule

\* The module writes what fits its sessions, and
LEMMA ModuleWritesRight ==
  ASSUME Fitting, NEW m \in ForHost(sessions), ModuleWrites(m)
  PROVE  Fitting'
<1>1. toHost' = Append(toHost, m) /\ sessions' = sessions /\ moduleSessions' = moduleSessions
      /\ toModule' = toModule
  BY DEF ModuleWrites, hostCaVars
<1>2. toHost \in Seq(ForHost(sessions)) BY DEF Fitting
<1>3. toHost' \in Seq(ForHost(sessions)) BY <1>1, <1>2
<1>4. ForHost(sessions)' = ForHost(sessions) /\ ForModule(sessions)' = ForModule(sessions)
  BY <1>1 DEF ForHost, ForModule
<1> QED BY <1>1, <1>3, <1>4 DEF Fitting

\* asks on one of them, or
LEMMA AsksRight ==
  ASSUME Fitting, NEW nb \in DOMAIN moduleSessions, ModuleAsks(nb)
  PROVE  Fitting'
<1>0. \A content \in DOMAIN AskedOn : moduleSessions[nb] = AskedOn[content] => APDU(nb, content) \in ForHost(sessions)
  <2> SUFFICES ASSUME NEW content \in DOMAIN AskedOn, moduleSessions[nb] = AskedOn[content]
               PROVE  APDU(nb, content) \in ForHost(sessions)
    OBVIOUS
  <2>1. AskedOn[content] # None BY AskedContents DEF None
  <2>2. nb \in SessionNBs /\ sessions[nb] = AskedOn[content] BY <2>1 DEF Fitting
  <2>3. APDU(nb, content) \in OfKind("SESSION_NUMBER", SessionNBs, DOMAIN AskedOn)
    BY <2>2 DEF APDU, SPDU, OfKind
  <2>4. APDU(nb, content).nb = nb /\ APDU(nb, content).content = content BY DEF APDU, SPDU
  <2> QED BY <2>2, <2>3, <2>4 DEF ForHost
<1>1. CASE moduleSessions[nb] = "date_time" /\ ModuleWrites(APDU(nb, "DATE_TIME_ENQUIRY"))
  BY <1>0, <1>1, AskedContents, ModuleWritesRight
<1>2. CASE moduleSessions[nb] = "resource_manager" /\ ModuleWrites(APDU(nb, "PROFILE_ENQUIRY"))
  BY <1>0, <1>2, AskedContents, ModuleWritesRight
<1>3. CASE moduleSessions[nb] = "mmi_manager" /\ ModuleWrites(APDU(nb, "MMI_DISPLAY_CONTROL"))
  BY <1>0, <1>3, AskedContents, ModuleWritesRight
<1> QED BY <1>1, <1>2, <1>3 DEF ModuleAsks

\* reads a message: it knows of a session only then.
LEMMA ModuleReadsRight ==
  ASSUME Fitting, ModuleReads
  PROVE  Fitting'
<1>0. PICK m : m = Head(toModule) OBVIOUS
<1>1. /\ toModule # <<>> /\ toModule \in Seq(ForModule(sessions)) /\ toHost \in Seq(ForHost(sessions))
      /\ toModule' = Tail(toModule) /\ toHost' = toHost \o ReplyOf(m)
      /\ moduleSessions' = CASE m.tag = "OPEN_SESSION_RESPONSE" /\ m.nb # 0 -> [moduleSessions EXCEPT ![m.nb] = m.content]
                    [] m.tag = "CLOSE_SESSION_RESPONSE" -> [moduleSessions EXCEPT ![m.nb] = None]
                    [] OTHER -> moduleSessions
      /\ sessions' = sessions
  BY <1>0 DEF ModuleReads, Fitting, hostCaVars
<1>2. m \in ForModule(sessions) /\ toModule' \in Seq(ForModule(sessions)) BY <1>0, <1>1, FirstOf
<1>3. \/ m \in OfKind("OPEN_SESSION_RESPONSE", {0}, Resources)
      \/ m = APDU(0, "CA_PMT")
      \/ m \in OfKind("OPEN_SESSION_RESPONSE", SessionNBs, Resources) /\ sessions[m.nb] = m.content
      \/ m \in OfKind("SESSION_NUMBER", SessionNBs, DOMAIN ResourceOf) /\ sessions[m.nb] = ResourceOf[m.content]
  BY <1>2, Zenon DEF ForModule
<1>4. ReplyOf(m) \in Seq(ForHost(sessions))
  <2>1. CASE m.content # "PROFILE_ENQUIRY" BY <2>1, NoneOf DEF ReplyOf
  <2>2. CASE m.content = "PROFILE_ENQUIRY"
    <3>1. m \in OfKind("SESSION_NUMBER", SessionNBs, DOMAIN ResourceOf) /\ sessions[m.nb] = ResourceOf[m.content]
      BY <1>3, <2>2, NoneIsNoResource DEF OfKind, APDU, SPDU
    <3>2. m.nb \in SessionNBs /\ sessions[m.nb] = AskedOn["PROFILE"]
      BY <3>1, <2>2, Contents, AskedContents DEF OfKind
    <3>3. APDU(m.nb, "PROFILE") \in OfKind("SESSION_NUMBER", SessionNBs, DOMAIN AskedOn)
      BY <3>2, AskedContents DEF APDU, SPDU, OfKind
    <3>4. APDU(m.nb, "PROFILE").nb = m.nb /\ APDU(m.nb, "PROFILE").content = "PROFILE" BY DEF APDU, SPDU
    <3>5. APDU(m.nb, "PROFILE") \in ForHost(sessions) BY <3>2, <3>3, <3>4 DEF ForHost
    <3> QED BY <2>2, <3>5, OneOf DEF ReplyOf
  <2> QED BY <2>1, <2>2
<1>5. toHost' \in Seq(ForHost(sessions)) BY <1>1, <1>4, BothOf
<1>6. /\ moduleSessions' \in [SessionNBs \cup {MaxSessions + 1} -> Resources \cup {None}]
      /\ \A n \in DOMAIN moduleSessions' :
           moduleSessions'[n] # None => n \in SessionNBs /\ sessions[n] = moduleSessions'[n]
  <2>1. CASE m \in OfKind("OPEN_SESSION_RESPONSE", SessionNBs, Resources) /\ sessions[m.nb] = m.content
    <3>1. m.tag = "OPEN_SESSION_RESPONSE" /\ m.nb \in SessionNBs /\ m.nb # 0 /\ m.content \in Resources
      BY <2>1, NoneIsNoResource DEF OfKind
    <3>2. moduleSessions' = [moduleSessions EXCEPT ![m.nb] = m.content] BY <1>1, <3>1
    <3> QED BY <2>1, <3>1, <3>2 DEF Fitting
  <2>2. CASE ~(m \in OfKind("OPEN_SESSION_RESPONSE", SessionNBs, Resources) /\ sessions[m.nb] = m.content)
    <3>1. m.tag # "CLOSE_SESSION_RESPONSE" /\ ~(m.tag = "OPEN_SESSION_RESPONSE" /\ m.nb # 0)
      BY <1>3, <2>2 DEF OfKind, APDU, SPDU
    <3>2. moduleSessions' = moduleSessions BY <1>1, <3>1
    <3> QED BY <3>2 DEF Fitting
  <2> QED BY <2>1, <2>2
<1>7. ForHost(sessions)' = ForHost(sessions) /\ ForModule(sessions)' = ForModule(sessions)
  BY <1>1 DEF ForHost, ForModule
<1>8. sessions' \in [SessionNBs -> Resources \cup {None}] BY <1>1 DEF Fitting
<1> QED BY <1>1, <1>2, <1>5, <1>6, <1>7, <1>8 DEF Fitting

-----------------------------------------------------------------------------

\* Every step keeps the invariant, which
LEMMA CaStep == SessionsInv /\ [DvbCaNext]_dvbCaVars => SessionsInv'
<1> SUFFICES ASSUME SessionsInv, [DvbCaNext]_dvbCaVars, ~closes' PROVE Fitting'
  BY DEF SessionsInv, Fitting
<1> USE DEF SessionsInv
<1>0. ASSUME ~closes PROVE Fitting BY <1>0 DEF Fitting
<1>1. CASE UNCHANGED dvbCaVars
  BY <1>0, <1>1, SameFits DEF dvbCaVars, hostCaVars
<1>2. CASE HostReads BY <1>0, <1>2, HostRight DEF HostReads
<1>3. CASE ReadFails \/ TimeEndsIt
  BY <1>0, <1>3, SameFits DEF ReadFails, TimeEndsIt
<1>4. CASE AsksAgain
  <2> DEFINE nb == findSessionNumberForRecource("ca_manager")
             out == IF nb > 0 THEN <<APDU(nb, "CA_INFO_ENQUIRY")>> ELSE <<>>
  <2>1. Fitting /\ WriteOut(out) /\ UNCHANGED <<sessions, moduleSessions, toHost>>
    BY <1>0, <1>4 DEF AsksAgain
  <2>2. out \in Seq(ForModule(sessions))
    <3>1. CASE nb > 0
      <4>1. nb \in SessionNBs /\ sessions[nb] = "ca_manager" BY <3>1, FoundNumber
      <4> HIDE DEF nb
      <4>2. APDU(nb, "CA_INFO_ENQUIRY") \in ForModule(sessions) BY <4>1, Contents, ApduFits
      <4> QED BY <3>1, <4>2, OneOf
    <3>2. CASE ~(nb > 0) BY <3>2, NoneOf
    <3> QED BY <3>1, <3>2
  <2> HIDE DEF out
  <2> QED BY <2>1, <2>2, HostWritesRight
<1>5. CASE SendsCAPMT
  <2> DEFINE nb == findSessionNumberForRecource("ca_manager")
             out == <<APDU(nb, "CA_PMT")>>
  <2>1. Fitting /\ WriteOut(out) /\ UNCHANGED <<sessions, moduleSessions, toHost>>
    BY <1>0, <1>5 DEF SendsCAPMT, hostCaVars
  <2>2. APDU(nb, "CA_PMT") \in ForModule(sessions)
    <3>1. CASE nb = 0 BY <3>1 DEF ForModule
    <3>2. CASE nb # 0
      <4>1. nb \in SessionNBs /\ sessions[nb] = "ca_manager" BY <3>2, FoundNumber
      <4> HIDE DEF nb
      <4> QED BY <4>1, Contents, ApduFits
    <3> QED BY <3>1, <3>2
  <2>3. out \in Seq(ForModule(sessions)) BY <2>2, OneOf
  <2> HIDE DEF out
  <2> QED BY <2>1, <2>3, HostWritesRight
<1>6. CASE SendsTime
  <2> DEFINE nb == findSessionNumberForRecource("date_time")
             out == <<APDU(nb, "DATE_TIME")>>
  <2>1. Fitting /\ nb > 0 /\ WriteOut(out) /\ UNCHANGED <<sessions, moduleSessions, toHost>>
    BY <1>0, <1>6 DEF SendsTime, hostCaVars
  <2>2. nb \in SessionNBs /\ sessions[nb] = "date_time" BY <2>1, FoundNumber
  <2>3. APDU(nb, "DATE_TIME") \in ForModule(sessions)
    <3> HIDE DEF nb
    <3> QED BY <2>2, Contents, ApduFits
  <2>4. out \in Seq(ForModule(sessions)) BY <2>3, OneOf
  <2> HIDE DEF out
  <2> QED BY <2>1, <2>4, HostWritesRight
<1>7. ASSUME NEW r \in Resources, Opens(r) PROVE Fitting'
  <2>1. Fitting /\ ModuleWrites(SPDU("OPEN_SESSION_REQUEST", 0, r)) BY <1>0, <1>7 DEF Opens
  <2>2. SPDU("OPEN_SESSION_REQUEST", 0, r) \in ForHost(sessions) BY DEF SPDU, ForHost, OfKind
  <2> QED BY <2>1, <2>2, ModuleWritesRight
<1>8. ASSUME NEW nb \in DOMAIN moduleSessions, Closes(nb) PROVE Fitting'
  BY <1>8 DEF Closes
<1>9. ASSUME NEW nb \in DOMAIN moduleSessions, ModuleAsks(nb) PROVE Fitting'
  BY <1>0, <1>9, AsksRight DEF ModuleAsks
<1>10. CASE ModuleReads BY <1>0, <1>10, ModuleReadsRight DEF ModuleReads
<1> QED BY <1>1, <1>2, <1>3, <1>4, <1>5, <1>6, <1>7, <1>8, <1>9, <1>10 DEF DvbCaNext

\* holds at first, and
LEMMA CaInitially == DvbCaInit => SessionsInv
<1> SUFFICES ASSUME DvbCaInit PROVE SessionsInv
  OBVIOUS
<1>1. toHost \in Seq(ForHost(sessions)) /\ toModule \in Seq(ForModule(sessions)) BY NoneOf DEF DvbCaInit
<1> QED BY <1>1 DEF DvbCaInit, SessionsInv

\* says what the property says.
LEMMA FittingFits == SessionsInv => ApdusFitSessions
<1> SUFFICES ASSUME SessionsInv, ~closes
             PROVE  /\ \A n \in DOMAIN moduleSessions : moduleSessions[n] # None => n \in SessionNBs /\ sessions[n] = moduleSessions[n]
                    /\ \A i \in DOMAIN toModule :
                         toModule[i].tag = "SESSION_NUMBER" /\ toModule[i].nb # 0
                           => sessions[toModule[i].nb] = ResourceOf[toModule[i].content]
  BY DEF ApdusFitSessions
<1>1. toModule \in Seq(ForModule(sessions)) BY DEF SessionsInv
<1>2. ASSUME NEW i \in DOMAIN toModule, toModule[i].tag = "SESSION_NUMBER", toModule[i].nb # 0
      PROVE  sessions[toModule[i].nb] = ResourceOf[toModule[i].content]
  <2>1. toModule[i] \in ForModule(sessions)
    <3> HIDE DEF ForModule
    <3> QED BY <1>1
  <2> QED BY <2>1, <1>2 DEF ForModule, OfKind, APDU, SPDU
<1> QED BY <1>2 DEF SessionsInv

\* DVBCA: for any resources, any number of sessions and any number of messages that are lost or
\* cross, what the host sends on a session is for the resource that the module opened it for,
\* as long as no session was closed.
THEOREM ApdusAlwaysFit == DvbCaSpec => []ApdusFitSessions
BY CaInitially, CaStep, FittingFits, PTL DEF DvbCaSpec
=============================================================================
