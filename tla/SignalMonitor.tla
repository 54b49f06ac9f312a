----------------------------- MODULE SignalMonitor -----------------------------
(***************************************************************************)
(* The signal of a DVB frontend, from the driver to what a client is told: *)
(* Frontend::monitorSignal() of the device monitor and of DESCRIBE, what   *)
(* tuning and teardown put in its place, and the description that the RTCP *)
(* thread and DESCRIBE make of it, as it is or transformed                 *)
(* (DeviceData, Transformation::transformDeviceData).                      *)
(*                                                                         *)
(* The threads share the frontend's descriptor, _oldApiCallStats and the   *)
(* data.  DeviceData takes its recursive mutex in every method, and in     *)
(* attributeDescribeString() around all of the getters.  One thread        *)
(* describes at a time: that of DESCRIBE, which measures first, or that of *)
(* RTCP, which does not.  Error counts are left out: nobody describes      *)
(* them.                                                                   *)
(***************************************************************************)
EXTENDS Integers, Sequences

CONSTANTS
  Signals,       \* what the frontend may receive, from one moment to the next
  Scales,        \* of the driver's statistics: of {"decibel", "relative", "none"}
  MaxStored      \* bound: times that the data are set

\* level and quality as the old calls give them, power and cnr as the new statistics do.
Word16 == 0..65535
Received == [lock : BOOLEAN, level : Word16, quality : Word16, power : Int, cnr : Int]

ASSUME SignalMonitorAssumption ==
  /\ Signals \subseteq Received
  /\ Scales \subseteq {"decibel", "relative", "none"}
  /\ MaxStored \in Nat

VARIABLES
  scale,                \* how the driver measures
  opened,                 \* _fd_fe
  oldApiCallStats,      \* _oldApiCallStats
  doing, sample,           \* where a thread is, and what it measured
  signalData,           \* _frontendData: lock, level, quality, by which interface
  transforms,         \* _transform of the transformation
  copy,                 \* what a thread read of the data to transform it
  transformed,          \* _transformedDeviceData
  storedData,           \* history: all that the data were set to
  honest                \* history: every description was of what was stored

monitorVars == <<scale, opened, oldApiCallStats, doing, sample, signalData, transforms,
                 copy, transformed, storedData, honest>>

Monitors == {"monitor", "describe"}     \* the device monitor; DESCRIBE, or RTCP
NoSignal == [lock |-> FALSE, level |-> 0, quality |-> 0, stats |-> "none"]

Has(t, where) == doing[t] = where
MovesTo(t, where) == doing' = [doing EXCEPT ![t] = where]
CanStore == Len(storedData) < MaxStored

\* setMonitorData(), under the mutex of the data.
SetMonitorData(d) == signalData' = d /\ storedData' = Append(storedData, d)

keepsData == UNCHANGED <<signalData, storedData>>
keepsSetup == UNCHANGED <<scale, opened, transforms>>
keepsDescribing == UNCHANGED <<copy, transformed, honest>>

-----------------------------------------------------------------------------
(* Frontend::monitorSignal() *)

\* What the two old calls read, each of which may fail, to 0..240 and 0..15.
Strength(x, ok) == IF ok THEN (x.level * 240) \div 65535 ELSE 0
Snr(x, ok) == IF ok THEN (x.quality * 15) \div 65535 ELSE 0

\* Those of FE_GET_PROPERTY, not scaled: a decibel is a number of the driver's times 0.0001, and
\* a negative one wraps around.
Value(kind, relative, decibel) ==
  CASE kind = "relative" -> relative [] kind = "decibel" -> decibel % 65536 [] OTHER -> 0
New(x) == [level |-> Value(scale, x.level, x.power), quality |-> Value(scale, x.quality, x.cnr)]

\* FE_READ_STATUS of an open frontend.  It fails also when another thread has just closed it.
ReadStatus(t, x, ok) ==
  /\ Has(t, "idle") /\ CanStore
  /\ IF ok /\ opened
     THEN /\ MovesTo(t, IF oldApiCallStats THEN "old" ELSE "new")
          /\ sample' = [sample EXCEPT ![t] = [NoSignal EXCEPT !.lock = x.lock]]
     ELSE /\ t = "describe" /\ MovesTo(t, "data")
          /\ UNCHANGED sample
  /\ UNCHANGED oldApiCallStats /\ keepsData /\ keepsSetup /\ keepsDescribing

\* As it would be if the fallback took effect at the next measurement.
NewStats_FallsBackLater(t, x, missing) ==
  /\ Has(t, "new")
  /\ oldApiCallStats' = (oldApiCallStats \/ scale = "none" \/ missing)
  /\ sample' = [sample EXCEPT ![t] = [@ EXCEPT !.level = New(x).level, !.stats = "new",
                                               !.quality = IF missing THEN 0 ELSE New(x).quality]]
  /\ MovesTo(t, "set")
  /\ keepsData /\ keepsSetup /\ keepsDescribing

\* The new statistics, by one ioctl.  One that is missing, as all are when FE_GET_PROPERTY fails,
\* switches to the old calls for good, and this measurement too.
NewStats(t, x, missing) ==
  /\ Has(t, "new") /\ (~opened => missing)
  /\ oldApiCallStats' = (oldApiCallStats \/ scale = "none" \/ missing)
  /\ sample' = [sample EXCEPT ![t] = [@ EXCEPT !.level = New(x).level, !.stats = "new",
                                               !.quality = IF missing THEN 0 ELSE New(x).quality]]
  /\ MovesTo(t, IF oldApiCallStats' THEN "old" ELSE "set")
  /\ keepsData /\ keepsSetup /\ keepsDescribing

\* The old calls, an ioctl each: in between the signal may change, and another thread close the
\* frontend or open it for another channel.
ReadSignalStrength(t, x, ok) ==
  /\ Has(t, "old") /\ MovesTo(t, "snr") /\ (ok => opened)
  /\ sample' = [sample EXCEPT ![t] = [@ EXCEPT !.level = Strength(x, ok), !.stats = "old"]]
  /\ UNCHANGED oldApiCallStats /\ keepsData /\ keepsSetup /\ keepsDescribing

ReadSnr(t, x, ok) ==
  /\ Has(t, "snr") /\ MovesTo(t, "set") /\ (ok => opened)
  /\ sample' = [sample EXCEPT ![t] = [@ EXCEPT !.quality = Snr(x, ok)]]
  /\ UNCHANGED oldApiCallStats /\ keepsData /\ keepsSetup /\ keepsDescribing

StoreSample(t) ==
  /\ Has(t, "set") /\ CanStore
  /\ SetMonitorData(sample[t])
  /\ sample' = [sample EXCEPT ![t] = NoSignal]
  /\ MovesTo(t, IF t = "describe" THEN "data" ELSE "idle")
  /\ UNCHANGED oldApiCallStats /\ keepsSetup /\ keepsDescribing

MonitorSignal(t) ==
  \/ StoreSample(t)
  \/ \E x \in Signals, ok \in BOOLEAN :
       \/ ReadStatus(t, x, ok) \/ NewStats(t, x, ~ok)
       \/ ReadSignalStrength(t, x, ok) \/ ReadSnr(t, x, ok)

-----------------------------------------------------------------------------
(* attributeDescribeString() *)

\* A signal is made up for a reader that has none.
Simulated(d) == IF d.level = 0 /\ d.quality = 0 THEN [d EXCEPT !.level = 240, !.quality = 15] ELSE d

\* All of d was stored at once.
StoredAtOnce(d) == d = NoSignal \/ \E i \in 1..Len(storedData) : storedData[i] = d

StoredAs(n) == IF n = 0 THEN NoSignal ELSE storedData[n]

\* d was put together from what was stored then and later, in the order in which it was read,
\* or partly made up.
InOrder(d) ==
  \E i, j, k \in 0..Len(storedData) :
    /\ i <= j /\ j <= k
    /\ d.lock = StoredAs(i).lock
    /\ \/ d.level = StoredAs(j).level /\ d.quality = StoredAs(k).quality
       \/ d.level = 240 /\ d.quality = 15

\* transformDeviceData() reads the data value by value, each under their mutex; RTCP's does so
\* without measuring first.
CopyLock ==
  /\ Has("describe", "idle") \/ Has("describe", "data")
  /\ MovesTo("describe", "level")
  /\ copy' = [copy EXCEPT !.lock = signalData.lock] /\ UNCHANGED transformed
CopyLevel ==
  /\ Has("describe", "level") /\ MovesTo("describe", "quality")
  /\ copy' = [copy EXCEPT !.level = signalData.level] /\ UNCHANGED transformed
CopyQuality ==
  /\ Has("describe", "quality") /\ MovesTo("describe", "store")
  /\ copy' = [copy EXCEPT !.quality = signalData.quality] /\ UNCHANGED transformed

\* ... and gives back which of the two to describe.  What it keeps of data that are not described
\* is overwritten before the next description.
TransformDeviceData ==
  /\ Has("describe", "store") /\ MovesTo("describe", IF transforms THEN "transformed" ELSE "plain")
  /\ transformed' = IF transforms THEN Simulated(copy) ELSE NoSignal
  /\ copy' = NoSignal

ReadData ==
  /\ CopyLock \/ CopyLevel \/ CopyQuality \/ TransformDeviceData
  /\ UNCHANGED <<sample, oldApiCallStats, honest>> /\ keepsData /\ keepsSetup

\* doAttributeDescribeString(): under the mutex, so that nothing is stored meanwhile.
Describe ==
  /\ \/ Has("describe", "plain") /\ honest' = (honest /\ StoredAtOnce(signalData))
     \/ Has("describe", "transformed") /\ honest' = (honest /\ InOrder(transformed))
  /\ MovesTo("describe", "idle") /\ transformed' = NoSignal
  /\ UNCHANGED <<sample, oldApiCallStats, copy>> /\ keepsData /\ keepsSetup

-----------------------------------------------------------------------------
(* The request thread *)

keepsThreads == UNCHANGED <<doing, sample, oldApiCallStats, copy, honest>>

\* A new frequency resets the data, when the request is parsed; then the frontend is closed,
\* opened and tuned.
ParseFrequency(maps) ==
  /\ CanStore /\ SetMonitorData(NoSignal)
  /\ transforms' = (transforms \/ maps)
  /\ UNCHANGED <<scale, opened, transformed>> /\ keepsThreads

CloseFE ==
  /\ opened /\ opened' = FALSE
  /\ UNCHANGED <<scale, transforms, transformed>> /\ keepsData /\ keepsThreads

\* Tuning opens it and waits for the lock, for which it stores a signal of its own.
Locked == [lock |-> TRUE, level |-> 100, quality |-> 8, stats |-> "tuned"]
SetupAndTune(locked) ==
  /\ ~opened /\ opened' = TRUE /\ CanStore
  /\ IF locked THEN SetMonitorData(Locked) ELSE keepsData
  /\ UNCHANGED <<scale, transforms, transformed>> /\ keepsThreads

TeardownFrontend ==
  /\ CanStore
  /\ opened' = FALSE /\ transforms' = FALSE
  /\ SetMonitorData(NoSignal) /\ transformed' = NoSignal
  /\ UNCHANGED scale /\ keepsThreads

RequestThread ==
  \/ \E b \in BOOLEAN : ParseFrequency(b) \/ SetupAndTune(b)
  \/ CloseFE \/ TeardownFrontend

SignalMonitorInit ==
  /\ scale \in Scales
  /\ opened = FALSE /\ oldApiCallStats = FALSE
  /\ doing = [t \in Monitors |-> "idle"] /\ sample = [t \in Monitors |-> NoSignal]
  /\ signalData = NoSignal /\ storedData = <<>>
  /\ transforms = FALSE /\ copy = NoSignal /\ transformed = NoSignal
  /\ honest = TRUE

SignalMonitorNext ==
  \/ \E t \in Monitors : MonitorSignal(t)
  \/ ReadData \/ Describe
  \/ RequestThread

SignalMonitorSpec == SignalMonitorInit /\ [][SignalMonitorNext]_monitorVars

-----------------------------------------------------------------------------

Samples == [lock : BOOLEAN, level : Int, quality : Int, stats : {"none", "new", "old", "tuned"}]
SignalMonitorTypeOK ==
  /\ scale \in Scales
  /\ opened \in BOOLEAN /\ oldApiCallStats \in BOOLEAN /\ transforms \in BOOLEAN /\ honest \in BOOLEAN
  /\ doing \in [Monitors -> {"idle", "new", "old", "snr", "set", "data", "level",
                          "quality", "store", "plain", "transformed"}]
  /\ sample \in [Monitors -> Samples]
  /\ signalData \in Samples /\ copy \in Samples /\ transformed \in Samples
  /\ storedData \in Seq(Samples) /\ Len(storedData) <= MaxStored

LevelIsOld(d) == d.stats = "old" /\ \E x \in Signals, ok \in BOOLEAN : d.level = Strength(x, ok)

\* Level and quality of d come from one interface of the driver: from the one ioctl of the new
\* statistics, or each from its own old call, perhaps of a signal that had changed in between.
OfOneInterface(d) ==
  /\ d.stats = "new" =>
       \E x \in Signals : d.level = New(x).level /\ d.quality = New(x).quality
  /\ d.stats = "old" => LevelIsOld(d) /\ \E x \in Signals, ok \in BOOLEAN : d.quality = Snr(x, ok)

\* What a client is told of the signal is what was stored: all of it at once when the stream is
\* not transformed, and in the order in which it was stored when it is.  And nothing that is
\* stored takes its level from one interface of the driver and its quality from the other, also
\* when two threads measure while one finds that the driver lacks a statistic, and the frontend
\* is closed and opened between their calls.  (Of one moment it is by the new statistics only,
\* and of the channel that is tuned it need not be: Frontend::monitorSignal(), DeviceData.)
SignalIsMeasured == honest /\ \A i \in 1..Len(storedData) : OfOneInterface(storedData[i])

\* Why: a thread stores what it has measured at once, and what it has of the data to transform
\* it was stored in that order.
SignalInv ==
  /\ SignalMonitorTypeOK /\ SignalIsMeasured
  /\ signalData = StoredAs(Len(storedData))
  /\ \A t \in Monitors :
       /\ Has(t, "set") => OfOneInterface(sample[t])
       /\ Has(t, "snr") => LevelIsOld(sample[t])
  /\ copy.stats = "none"
  /\ \E i, j, k \in 0..Len(storedData) :
       /\ i <= j /\ j <= k
       /\ Has("describe", "level") \/ Has("describe", "quality") \/ Has("describe", "store")
            => copy.lock = StoredAs(i).lock
       /\ Has("describe", "quality") \/ Has("describe", "store") => copy.level = StoredAs(j).level
       /\ Has("describe", "store") => copy.quality = StoredAs(k).quality
  /\ Has("describe", "transformed") => InOrder(transformed)
===============================================================================
