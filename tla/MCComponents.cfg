SPECIFICATION MCSpec
CONSTANTS
  Versions = {0, 1, 2}
  MaxSec = 1
  LastSec <- MCLastSec
  Layout <- MCLayout
  CcMod = 4
  MaxFaults = 2
  MaxClears = 1
  Channels = {0, 1}
  MaxTrouble = 1
  Servers = {"s1", "s2"}
  Peers = {0, 1, 2}
  DeviceMod = 3
  MaxInFlight = 3
  Files = {"f1", "f2"}
  FirstFile = "f1"
  MaxEvents = 1
  MaxChanges = 2
  Freqs = {10847, 11778}
  Inexact = {11778}
  Sources = {2}
  Pols = {"v"}
  Isis = {}
  Mods = {1}
  MaxFails = 1
  HeadLen = 5
  FieldLen = 3
  BodyLen = 1
  Space = 2
  FrameSize = 2
  Names = {"a", "b"}
  Escaped = {"b"}
  MapFreqs = {200, 201}
  M3Us <- MCM3Us
  MaxEdits = 2
  Slots = {1, 2}
  Tables = {"ecm", "emm"}
  WithCRC = {"ecm"}
  MaxGaps = 1
  Texts <- MCTexts
  Apis = {1281, 1292}
  MaxOther = 1
  Resources = {"resource_manager", "ca_manager", "date_time", "authentication"}
  MaxSessions = 2
  MaxOnTheWay = 1
  MaxLost = 1
  Airs <- MCAirs
  PidSets = {{0, 16, 17, 100, 101, 110}}
  Half = 2
  Steps = {2}
  MaxDelta = 4
  Protocols = {"rtp", "rtptcp", "http", "tswriter"}
  DataSizes = {2}
  DescSizes = {33}
  CounterMod = 3
  CseqMod = 3
  MaxPackets = 2
  MaxTime = 1
  NumStreams = 2
  Numbers = {0, 7}
  Asked = {0, 2}
  Transports = {"none", "tcp;unicast", "unicast", "multicast"}
  MaxIDs = 2
  Trees <- MCTrees
  NumChildPipes = 0
  Unsecure = FALSE
  PageSettings <- MCPageSettings
  AskedSystems = {"dvbc"}
  Inputs <- MCInputs
  Options <- MCOptions
  NumberPosts = {2, 3600}
  TextPosts <- MCTextPosts
  MaxPosts = 2
  MaxStarts = 1
  CommandLines <- MCCommandLines
  MaxSignals = 1
  MaxRequests = 2
INVARIANTS FinishedIsWhole OSCamHasTheList BootIdIsFresh SettingsOnDisk
  TunedAsAsked BusIsShared NothingMixed AsAsked
  FilterDataMatches DescriptionTunes ApdusFitSessions TablesAndPace
  ReportFits RepliesRight AdvertisedIsServed SettingsKept NobodyStuck
PROPERTIES TableCollected Reconnects DevicesDiffer CallsEnd RequestsAnswered
CHECK_DEADLOCK FALSE
