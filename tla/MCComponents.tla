----------------------------- MODULE MCComponents -----------------------------
(***************************************************************************)
(* The components beside the streaming core, checked in one run: each      *)
(* behaviour is one of the component that part names, and the others stay  *)
(* in their initial states.  They share no state here; what they share in  *)
(* the program is said in each module.                                     *)
(*                                                                         *)
(* As part never changes, the fairness of an action of one component and   *)
(* that of an action of another can be stated as that of their union:      *)
(* only one of them is ever enabled.                                       *)
(***************************************************************************)
EXTENDS SectionCollector, DvbApiClient, SsdpServer, DeviceIds, ConfigStore, DvbTuner,
        RtspConnection, InputSource, OSCamFilters, ChannelText, DvbCa, PsiTables,
        RtpReports, Replies, Frontends, SettingsXml, Daemon, TLC

VARIABLE part

-----------------------------------------------------------------------------
(* Values of the constants *)

Pk(sec, p, parts, fills, shared) ==
  [sec |-> sec, part |-> p, parts |-> parts, fills |-> fills, shared |-> shared]

\* Two sections, then one, then two; the second version fills its packets, and the third
\* has packets that two sections share.
MCLastSec == (0 :> 1) @@ (1 :> 0) @@ (2 :> 1)
MCLayout ==
     (0 :> <<Pk(0, 1, 2, FALSE, FALSE), Pk(0, 2, 2, FALSE, FALSE), Pk(1, 1, 1, FALSE, FALSE)>>)
  @@ (1 :> <<Pk(0, 1, 2, TRUE, FALSE), Pk(0, 2, 2, TRUE, FALSE)>>)
  @@ (2 :> <<Pk(0, 1, 1, FALSE, FALSE), Pk(1, 1, 2, FALSE, FALSE), Pk(1, 2, 2, FALSE, TRUE)>>)

\* A proper file; one with a frequency twice, and an #EXTINF without URI; and one with an
\* #EXTINF where the URI should be.
MCM3Us == {<<Info(200), Uri("a"), Info(201), Uri("b")>>,
           <<Info(200), Uri("b"), Info(200), Uri("a"), Info(201), Blank>>,
           <<Info(201), Info(200), Uri("a")>>}

\* Texts of DESCRIBE that the code knows, and one that it does not.
MCTexts ==
  [msys |-> {"dvbs", "dvbs2x", "dvbs2", "dvbt", "dvbt2", "dvbc", "?"},
   mtype |-> {"qpsk", "8psk", "256qam", "?"},
   fec |-> DOMAIN FecOf \cup {"?"}, ro |-> DOMAIN RolloffOf \cup {"?"},
   plts |-> DOMAIN PilotOf \cup {"?"}, tmode |-> DOMAIN TransOf \cup {"?"},
   gi |-> DOMAIN GuardOf \cup {"?"}, pol |-> DOMAIN PolOf \cup {"?"},
   sr |-> {27500}, src |-> {0, 2, 256}, isi |-> {5}, plsm |-> {0, 2, 3}, plsc |-> {1, 65536},
   plp |-> {7, -5}, specinv |-> {0, 1}, bw |-> {1712}, t2id |-> {1}, sm |-> {1}]

\* Two transport streams: two programs that share a PCR PID, in a PAT, an SDT and a NIT of
\* more than one section; and a single program.
Ca(tag, len, pid) == [tag |-> tag, length |-> len, ecm |-> pid]
Desc(tag, len) == [tag |-> tag, length |-> len]
MCAirs ==
  [one |->
     [pat |-> <<<<[program |-> 0, pid |-> 16], [program |-> 7, pid |-> 100],
                  [program |-> 8, pid |-> 110]>>, <<[program |-> 9, pid |-> 120]>>>>,
      pmt |-> (100 :> [pcr |-> 101, info |-> <<Ca(9, 4, 500), Ca(9, 0, 0)>>,
                       es |-> <<[info |-> <<Ca(9, 4, 501), Ca(10, 1, 0)>>]>>])
           @@ (110 :> [pcr |-> 101, info |-> <<>>, es |-> <<>>]),
      sdt |-> <<<<[id |-> 7, descriptors |-> <<Desc(72, 9)>>]>>,
                <<[id |-> 8, descriptors |-> <<Desc(95, 4), Desc(72, 9)>>]>>>>,
      nit |-> <<<<[id |-> 1, descriptors |-> <<Desc(67, 11)>>],
                  [id |-> 2, descriptors |-> <<Desc(68, 11)>>]>>>>],
   two |->
     [pat |-> <<<<[program |-> 3, pid |-> 100]>>>>,
      pmt |-> (100 :> [pcr |-> 101, info |-> <<>>, es |-> <<>>]),
      sdt |-> <<<<>>>>, nit |-> <<<<>>>>]]

\* A satellite frontend and one for cable and terrestrial, the latter enumerated by annex and
\* generation; an old driver, and a frontend that cannot be opened.  With the readers they are
\* four each.
Fe(info, enum, type, second) ==
  [name |-> "frontend", info |-> info, enum |-> enum, type |-> type, second |-> second]
Dmx == [Fe(TRUE, <<>>, "none", FALSE) EXCEPT !.name = "demux"]
MCTrees ==
  {<<<<Dmx, Fe(TRUE, <<"dvbs", "dvbs2">>, "qpsk", TRUE)>>,
     <<Fe(TRUE, <<"annexA", "annexC", "dvbt", "dvbt2">>, "ofdm", TRUE)>>>>,
   <<<<Fe(TRUE, <<>>, "qpsk", TRUE), Fe(FALSE, <<>>, "qam", FALSE)>>>>}
Setting(on, as, to) ==
  [enabled |-> on, transforms |-> as # "none", advertise |-> as, maps |-> to]
MCPageSettings ==
  {Setting(TRUE, "none", "none"), Setting(FALSE, "none", "none"),
   Setting(TRUE, "dvbs2", "dvbc"), Setting(TRUE, "dvbs2", "file")}

\* A satellite tuner and a child process; the daemon started with one port of the two; a text
\* that the XML has to escape.
MCInputs == [stream1 |-> "dvbs", stream2 |-> "childpipe"]
MCOptions == {[httpport |-> 8080, rtspport |-> 0]}
MCTextPosts == {<<"b">>, <<"<", ",">>}

\* Options with and without their values, as often wrong as right.
Opt(name) == <<"option", name>>
MCCommandLines ==
  {<<>>, <<Opt("nodaemon"), Opt("nossdp")>>, <<Opt("httpport"), <<"number", 80>>>>,
   <<Opt("rtspport"), <<"number", 554>>, Opt("user")>>,
   <<Opt("user"), Opt("help"), Opt("unsecure")>>, <<Opt("backtrace"), <<"text", "f">>>>,
   <<Opt("version")>>, <<<<"text", "f">>>>}

-----------------------------------------------------------------------------

Parts == {"section", "dvbapi", "ssdp", "ids", "config", "tuner", "rtsp", "source",
          "oscam", "channel", "dvbca", "psi", "reports", "replies", "frontends", "settings",
          "daemon"}

\* The components that are not looked at have one initial state; that of the settings, which is
\* large, is left empty.
MCInit ==
  /\ part \in Parts
  /\ SectionInit /\ DvbApiInit /\ SsdpInit /\ ConfigInit
  /\ DeviceIdsInit /\ (part = "ids" \/ ownID = [s \in Peers |-> s])
  /\ TunerInit /\ (part = "tuner" \/ dish = "lnb")
  /\ SourceInit
  /\ (part = "source" \/ (kind = "pipe" /\ map = MapOf(<<Info(200), Uri("a"), Info(201), Uri("b")>>)))
  /\ ChannelTextInit /\ (part = "channel" \/ api = 1281)
  /\ PsiInit /\ (part = "psi" \/ air = "one")
  /\ RtpReportsInit /\ (part = "reports" \/ protocol = "rtp")
  /\ FrontendsInit /\ (part = "frontends" \/ devices[2].dvbc > 0)
  /\ RtspInit /\ OSCamFiltersInit /\ DvbCaInit /\ RepliesInit /\ DaemonInit
  /\ IF part = "settings" THEN SettingsXmlInit
     ELSE configured = <<>> /\ xmlFile = <<>> /\ options = <<>> /\ intended = <<>> /\ posts = 0 /\ starts = 0

\* A step of the component that the behaviour is about; nothing else changes.
Part(p, A) ==
  /\ part = p /\ UNCHANGED part
  /\ IF p = "section" THEN TRUE ELSE UNCHANGED sectionVars
  /\ IF p = "dvbapi" THEN TRUE ELSE UNCHANGED dvbapiVars
  /\ IF p = "ssdp" THEN TRUE ELSE UNCHANGED ssdpVars
  /\ IF p = "ids" THEN TRUE ELSE UNCHANGED deviceIdsVars
  /\ IF p = "config" THEN TRUE ELSE UNCHANGED configVars
  /\ IF p = "tuner" THEN TRUE ELSE UNCHANGED tunerVars
  /\ IF p = "rtsp" THEN TRUE ELSE UNCHANGED rtspVars
  /\ IF p = "source" THEN TRUE ELSE UNCHANGED sourceVars
  /\ IF p = "oscam" THEN TRUE ELSE UNCHANGED oscamFilterVars
  /\ IF p = "channel" THEN TRUE ELSE UNCHANGED channelTextVars
  /\ IF p = "dvbca" THEN TRUE ELSE UNCHANGED dvbCaVars
  /\ IF p = "psi" THEN TRUE ELSE UNCHANGED psiVars
  /\ IF p = "reports" THEN TRUE ELSE UNCHANGED rtpVars
  /\ IF p = "replies" THEN TRUE ELSE UNCHANGED repliesVars
  /\ IF p = "frontends" THEN TRUE ELSE UNCHANGED frontendsVars
  /\ IF p = "settings" THEN TRUE ELSE UNCHANGED settingsXmlVars
  /\ IF p = "daemon" THEN TRUE ELSE UNCHANGED daemonVars
  /\ A

MCNext ==
  \/ Part("section", SectionNext) \/ Part("dvbapi", DvbApiNext) \/ Part("ssdp", SsdpNext)
  \/ Part("ids", DeviceIdsNext) \/ Part("config", ConfigNext) \/ Part("tuner", TunerNext)
  \/ Part("rtsp", RtspNext) \/ Part("source", SourceNext) \/ Part("oscam", OSCamFiltersNext)
  \/ Part("channel", ChannelTextNext) \/ Part("dvbca", DvbCaNext) \/ Part("psi", PsiNext)
  \/ Part("reports", RtpReportsNext) \/ Part("replies", RepliesNext)
  \/ Part("frontends", FrontendsNext) \/ Part("settings", SettingsXmlNext)
  \/ Part("daemon", DaemonNext)

mcVars == <<part, sectionVars, dvbapiVars, ssdpVars, deviceIdsVars, configVars, tunerVars,
            rtspVars, sourceVars, oscamFilterVars, channelTextVars, dvbCaVars, psiVars,
            rtpVars, repliesVars, frontendsVars, settingsXmlVars, daemonVars>>

\* The fairness of each component's specification, united: that of the components that promise
\* something for the end.
Live == part \in {"section", "dvbapi", "ids", "config", "rtsp"}
Fair(p, A) == part = p /\ UNCHANGED part /\ A
fairVars ==
  CASE part = "section" -> sectionVars [] part = "dvbapi" -> dvbapiVars
    [] part = "ids" -> deviceIdsVars [] part = "config" -> configVars
    [] part = "rtsp" -> rtspVars [] OTHER -> <<>>

OneStep ==
  Live /\ \/ Fair("section", Deliver) \/ Fair("dvbapi", ClientStep) \/ Fair("ids", Hear)
          \/ Fair("config", ConfigStep("http")) \/ Fair("rtsp", WriterStep("reply"))
OtherStep ==
  Live /\ \/ Fair("dvbapi", RetryTime) \/ Fair("config", ConfigStep("ssdp"))
          \/ Fair("rtsp", StreamerStep)
OneChance ==
  Live /\ \/ Fair("dvbapi", Answer /\ client = "poll") \/ Fair("config", TakeLock("http"))
          \/ Fair("rtsp", ServerStep) \/ Fair("ids", AnnounceID(0))
OtherChance == Live /\ (Fair("config", TakeLock("ssdp")) \/ Fair("ids", AnnounceID(1)))
ThirdChance == Live /\ Fair("ids", AnnounceID(2))

MCSpec ==
  /\ MCInit /\ [][MCNext]_mcVars
  /\ WF_fairVars(OneStep) /\ WF_fairVars(OtherStep) /\ WF_fairVars(Live /\ Fair("dvbapi", OSCamStarts))
  /\ SF_fairVars(OneChance) /\ SF_fairVars(OtherChance) /\ SF_fairVars(ThirdChance)

-----------------------------------------------------------------------------

\* PAT: the one that is generated of an M3U map is parsed as the programs of the map.
ASSUME GeneratedPATParses ==
  \A n \in 0..3 : ParsePAT(GeneratedPAT(n)) = {256 + 16 * k : k \in 0..(n - 1)}

\* TableData: a table that is broadcast for ever gets collected again and again, also after
\* lost and damaged packets and a new version, unless it waits for a section that the new
\* version has not, or that shares a packet with another.
TableCollected == []<>(part = "section" => Collected)

\* decrypt::dvbapi::Client: while it is switched on it is again and again connected to OSCam,
\* however often OSCam closed the connection or was not there.
Reconnects == []<>(part = "dvbapi" => InTouch)

\* SatPI and the SSDP server: every call that loads, posts or saves the settings ends, in
\* spite of the two orders in which the locks are taken.
CallsEnd == \A t \in Threads : []<>(part = "config" => ~Busy(t))

\* HttpcSocket: a client whose requests have arrived is answered or disconnected, whatever
\* pieces they came in and however slowly it reads its stream.
RequestsAnswered == []<>(part = "rtsp" => Attended)
=============================================================================
