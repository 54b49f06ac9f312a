------------------------------ MODULE SettingsXml ------------------------------
(***************************************************************************)
(* The settings as text: how each of them is put into SatPI.xml            *)
(* (doAddToXML of every class, XMLSupport::makeXMLString), how it is       *)
(* searched there (doFromXML, XMLSupport::findXMLElement), when a page     *)
(* posts the file with one setting changed, and when the program is        *)
(* started with it again.                                                  *)
(*                                                                         *)
(* A file is the set of its elements that hold a setting, each by the tags *)
(* around it; what else is in the file has tags that nobody searches for,  *)
(* and is left out.  Who may do this when is module ConfigStore.  The      *)
(* settings of an FBC tuner are left out, of the LNBs of a switch all but  *)
(* the first, and of the command line the two paths, which would replace   *)
(* webPath and appDataPath as the ports replace the ports.                 *)
(***************************************************************************)
EXTENDS Integers, Sequences, FiniteSets, SequencesExt

CONSTANTS
  Inputs,       \* the streams by tag, each "dvbs", "dvbt", "file", "streamer" or "childpipe"
  Options,      \* the command lines it may be started with: [httpport, rtspport |-> 0 for none]
  NumberPosts,  \* numbers and ...
  TextPosts,    \* ... texts, sequences of characters, that the page may post
  MaxPosts, MaxStarts   \* bounds


VARIABLES
  configured,   \* the settings in effect
  xmlFile,      \* SatPI.xml
  options,      \* the command line
  intended,     \* history: what the page set or the command line says, of what is promised
  posts, starts \* history: how often

settingsXmlVars == <<configured, xmlFile, options, intended, posts, starts>>

Streams == DOMAIN Inputs
Satellites == {i \in Streams : Inputs[i] = "dvbs"}
DiseqcTypes == {"switch", "en50494", "en50607", "lnb"}
DiseqcTypeChoices == [Satellites -> DiseqcTypes]

-----------------------------------------------------------------------------
(* doAddToXML(): where each setting is *)

Inside(tag, elements) == {<<tag>> \o e : e \in elements}
Values(tags) == {<<tag, "value">> : tag \in tags}

LnbTags == {"lofSwitch", "lofLow", "lofHigh"}
LnbXml == Inside("lnb1", Values(LnbTags) \cup {<<"lnbtype">>})

DiSEqcTags == {"diseqc_repeat", "delayBeforeWrite", "delayAfterWrite"}
SwitchTags == {"switchType", "numberOfInputs"}
UnicableTags == {"chFreq", "chSlot", "pin"}
DiSEqcXml(type) ==
  Values(DiSEqcTags) \cup LnbXml
    \cup (IF type = "switch" THEN Values(SwitchTags)
          ELSE IF type = "lnb" THEN {} ELSE Values(UnicableTags))

DVBTTags == {"lna"}
DVBSTags == {"turnoffLNBPower", "higherLnbVoltage", "diseqcType"}
DVBSXml(type) == Values(DVBSTags) \cup Inside("diseqc", DiSEqcXml(type))

TransformationTags == {"transformEnable", "transformM3U", "advertiseAsType"}
FilterTags == {"filterPCR", "addUserPids"}

FrontendTags == {"dvrbuffer", "waitOnLockTimeout"}
FrontendXml(input, type) ==
  Values(FrontendTags)
    \cup Inside("deliverySystem0", IF input = "dvbs" THEN DVBSXml(type) ELSE Values(DVBTTags))

DeviceTags == {"internalPidFiltering"}
DeviceDataXml(input) ==
  Inside("filter", Values(FilterTags))
    \cup (IF input \in {"streamer", "childpipe"} THEN Values(DeviceTags) ELSE {})

StreamTags == {"enable", "rtcpSignalUpdate"}
StreamXml(input, type) ==
  Values(StreamTags) \cup Inside("transformation", Values(TransformationTags))
    \cup DeviceDataXml(input)
    \cup (IF input \in {"dvbs", "dvbt"} THEN FrontendXml(input, type) ELSE {})

DecryptTags == {"OSCamEnabled", "RewritePMT", "OSCamIP", "OSCamPORT", "AdapterOffset"}
StreamManagerXml(types) ==
  (UNION {Inside(i, StreamXml(Inputs[i], IF i \in Satellites THEN types[i] ELSE "lnb")) :
            i \in Streams})
    \cup Inside("decrypt", Values(DecryptTags))

PropertiesTags ==
  {"httpport", "rtspport", "xsatipm3u", "xmldesc", "webPath", "appDataPath", "syslog"}
ServerXml == Values({"annouceTime"}) \cup {<<"bootID">>, <<"deviceID">>}

\* All that is in the file with these types of DiSEqC.
SatPIXml(types) ==
  Inside("data", Inside("streams", StreamManagerXml(types))
                   \cup Inside("configdata", Values(PropertiesTags)) \cup Inside("ssdp", ServerXml))

\* Tags that are around settings, and what is searched for but is not there.
OuterTags == {"data", "streams", "configdata", "ssdp", "decrypt", "transformation", "filter",
              "deliverySystem0", "diseqc", "lnb1", "value", "nb"}
\* Tags of the settings.
SettingTags ==
  UNION {LnbTags, {"lnbtype"}, DiSEqcTags, SwitchTags, UnicableTags, DVBTTags, DVBSTags,
         TransformationTags, FilterTags, FrontendTags, DeviceTags, StreamTags, DecryptTags,
         PropertiesTags, {"annouceTime", "bootID", "deviceID"}}

Tag(e) == IF Last(e) = "value" THEN e[Len(e) - 1] ELSE Last(e)
DiseqcTypeOf(i) == <<"data", "streams", i, "deliverySystem0", "diseqcType", "value">>
OfDiseqc(e) == "diseqc" \in Range(e)
OfSwitchLnb(e, types) == e[3] \in Satellites /\ types[e[3]] = "switch" /\ "lnb1" \in Range(e)

Checkboxes == {"enable", "transformEnable", "filterPCR", "internalPidFiltering", "turnoffLNBPower",
               "higherLnbVoltage", "OSCamEnabled", "RewritePMT", "syslog"}
TextInputs ==
  {"transformM3U", "addUserPids", "OSCamIP", "xsatipm3u", "xmldesc", "webPath", "appDataPath"}
PortTags == {"httpport", "rtspport"}
HttpPorts == 1024..65535
RtspPorts == 554..65535
PortRange(tag) == IF tag = "httpport" THEN HttpPorts ELSE RtspPorts

\* The characters that makeXMLString() escapes, of those that can be typed.
Escapable == {"&", "\"", "'", ">", "<", "{", "|", "}", "~"}
\* The characters that make a difference, and two that make none.
Alphabet == Escapable \cup {",", "a", "b"}

\* A stream's tag is "stream" and a number; options that are no port print the usage.
ASSUME SettingsXmlAssumption ==
  /\ Streams \cap (OuterTags \cup SettingTags) = {}
  /\ Range(Inputs) \subseteq {"dvbs", "dvbt", "file", "streamer", "childpipe"}
  /\ \A opts \in Options, tag \in PortTags : opts[tag] \in {0} \cup PortRange(tag)
  /\ NumberPosts \subseteq Nat /\ TextPosts \subseteq Seq(Alphabet)
  /\ MaxPosts \in Nat /\ MaxStarts \in Nat

-----------------------------------------------------------------------------
(* findXMLElement() *)

\* The place in an element of the last tag of want, when each is searched for within what the one
\* before it was found at; behind the element when one of them is not found.
Reached(e, want) ==
  LET foundAt[n \in 0..Len(want)] ==
        IF n = 0 THEN 0
        ELSE LET around == foundAt[n - 1]
             IN Min({k \in DOMAIN e : k > around /\ e[k] = want[n]} \cup {Len(e) + 1})
  IN foundAt[Len(want)]

\* The elements that a search finds.
FindXMLElement(want, elements) ==
  {SubSeq(e, 1, Reached(e, want)) : e \in {x \in elements : Reached(x, want) <= Len(x)}}

\* doFromXML(): each class searches for its own element in what the one before it found, and nobody
\* for "data".  A switch adds the number of the LNB to the address of the string "lnb", and so
\* searches for "nb".
Searches(e, types) ==
  [n \in 1..Len(e) - 1 |-> IF e[n + 1] = "lnb1" /\ OfSwitchLnb(e, types) THEN "nb" ELSE e[n + 1]]

\* The elements that the searches for a setting find in a file.
Found(e, types, elements) == FindXMLElement(Searches(e, types), elements)

\* A function that TLC computes once.
Tabulated(f) == CHOOSE g \in {f} : g = f

\* Nothing of "diseqc" is read into a DiSEqC that is replaced afterwards.
Lookup_DiseqcFirst ==
  Tabulated([old \in DiseqcTypeChoices |-> Tabulated([new \in DiseqcTypeChoices |->
    Tabulated([e \in SatPIXml(new) |-> IF OfDiseqc(e) THEN {} ELSE Found(e, new, SatPIXml(old))])])])

\* What is found for each setting in a file with elements of the old types, when the new types
\* have been made from it: "This after creating _diseqc!".
Lookup ==
  Tabulated([old \in DiseqcTypeChoices |-> Tabulated([new \in DiseqcTypeChoices |->
    Tabulated([e \in SatPIXml(new) |-> Found(e, new, SatPIXml(old))])])])

-----------------------------------------------------------------------------
(* The values *)

\* A text is the sequence of its characters, each with how often it has been escaped.
Typed(characters) == [n \in DOMAIN characters |-> [char |-> characters[n], escaped |-> 0]]

\* makeXMLString(): what could be markup is escaped, and what is escaped begins with "&"; nothing
\* is ever unescaped.
EscapedText(text) ==
  [n \in DOMAIN text |->
     [text[n] EXCEPT !.escaped = @ + IF text[n].char \in Escapable THEN 1 ELSE 0]]

\* addUserPids: without a comma before and after.
Trimmed(text) ==
  LET front == IF text # <<>> /\ Head(text).char = "," THEN Tail(text) ELSE text
  IN IF front # <<>> /\ Last(front).char = "," THEN Front(front) ELSE front

\* doFromXML(): what becomes of a value that was found.
Accepted(e, old, value, opts) ==
  LET tag == Tag(e)
  IN CASE tag \in PortTags ->
            IF value \notin PortRange(tag) THEN old ELSE IF opts[tag] # 0 THEN opts[tag] ELSE value
       [] tag = "dvrbuffer" -> IF value < 30 THEN value ELSE 3
       [] tag = "waitOnLockTimeout" -> IF value < 3500 THEN value ELSE 3500
       [] tag = "numberOfInputs" -> IF value > 0 THEN value ELSE 1
       [] tag \in {"switchType", "advertiseAsType"} ->
            IF value <= (IF tag = "switchType" THEN 2 ELSE 3) THEN value ELSE old
       [] tag = "addUserPids" -> Trimmed(value)
       [] OTHER -> value

\* The constructors; a number is 1 where it makes no difference.
Default(e, opts) ==
  LET tag == Tag(e)
  IN CASE tag = "diseqcType" -> "lnb"
       [] tag \in Checkboxes -> tag \in {"enable", "OSCamEnabled"}
       [] tag \in TextInputs -> Typed(<<"a">>)
       [] tag = "httpport" -> IF opts[tag] = 0 THEN 8875 ELSE opts[tag]
       [] tag = "rtspport" -> IF opts[tag] = 0 THEN 554 ELSE opts[tag]
       [] tag = "dvrbuffer" -> 3
       [] OTHER -> 1

Constructed(opts) == [e \in SatPIXml([i \in Satellites |-> "lnb"]) |-> Default(e, opts)]

TypesIn(s) == [i \in Satellites |-> s[DiseqcTypeOf(i)]]
ToXML(s) == [e \in DOMAIN s |-> IF Tag(e) \in TextInputs THEN EscapedText(s[e]) ELSE s[e]]

\* SatPI::fromXML() of a file in which elements are of oldTypes.  diseqcType makes a new DiSEqC
\* each time, with the values of its constructor.  No search finds two elements.
FromSatPIXml(s, file, oldTypes, opts) ==
  LET types == TypesIn(file)
      place == Lookup[oldTypes][types]
      old(e) == IF e \in DOMAIN s /\ ~OfDiseqc(e) THEN s[e] ELSE Default(e, opts)
  IN [e \in SatPIXml(types) |->
        IF place[e] = {} THEN old(e)
        ELSE Accepted(e, old(e), file[CHOOSE x \in place[e] : TRUE], opts)]

-----------------------------------------------------------------------------

\* Nothing is promised of the LNBs of a switch.
Kept(s) == {e \in DOMAIN s : ~OfSwitchLnb(e, TypesIn(s))}

Set(s) == configured' = s /\ xmlFile' = ToXML(s)

SettingsXmlInit ==
  /\ options \in Options
  /\ configured = Constructed(options)
  /\ xmlFile = ToXML(configured)
  /\ intended = configured
  /\ posts = 0 /\ starts = 0

PostsFor(e) ==
  LET tag == Tag(e)
  IN CASE tag = "diseqcType" -> DiseqcTypes
       [] tag \in Checkboxes -> BOOLEAN
       [] tag \in TextInputs -> {Typed(text) : text \in TextPosts}
       [] tag = "switchType" -> 0..2
       [] tag = "advertiseAsType" -> 0..3
       [] OTHER -> NumberPosts

\* The page shows the settings and posts the whole file with one of them changed.  When that is
\* the type of a DiSEqC, what both types have is kept.
PostXML(e, value) ==
  /\ posts < MaxPosts /\ posts' = posts + 1
  /\ \E s \in {FromSatPIXml(configured,
                       ToXML([configured EXCEPT ![e] = value]), TypesIn(configured), options)} :
       /\ Set(s)
       /\ intended' = [x \in Kept(s) |->
            CASE x = e -> Accepted(e, intended[e], value, options)
              [] x # e /\ x \in DOMAIN intended -> intended[x]
              [] OTHER -> Default(x, options)]
  /\ UNCHANGED <<options, starts>>

\* SatPI::SatPI() with what is in the file, as far as options do not say otherwise.
StartWith(file, opts, kept) ==
  /\ starts < MaxStarts /\ starts' = starts + 1
  /\ options' = opts
  /\ Set(IF file = <<>> THEN Constructed(opts)
         ELSE FromSatPIXml(Constructed(opts), file, TypesIn(file), opts))
  /\ intended' = [x \in DOMAIN kept |->
       IF Tag(x) \in PortTags /\ opts[Tag(x)] # 0 THEN opts[Tag(x)] ELSE kept[x]]
  /\ UNCHANGED posts

\* Stopped, or ended by a post: of a number that is empty std::stoi() throws, on a thread that
\* nobody catches it from, when nothing of that post has been saved.
Restart == \E opts \in Options : StartWith(xmlFile, opts, intended)

\* The power fails after saveXML() has opened the file, which empties it.
CrashInSave == \E opts \in Options : StartWith(<<>>, opts, Constructed(opts))

SettingsXmlNext ==
  \/ \E e \in DOMAIN configured : \E value \in PostsFor(e) : PostXML(e, value)
  \/ Restart
  \/ CrashInSave

SettingsXmlSpec == SettingsXmlInit /\ [][SettingsXmlNext]_settingsXmlVars

-----------------------------------------------------------------------------

SettingsXmlTypeOK ==
  /\ options \in Options
  /\ TypesIn(configured) \in DiseqcTypeChoices
  /\ DOMAIN configured = SatPIXml(TypesIn(configured))
  /\ xmlFile = ToXML(configured)
  /\ DOMAIN intended = Kept(configured)
  /\ posts \in 0..MaxPosts /\ starts \in 0..MaxStarts

\* A value that doFromXML() takes as it is.
Sound(e, value, opts) ==
  LET tag == Tag(e)
  IN /\ tag \in PortTags => value \in PortRange(tag) /\ opts[tag] \in {0, value}
     /\ tag = "dvrbuffer" => value \in 0..29
     /\ tag = "waitOnLockTimeout" => value \in 0..3500
     /\ tag = "numberOfInputs" => value \in Nat \ {0}
     /\ tag = "switchType" => value \in 0..2
     /\ tag = "advertiseAsType" => value \in 0..3
     /\ tag \in TextInputs => value \in Seq([char : Alphabet, escaped : Nat])

Said(text) == [n \in DOMAIN text |-> text[n].char]

\* Each setting is what the page or the command line last said, whatever was posted for others
\* since, and after any number of starts; but for the LNBs of a DiSEqC switch, for how often the
\* characters of a text have been escaped, and for PIDs with more commas at an end than one, of
\* which each save takes another.
SettingsKept ==
  \A e \in DOMAIN intended :
    IF Tag(e) \notin TextInputs THEN configured[e] = intended[e]
    ELSE \/ Tag(e) = "addUserPids" /\ Trimmed(intended[e]) # intended[e]
         \/ Said(configured[e]) = Said(intended[e])

\* Of the LNBs of a switch the settings are those of the constructor.
SettingsXmlInv ==
  /\ SettingsXmlTypeOK
  /\ SettingsKept
  /\ \A e \in DOMAIN configured :
       /\ Sound(e, configured[e], options)
       /\ e \notin DOMAIN intended => configured[e] = Default(e, options)
       /\ e \in DOMAIN intended => Sound(e, intended[e], options)
===============================================================================
