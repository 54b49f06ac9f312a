----------------------------- MODULE InputSource ------------------------------
(***************************************************************************)
(* A file, child process or UDP input: which source it reads, named by the *)
(* request or found in the M3U map by the frequency of the request         *)
(* (input::Transformation), and what the RTCP reports and DESCRIBE say of  *)
(* it.  The web interface may switch the transformation on and off and     *)
(* have another M3U file parsed at any time.                               *)
(*                                                                         *)
(* Abstracted: of a request's parameters the frequency (with its src=,     *)
(* which must be that of the map, if it has one) and the source; the PIDs  *)
(* are in module PidFilters, what is read in module TsInput.               *)
(***************************************************************************)
EXTENDS Integers, Sequences, SequencesExt

CONSTANTS
  Names,      \* of files, commands or addresses
  Escaped,    \* those that have %-escapes where they are written
  MapFreqs,   \* frequencies that an M3U file may have
  M3Us,       \* contents of M3U files, sequences of lines
  MaxEdits    \* bound: posts of the transformation's settings

NoName == "None"
NoFreq == 0
PSIFreq == 10111   \* _generatePSIFreq

Junk == "junk"     \* a line that is no URI of a source

\* Lines of an M3U file: an #EXTINF of a frequency, the URI of a source, an empty one.
Info(f) == [freq |-> f, uri |-> Junk]
Uri(n) == [freq |-> NoFreq, uri |-> n]
Blank == [freq |-> NoFreq, uri |-> NoName]
Lines == {Info(f) : f \in MapFreqs} \cup {Uri(n) : n \in Names} \cup {Blank}

ASSUME SourceAssumption ==
  /\ Escaped \subseteq Names /\ Names \cap {NoName, Junk} = {}
  /\ MapFreqs \subseteq Nat \ {NoFreq, PSIFreq}
  /\ M3Us \subseteq Seq(Lines) /\ MaxEdits \in Nat

VARIABLES
  kind,             \* what the device reads: "pipe", "udp", "file"
  transforming,     \* _enabled
  parsed, map,      \* _fileParsed; _transformationMap: a URI for each frequency, or none
  transform, shown, \* _transform; the frequency of _transformedDeviceData
  path, psi,        \* _filePath or _uri; _genPSI
  renewed,          \* _changed
  reading,          \* what is open
  updating,         \* a request was parsed and update() was not called
  edits,
  wanted,           \* history: the source that the last request asked for that asks for any
  askedFreq,        \* history: the frequency by which it did, or none
  everMapped,       \* history: a request of this session was transformed
  refused           \* history: the last open failed

transformVars == <<transforming, parsed, map, edits>>
dataVars == <<transform, shown, path, psi, renewed>>
askedVars == <<wanted, askedFreq, everMapped>>
sourceVars == <<kind, transformVars, dataVars, reading, updating, askedVars, refused>>

\* generatePSIFrom() instead of a source
PSI == "PSI"

\* A request that names a source, or has a frequency, or neither.
Requested == {[freq |-> f, name |-> NoName] : f \in MapFreqs \cup {NoFreq, PSIFreq}}
             \cup {[freq |-> NoFreq, name |-> n] : n \in Names}

SourceTypeOK ==
  /\ kind \in {"pipe", "udp", "file"}
  /\ transforming \in BOOLEAN /\ parsed \in BOOLEAN
  /\ map \in [MapFreqs -> Names \cup {NoName, Junk}]
  /\ transform \in BOOLEAN /\ shown \in MapFreqs \cup {NoFreq, PSIFreq}
  /\ path \in Names \cup {NoName} /\ psi \in BOOLEAN /\ renewed \in BOOLEAN
  /\ reading \in Names \cup {NoName, "closed"} /\ updating \in BOOLEAN
  /\ edits \in 0..MaxEdits
  /\ wanted \in Names \cup {NoName, PSI} /\ askedFreq \in MapFreqs \cup {NoFreq, PSIFreq}
  /\ everMapped \in BOOLEAN /\ refused \in BOOLEAN

-----------------------------------------------------------------------------
(* The M3U file *)

\* M3UParser::parse(), a line: the one behind an #EXTINF is its URI, whatever it is, and a
\* frequency that the map has already is passed over.
ParseLine(m, line) ==
  IF m.pending # NoFreq
  THEN [map |-> [m.map EXCEPT ![m.pending] = line.uri], pending |-> NoFreq]
  ELSE IF line.freq # NoFreq /\ m.map[line.freq] = NoName THEN [m EXCEPT !.pending = line.freq]
  ELSE m

NoMap == [f \in MapFreqs |-> NoName]
MapOf(lines) == FoldLeft(ParseLine, [map |-> NoMap, pending |-> NoFreq], lines).map

SourceInit ==
  /\ kind \in {"pipe", "udp", "file"}
  /\ transforming = FALSE /\ edits = 0
  /\ \E lines \in M3Us : map = MapOf(lines)
  /\ parsed = (map # NoMap)
  /\ transform = FALSE /\ shown = NoFreq
  /\ path = NoName /\ psi = FALSE /\ renewed = FALSE
  /\ reading = "closed" /\ updating = FALSE
  /\ wanted = NoName /\ askedFreq = NoFreq /\ everMapped = FALSE /\ refused = FALSE

\* Transformation::doFromXML(): the file is one that is not there, which leaves the map, or
\* not an M3U file, or one of M3Us.
Edit ==
  /\ edits < MaxEdits /\ edits' = edits + 1
  /\ transforming' \in BOOLEAN
  /\ \/ parsed' = FALSE /\ map' \in {map, NoMap}
     \/ \E lines \in M3Us : map' = MapOf(lines) /\ parsed' = (map' # NoMap)
  /\ UNCHANGED <<kind, dataVars, reading, updating, askedVars, refused>>

-----------------------------------------------------------------------------
(* A request *)

\* transformStreamPossible()
Transformed(r) ==
  transforming /\ parsed /\ (r.freq = PSIFreq \/ (r.freq \in MapFreqs /\ map[r.freq] # NoName))

\* What the device is asked for: a source, the generated PSI, or nothing.
Target(r) ==
  IF ~Transformed(r) THEN r.name
  ELSE IF r.freq # PSIFreq THEN IF map[r.freq] = Junk THEN NoName ELSE map[r.freq]
  ELSE IF kind = "pipe" THEN PSI
  ELSE NoName

\* A child process's command is compared as it was written with what it was decoded to.
SameAsBefore(n) == n = path /\ ~(kind = "pipe" /\ n \in Escaped)

\* Mutant: the device is not told that the source is another one.
ParseStreamString_Silent(target) ==
  IF target = NoName \/ (target # PSI /\ SameAsBefore(target))
  THEN UNCHANGED <<path, psi, renewed>>
  ELSE /\ UNCHANGED renewed
       /\ psi' = (target = PSI)
       /\ path' = IF target = PSI THEN NoName ELSE target

\* doParseStreamString() of the three: initialize(), and the new source.
ParseStreamString(target) ==
  IF target = NoName \/ (target # PSI /\ SameAsBefore(target))
  THEN UNCHANGED <<path, psi, renewed>>
  ELSE /\ renewed' = TRUE
       /\ psi' = (target = PSI)
       /\ path' = IF target = PSI THEN NoName ELSE target

\* parseStreamString(), with Transformation::transformStreamString()
Call(r) ==
  /\ ~updating /\ updating' = TRUE
  /\ transform' = (transform \/ Transformed(r))
  /\ shown' = IF Transformed(r) THEN r.freq ELSE shown
  /\ ParseStreamString(Target(r))
  /\ IF Transformed(r) \/ r.name # NoName
     THEN /\ wanted' = IF Target(r) = NoName THEN wanted ELSE Target(r)
          /\ askedFreq' = IF Transformed(r) THEN r.freq ELSE NoFreq
          /\ everMapped' = (everMapped \/ Transformed(r))
     ELSE UNCHANGED askedVars
  /\ UNCHANGED <<kind, transformVars, reading, refused>>

\* A child process is always forked; a file or an address may not be there, and is not when
\* its name was never decoded.
Open(n) ==
  \/ kind = "pipe" /\ reading' = n /\ refused' = FALSE
  \/ kind # "pipe" /\ n \notin Escaped \cup {NoName} /\ reading' = n /\ refused' = FALSE
  \/ kind # "pipe" /\ reading' = "closed" /\ refused' = TRUE

\* update(): a file is opened only when the data has changed, the others also when nothing
\* is open.
Update ==
  /\ updating /\ updating' = FALSE
  /\ renewed' = FALSE
  /\ IF renewed \/ (kind # "file" /\ reading = "closed")
     THEN Open(path)
     ELSE UNCHANGED <<reading, refused>>
  /\ UNCHANGED <<kind, transformVars, transform, shown, path, psi, askedVars>>

\* Mutant: the transformation of the last session stays.
Release_KeepsTransform ==
  /\ ~updating
  /\ UNCHANGED <<transform, shown>>
  /\ path' = NoName /\ psi' = FALSE /\ renewed' = FALSE
  /\ reading' = "closed" /\ refused' = FALSE
  /\ wanted' = NoName /\ askedFreq' = NoFreq /\ everMapped' = FALSE
  /\ UNCHANGED <<kind, transformVars, updating>>

\* teardown()
Release ==
  /\ ~updating
  /\ transform' = FALSE /\ shown' = NoFreq
  /\ path' = NoName /\ psi' = FALSE /\ renewed' = FALSE
  /\ reading' = "closed" /\ refused' = FALSE
  /\ wanted' = NoName /\ askedFreq' = NoFreq /\ everMapped' = FALSE
  /\ UNCHANGED <<kind, transformVars, updating>>

SourceNext == Edit \/ (\E r \in Requested : Call(r)) \/ Update \/ Release

SourceSpec == SourceInit /\ [][SourceNext]_sourceVars

-----------------------------------------------------------------------------

\* What the streaming thread reads, and attributeDescribeString() of an open device.
Reading == IF psi THEN PSI ELSE reading
ByFreq(f) == [freq |-> f, path |-> NoName]
ByPath == [freq |-> NoFreq, path |-> path]
Described == IF transform /\ transforming /\ parsed THEN ByFreq(shown) ELSE ByPath

\* When a request was handled, the device reads the source that was asked for last, by its
\* name or by a frequency that was in the map at that time; or this could not be opened.
ReadsAsAsked == ~updating /\ wanted # NoName => Reading = wanted \/ refused

\* An open device is described by the frequency that was asked for, while the
\* transformation is switched on, and else by its source.  But once a request of the session
\* was transformed, one that names a source is described by the old frequency.
DescribedAsAsked ==
  ~updating /\ reading # "closed" =>
    \/ Described = IF askedFreq # NoFreq /\ transforming /\ parsed THEN ByFreq(askedFreq) ELSE ByPath
    \/ everMapped /\ askedFreq = NoFreq

\* Transformation and the input devices: what is read, and what it is described by, is what was
\* asked for.
AsAsked == ReadsAsAsked /\ DescribedAsAsked

\* Why: the device has the source that was asked for last, and reads it or was told that it is
\* another one, and update() comes before the next request; a request with a frequency of the map
\* is what switches the transformation on for the session.
SourceAsked == IF psi THEN PSI ELSE path
AskedInv ==
  /\ psi => path = NoName
  /\ IF wanted = NoName THEN path = NoName ELSE wanted = SourceAsked
  /\ ~renewed /\ wanted # NoName => Reading = wanted \/ refused
  /\ ~updating => ~renewed
  /\ transform <=> everMapped
  /\ askedFreq # NoFreq => transform /\ shown = askedFreq
=============================================================================
