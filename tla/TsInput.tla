------------------------------- MODULE TsInput --------------------------------
(***************************************************************************)
(* One PacketBuffer between a file, child process or UDP input and the     *)
(* streaming thread: reads of any size go into it, it is synchronised to   *)
(* the transport stream's packets, and filterData() examines the packets   *)
(* that are complete and takes out those of PIDs that nobody wants.        *)
(*                                                                         *)
(* Abstracted: a byte is its place in its packet, 0 being the sync byte;   *)
(* no other byte has that value.  What filterData() does with a packet is  *)
(* in modules PidFilters and SectionCollector.  A full buffer is sent and  *)
(* then used again with what it holds, as the ring of module PacketRing    *)
(* does.                                                                   *)
(*                                                                         *)
(* The indexes are unsigned, and a resync can take more from them than     *)
(* there is: they wrap, and the next reads go in front of the packets, at  *)
(* first into the RTP header and then in front of the object.  The buffer  *)
(* goes on with what comes to lie in it; what the bytes in front of it     *)
(* destroy, and what filterData() makes of packets that it takes there,    *)
(* is not modelled.                                                        *)
(***************************************************************************)
EXTENDS Integers, FiniteSets, FiniteSetsExt, Sequences

CONSTANTS
  TsPackets,  \* NUMBER_OF_TS_PACKETS
  P,          \* TS_PACKET_SIZE
  Word,       \* the numbers of a std::size_t
  MaxCuts     \* bound: times that bytes are lost

ASSUME InputAssumption ==
  /\ TsPackets \in Nat /\ TsPackets >= 4 /\ P \in Nat /\ P >= 2 /\ MaxCuts \in Nat
  /\ Word \in Nat /\ Word > 2 * (TsPackets * P)

VARIABLES
  filtering,     \* isInternalPidFilteringEnabled(), and not all PIDs are wanted
  mem,           \* _buffer behind the RTP header; -1: never written
  write,         \* _writeIndex - RTP_HEADER_LEN
  processed,     \* _processedIndex - RTP_HEADER_LEN
  place,         \* what the next byte of the input is
  cuts,
  examined,      \* history: the packets of the buffer that filterData() has looked at
  excused,       \* history: those that a resync or a purge lets it pass over
  unsynced       \* history: the full buffers out of sync since bytes were last lost

inputVars == <<filtering, mem, write, processed, place, cuts, examined, excused, unsynced>>

Size == TsPackets * P
Full == write = Size
Blocks == 0..TsPackets-1

\* std::size_t: adding to an index that has wrapped may bring it back.
Added(x, n) == IF x + n < Word THEN x + n ELSE x + n - Word
Taken(x, n) == IF n <= x THEN x - n ELSE x - n + Word
Wrapped(x) == x > Size

\* The bytes at i, and one and two packets further, are sync bytes.
SyncAt(m, i) == \A k \in 0..2 : m[i + k * P + 1] = 0
SyncPlaces(m) == {i \in 0..(Size - 2 * P - 1) : SyncAt(m, i)}

InputTypeOK ==
  /\ filtering \in BOOLEAN
  /\ mem \in Seq(-1..P-1) /\ Len(mem) = Size
  /\ write \in 0..Word-1 /\ processed \in 0..Word-1
  /\ place \in 0..P-1 /\ cuts \in 0..MaxCuts
  /\ examined \subseteq Blocks /\ excused \subseteq Blocks /\ unsynced \in Nat

\* An input may begin anywhere in a packet.
InputInit ==
  /\ filtering \in BOOLEAN
  /\ mem = [i \in 1..Size |-> -1]
  /\ write = 0 /\ processed = 0
  /\ place \in 0..P-1 /\ cuts = 0
  /\ examined = {} /\ excused = {} /\ unsynced = 0

\* Every byte is where it belongs: the buffer holds whole packets.
InSync == \A i \in 0..Size-1 : mem[i + 1] = i % P

\* getAmountOfBytesToWrite()
Room == IF Wrapped(write) THEN Size + Word - write ELSE Size - write

\* read() or recvfrom() of n bytes: those that come to lie in the buffer
Filled(n) ==
  LET from == IF Wrapped(write) THEN write - Word ELSE write IN
  [mem |-> [i \in 1..Size |-> IF i \in from+1..from+n THEN (place + i - 1 - from) % P ELSE mem[i]],
   write |-> Added(write, n), processed |-> processed, examined |-> examined,
   excused |-> excused]

Reset(b) == [b EXCEPT !.write = 0, !.processed = 0, !.examined = {}, !.excused = {}]

\* memmove() of all the bytes from i to the begin of the buffer; those behind stay.
Shifted(m, i) == SubSeq(m, i + 1, Size) \o SubSeq(m, Size - i + 1, Size)

\* Mutant: the packets are found and not moved.
TrySyncing_Stays(b) ==
  IF b.write < 3 * P \/ SyncAt(b.mem, 0) THEN b
  ELSE IF SyncPlaces(b.mem) = {} THEN Reset(b)
  ELSE b

\* PacketBuffer::trySyncing(): it looks also behind the write index, where sync bytes of an
\* earlier use may be.  The packets that it moves count as processed.
TrySyncing(b) ==
  IF b.write < 3 * P \/ SyncAt(b.mem, 0) THEN b
  ELSE IF SyncPlaces(b.mem) = {} THEN Reset(b)
  ELSE LET i == Min(SyncPlaces(b.mem))
           at == Taken(b.write, i)
       IN  [mem |-> Shifted(b.mem, i), write |-> at, processed |-> at, examined |-> {},
            excused |-> IF Wrapped(at) THEN {} ELSE 0..(at \div P) - 1]

\* Mutant: the packet that a read has completed is passed over.
UnFiltered_Late(b) == {k \in Blocks : b.processed \div P < k /\ k < b.write \div P}

\* getBeginOfUnFilteredPackets() up to getNumberOfCompletedPackets(), those in the buffer:
\* none when the processed index has wrapped.
UnFiltered(b) == {k \in Blocks : b.processed \div P <= k /\ k < b.write \div P}

\* purge() goes from the last packet to the first, and moves what is behind a marked one.
\* The processed index stays: the next packets up to it will be passed over.
WithoutBlock(b, k) ==
  [b EXCEPT
     !.mem = SubSeq(@, 1, P * k) \o SubSeq(@, P * (k + 1) + 1, b.write)
             \o SubSeq(@, b.write - P + 1, Size),
     !.write = b.write - P,
     !.examined = {x \in Blocks : (x < k /\ x \in @) \/ (x >= k /\ x + 1 \in @)},
     !.excused = {x \in Blocks : (x < k /\ x \in @) \/ (x >= k /\ x + 1 \in @)}]

Purge(b, marked) ==
  LET after[n \in 0..TsPackets] ==   \* the last n blocks
        IF n = 0 THEN b
        ELSE IF TsPackets - n \in marked THEN WithoutBlock(after[n - 1], TsPackets - n)
        ELSE after[n - 1]
      left == after[TsPackets]
  IN  [left EXCEPT !.excused = @ \cup ((left.write \div P)..((left.processed \div P) - 1))]

\* The packets that were completed while the processed index was wrapped are passed over.
Behind(b) ==
  IF Wrapped(b.processed) THEN {k \in Blocks : k < b.write \div P} ELSE b.excused

\* Filter::filterData(): the packets out of sync are taken out, and those of the other PIDs.
FilterData(b, unwanted) ==
  LET new == UnFiltered(b)
      bad == {k \in new : b.mem[P * k + 1] # 0} \cup unwanted
      seen == [b EXCEPT !.processed = b.write, !.examined = b.examined \cup new,
                        !.excused = Behind(b)]
  IN  IF filtering THEN Purge(seen, bad) ELSE seen

\* What the packets of a buffer can turn out to be that are in sync.
Unwanted(b) ==
  IF filtering THEN SUBSET {k \in UnFiltered(b) : b.mem[P * k + 1] = 0} ELSE {{}}

\* readTSPackets(): what trySyncing() returns is ignored.
ReadBytes(n) ==
  /\ ~Full /\ n \in 1..Room
  /\ place' = (place + n) % P
  /\ \E b \in {TrySyncing(Filled(n))} : \E f \in {FilterData(b, u) : u \in Unwanted(b)} :
       /\ mem' = f.mem /\ write' = f.write /\ processed' = f.processed
       /\ examined' = f.examined /\ excused' = f.excused
  /\ UNCHANGED <<filtering, cuts, unsynced>>

\* Bytes of the input are lost, or the input is another one.
Cut ==
  /\ cuts < MaxCuts /\ cuts' = cuts + 1
  /\ place' \in 0..P-1 \ {place} /\ unsynced' = 0
  /\ UNCHANGED <<filtering, mem, write, processed, examined, excused>>

\* The full buffer goes on its way, and a buffer of the ring is reset for the next packets.
NextBuffer ==
  /\ Full
  /\ LET b == Reset(Filled(0)) IN
       /\ write' = b.write /\ processed' = b.processed
       /\ examined' = b.examined /\ excused' = b.excused
  /\ unsynced' = unsynced + (IF InSync THEN 0 ELSE 1)
  /\ UNCHANGED <<filtering, mem, place, cuts>>

ReadSome == \E n \in 1..2*Size : ReadBytes(n)

InputNext == ReadSome \/ Cut \/ NextBuffer

InputSpec == InputInit /\ [][InputNext]_inputVars

-----------------------------------------------------------------------------

\* filterData() has looked at every packet of a full buffer, except those that a resync moved
\* or that were read while the processed index was wrapped after it, and those that came to
\* where purged packets had been: purge() leaves the processed index where it was.
FilterReaches == Full => Blocks \ examined \subseteq excused

\* However the input begins, the full buffers hold whole packets (those from which the filter
\* takes packets apart).  When bytes were lost one of them may be out of sync, and no more,
\* although trySyncing() takes stale bytes for packets and lets the write index wrap.
Resyncs ==
  ~filtering =>
    unsynced + (IF Full /\ ~InSync THEN 1 ELSE 0) <= (IF cuts = 0 THEN 0 ELSE 1)
=============================================================================
