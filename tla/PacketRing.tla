----------------------------- MODULE PacketRing -----------------------------
(***************************************************************************)
(* The way of the packets through one streaming thread: output::           *)
(* StreamThreadBase reads them into a ring of buffers and sends them from  *)
(* it; decrypt::dvbapi::Client collects the scrambled ones, which stay in  *)
(* the ring, in a batch that is decrypted when it is full or when the key  *)
(* changes; a buffer is not sent before its packets are decrypted.         *)
(*                                                                         *)
(* Three threads work on them.  The streaming thread reads, decrypts and   *)
(* sends.  The DVBAPI client connects to OSCam, loses it, and sets keys at *)
(* any time.  A server thread pauses the stream, which ends decryption,    *)
(* and restarts it.                                                        *)
(*                                                                         *)
(* Abstracted: the payload, PIDs, and buffers that are read in parts, for  *)
(* only a full one is decrypted and sent.                                  *)
(***************************************************************************)
EXTENDS Integers, Sequences

CONSTANTS
  N,           \* buffers in the ring, MAX_BUF; 100 in the code
  K,           \* packets in a buffer, NUMBER_OF_TS_PACKETS; 7 in the code
  B,           \* packets in a batch, dvbcsa_bs_batch_size()
  Contents,    \* what a buffer may hold when it is read: the flags of its packets
  MaxRead,     \* bound: buffers read
  MaxRestarts  \* bound: restarts of the stream

ASSUME RingAssumption ==
  /\ N \in Nat /\ N > 1 /\ K \in Nat \ {0} /\ B \in Nat \ {0}
  /\ MaxRead \in Nat /\ MaxRestarts \in Nat
ASSUME ContentsAssumption == Contents \subseteq [1..K -> {"clear", "even", "odd"}]

VARIABLES
  w, r,        \* _writeIndex, _readIndex
  ring,        \* _tsBuffer
  pc,          \* where the streaming thread is
  cell,        \* the packet that decrypt() comes to
  newParity,   \* its parity, none between two packets
  batch,       \* ClientProperties::_batch with _ts and _batchCount
  parity,      \* ClientProperties::_parity
  keys,        \* the parities that Keys has a key for
  keyFreed,    \* the key that decryptBatch works with is gone
  connected,   \* Client::_connected, and enabled
  restarts,
  \* history
  read,        \* buffers read
  sent,        \* of these, sent
  lapped,      \* overwritten because the ring was full
  dropped,     \* given up by a restart
  unstopped    \* a session ended without stopping its decryption

ringVars == <<w, r, ring>>
decryptVars == <<batch, parity>>
oscamVars == <<keys, keyFreed, connected>>
historyVars == <<read, sent, lapped, dropped, unstopped>>
vars == <<ringVars, pc, cell, newParity, decryptVars, oscamVars, restarts, historyVars>>

Slots == 0..N-1
Cells == 1..K
Parities == {"even", "odd"}

\* The scramble flags even and odd; batched: one of them, and put in a batch.  The others
\* have no flag: never had one, decrypted, null for want of a key, garbled by a freed key,
\* or damaged by an entry of the batch for another packet.
Packet == {"clear", "even", "odd", "batched", "decrypted", "null", "garbled", "damaged"}
Scrambled == {"even", "odd", "batched"}

\* no: how many buffers were read before this one, and it; full: it has all its packets;
\* pending: _decryptPending.
Buffer == [no : Nat, full : BOOLEAN, pending : BOOLEAN, packets : [Cells -> Packet]]

\* PacketBuffer::reset.  What is left in it is not read again.
Empty == [no |-> 0, full |-> FALSE, pending |-> FALSE, packets |-> [c \in Cells |-> "clear"]]

\* An entry of the batch points at a packet; no is that of its buffer at the time.
Entry == [slot : Slots, cell : Cells, no : Nat]

TypeOK ==
  /\ w \in Slots /\ r \in Slots
  /\ ring \in [Slots -> Buffer]
  /\ pc \in {"loop", "packet", "batch", "add", "advance", "send", "paused", "stopped"}
  /\ cell \in Cells /\ newParity \in Parities \cup {"none"}
  /\ batch \in Seq(Entry) /\ parity \in Parities
  /\ keys \subseteq Parities /\ keyFreed \in BOOLEAN /\ connected \in BOOLEAN
  /\ restarts \in Nat /\ read \in Nat /\ sent \in Nat /\ lapped \in Nat /\ dropped \in Nat
  /\ unstopped \in BOOLEAN

Init ==
  /\ w = 0 /\ r = 0 /\ ring = [i \in Slots |-> Empty]
  /\ pc = "loop" /\ cell = 1 /\ newParity = "none"
  /\ batch = <<>> /\ parity = "even" /\ keys = {} /\ keyFreed = FALSE /\ connected = FALSE
  /\ restarts = 0 /\ read = 0 /\ sent = 0 /\ lapped = 0 /\ dropped = 0 /\ unstopped = FALSE

-----------------------------------------------------------------------------
(* Helpers *)

Succ(i) == IF i = N - 1 THEN 0 ELSE i + 1

\* The buffers from r up to w wait to be sent; none does when the indexes are equal.
Place(i) == IF i >= r THEN i - r ELSE i - r + N
Depth == Place(w)
Waits(i) == Place(i) < Depth

\* The buffers that were read before the one at r.
Passed == sent + lapped + dropped

\* PacketBuffer::isReadyToSend
Ready(b) == b.full /\ (b.pending => \A c \in Cells : b.packets[c] \notin Scrambled)

Entries == {batch[n] : n \in 1..Len(batch)}
At(i, c) == [slot |-> i, cell |-> c, no |-> ring[i].no]

Current(e) == ring[e.slot].no = e.no

\* What the decryption of the batch makes of a packet: it does not look at what it finds
\* where the entries point.
Decrypted(i, c, garbled) ==
  LET hits == {n \in 1..Len(batch) : batch[n].slot = i /\ batch[n].cell = c}
      right == \E n \in hits :
                 hits = {n} /\ Current(batch[n]) /\ ring[i].packets[c] = "batched"
  IN  CASE hits = {} \/ ~ring[i].full -> ring[i].packets[c]
        [] hits # {} /\ ring[i].full /\ ~right -> "damaged"
        [] OTHER -> IF garbled THEN "garbled" ELSE "decrypted"

-----------------------------------------------------------------------------
(* The streaming thread *)

\* A buffer gets its last packet; decrypt() does nothing without OSCam.
Read ==
  /\ pc = "loop" /\ read < MaxRead
  /\ \E p \in Contents :
       ring' = [ring EXCEPT ![w] = [no |-> read + 1, full |-> TRUE, pending |-> FALSE, packets |-> p]]
  /\ pc' = IF connected THEN "packet" ELSE "advance"
  /\ UNCHANGED <<w, r, cell, newParity, decryptVars, oscamVars, restarts, historyVars>>

\* No data yet, or a part of a buffer.
NoData ==
  /\ pc = "loop" /\ pc' = "send"
  /\ UNCHANGED <<ringVars, cell, newParity, decryptVars, oscamVars, restarts, historyVars>>

NextPacket ==
  IF cell = K THEN pc' = "advance" /\ cell' = 1 ELSE pc' = "packet" /\ cell' = cell + 1

\* A packet without scramble flag.
Pass ==
  /\ pc = "packet" /\ ring[w].packets[cell] \notin Scrambled
  /\ NextPacket
  /\ UNCHANGED <<ringVars, newParity, decryptVars, oscamVars, restarts, historyVars>>

MustDecrypt(p) == batch # <<>> /\ (p # parity \/ Len(batch) >= B)

\* A scrambled packet: the batch goes first when it is full or has the other parity.
Take ==
  /\ pc = "packet" /\ ring[w].packets[cell] \in Parities
  /\ newParity' = ring[w].packets[cell]
  /\ pc' = IF MustDecrypt(newParity') THEN "batch" ELSE "add"
  /\ UNCHANGED <<ringVars, cell, decryptVars, oscamVars, restarts, historyVars>>

\* ClientProperties::decryptBatch, which has its key since Take.  With a key that was
\* freed since then anything may come out.
DecryptBatch ==
  /\ pc = "batch" /\ pc' = "add"
  /\ \E garbled \in {FALSE, keyFreed} :
       ring' = [i \in Slots |->
         [ring[i] EXCEPT !.packets = [c \in Cells |-> Decrypted(i, c, garbled)]]]
  /\ batch' = <<>> /\ keyFreed' = FALSE
  /\ UNCHANGED <<w, r, cell, newParity, parity, keys, connected, restarts, historyVars>>

\* Mutant: the buffer is not marked.
Marked_NotPending(b, c) ==
  [b EXCEPT !.packets = [b.packets EXCEPT ![c] = IF @ \in Scrambled THEN "batched" ELSE @]]

\* setDecryptPending for a packet of the batch, and a packet that cannot be decrypted.
Marked(b, c) ==
  [b EXCEPT !.pending = TRUE,
            !.packets = [b.packets EXCEPT ![c] = IF @ \in Scrambled THEN "batched" ELSE @]]
Nulled(b, c) == [b EXCEPT !.packets = [b.packets EXCEPT ![c] = "null"]]

\* The packet becomes part of the batch, or a null packet when there is no key.
Add ==
  /\ pc = "add" /\ NextPacket /\ newParity' = "none"
  /\ \/ /\ newParity \in keys
        /\ batch' = Append(batch, At(w, cell)) /\ parity' = newParity
        /\ ring' = [ring EXCEPT ![w] = Marked(ring[w], cell)]
     \/ /\ newParity \notin keys
        /\ ring' = [ring EXCEPT ![w] = Nulled(ring[w], cell)]
        /\ UNCHANGED decryptVars
  /\ UNCHANGED <<w, r, oscamVars, restarts, historyVars>>

\* The next buffer becomes the one to read into, whether or not it was sent.
Advance ==
  /\ pc = "advance" /\ pc' = "send"
  /\ w' = Succ(w) /\ ring' = [ring EXCEPT ![w'] = Empty]
  /\ read' = read + 1
  /\ lapped' = IF w' = r THEN lapped + N ELSE lapped
  /\ UNCHANGED <<r, cell, newParity, decryptVars, oscamVars, restarts, sent, dropped, unstopped>>

\* One buffer at most is sent in each round.
Send ==
  /\ pc = "send" /\ pc' = "loop"
  /\ IF Ready(ring[r]) THEN r' = Succ(r) /\ sent' = sent + 1 ELSE UNCHANGED <<r, sent>>
  /\ UNCHANGED <<w, ring, cell, newParity, decryptVars, oscamVars, restarts, read, lapped, dropped,
                 unstopped>>

-----------------------------------------------------------------------------
(* The server thread *)

Pause ==
  /\ pc = "loop" /\ pc' = "paused"
  /\ UNCHANGED <<ringVars, cell, newParity, decryptVars, oscamVars, restarts, historyVars>>

\* Client::stopDecrypt forgets batch and keys, unless OSCam cannot be told.
StopDecrypt ==
  /\ pc = "paused" /\ pc' = "stopped"
  /\ \/ batch' = <<>> /\ keys' = {} /\ parity' = "even" /\ UNCHANGED unstopped
     \/ connected /\ unstopped' = TRUE /\ UNCHANGED <<decryptVars, keys>>
  /\ UNCHANGED <<ringVars, cell, newParity, keyFreed, connected, restarts, read, sent, lapped, dropped>>

\* Mutant: the read index stays where it is.
Restart_KeepsRead ==
  /\ pc = "stopped" /\ pc' = "loop"
  /\ restarts < MaxRestarts /\ restarts' = restarts + 1
  /\ w' = 0 /\ UNCHANGED r /\ ring' = [ring EXCEPT ![0] = Empty]
  /\ dropped' = dropped + Depth
  /\ UNCHANGED <<cell, newParity, decryptVars, oscamVars, read, sent, lapped, unstopped>>

Restart ==
  /\ pc = "stopped" /\ pc' = "loop"
  /\ restarts < MaxRestarts /\ restarts' = restarts + 1
  /\ w' = 0 /\ r' = 0 /\ ring' = [ring EXCEPT ![0] = Empty]
  /\ dropped' = dropped + Depth
  /\ UNCHANGED <<cell, newParity, decryptVars, oscamVars, read, sent, lapped, unstopped>>

-----------------------------------------------------------------------------
(* The DVBAPI client *)

Connect ==
  /\ ~connected /\ connected' = TRUE
  /\ UNCHANGED <<ringVars, pc, cell, newParity, decryptVars, keys, keyFreed, restarts, historyVars>>

\* Mutant: the batch is forgotten, with its packets still in the ring.
Disconnect_ForgetsBatch ==
  /\ connected /\ connected' = FALSE /\ batch' = <<>>
  /\ UNCHANGED <<ringVars, pc, cell, newParity, parity, keys, keyFreed, restarts, historyVars>>

\* The connection is lost, or decryption is disabled: nothing else is told of it.
Disconnect ==
  /\ connected /\ connected' = FALSE
  /\ UNCHANGED <<ringVars, pc, cell, newParity, decryptVars, keys, keyFreed, restarts, historyVars>>

\* Keys::set frees the key that it replaces, even one that decryptBatch works with.
SetKey(p) ==
  /\ connected /\ keys' = keys \cup {p}
  /\ keyFreed' = (keyFreed \/ (pc = "batch" /\ p = parity /\ p \in keys))
  /\ UNCHANGED <<ringVars, pc, cell, newParity, decryptVars, connected, restarts, historyVars>>

-----------------------------------------------------------------------------

Thread == Read \/ NoData \/ Pass \/ Take \/ DecryptBatch \/ Add \/ Advance \/ Send
Server == Pause \/ StopDecrypt \/ Restart
Oscam == Connect \/ Disconnect \/ \E p \in Parities : SetKey(p)

Next == Thread \/ Server \/ Oscam

Spec == Init /\ [][Next]_vars

-----------------------------------------------------------------------------
(* Properties *)

\* Where the batch points is only known as long as no buffer was lost with packets that
\* wait for it, and the batch was forgotten with each session.
Undisturbed == lapped = 0 /\ ~unstopped

\* The batch fits its array, which needs one place more for the terminator; its packets
\* have one parity, and there is a key for it: the branch of decryptBatch for a batch
\* without key, which would look for a terminator that nobody wrote, is never taken.
BatchHasKey == batch # <<>> => Len(batch) <= B /\ parity \in keys

\* An entry of the batch points at the packet it was made for, as long as no buffer was
\* overwritten unsent and each end of a session forgot the batch.
BatchCurrent ==
  Undisturbed => \A e \in Entries :
    Current(e) /\ ring[e.slot].packets[e.cell] = "batched"

\* A packet that waits to be decrypted is in the batch, whatever went wrong: otherwise
\* its buffer, and with it the stream, would stay where it is for good.
NoOrphan ==
  pc \notin {"paused", "stopped"} =>
    \A i \in Slots : \A c \in Cells :
      Waits(i) /\ ring[i].packets[c] = "batched" => At(i, c) \in Entries

\* The ring only fills up behind a packet that waits to be decrypted: the thread keeps up
\* with its device otherwise.
FullMeansStuck == pc = "loop" /\ Depth = N - 1 => ~Ready(ring[r])

\* A buffer that is sent is the one that follows what was sent, overwritten or given up,
\* and each packet of it that was put in a batch was decrypted, once.
SentDecrypted ==
  [][sent' # sent =>
       /\ ring[r].no = Passed + 1
       /\ \A c \in Cells : ring[r].packets[c] # "batched"
       /\ Undisturbed =>
            \A c \in Cells : ring[r].packets[c] # "damaged"]_vars

Queued == [k \in 1..Depth |-> ring[IF r + k <= N THEN r + k - 1 ELSE r + k - 1 - N].no]

\* The ring implements the queue: it keeps what it reads in order, loses nothing but all
\* when it is full, and gives each buffer away once.
Queue == INSTANCE PacketQueue WITH
  Capacity <- N - 1,
  queue <- Queued,
  next <- read + 1
QueueSpec == Queue!Spec

-----------------------------------------------------------------------------
(* The inductive invariant *)

Reading == pc \in {"packet", "batch", "add", "advance"}
Live(i) == Waits(i) \/ (Reading /\ i = w)

\* The buffers that wait have consecutive numbers; the one at w is full while it is
\* decrypted, and empty otherwise.
RingInOrder ==
  /\ read = Passed + Depth
  /\ \A i \in Slots : Waits(i) => ring[i].no = Passed + 1 + Place(i) /\ ring[i].full
  /\ IF Reading THEN ring[w].no = read + 1 /\ ring[w].full ELSE ~ring[w].full

\* Before a packet is added, there is room for it, and it has the parity of the batch.
BatchFits ==
  /\ BatchHasKey
  /\ pc \in {"batch", "add"} => newParity \in Parities
  /\ pc = "add" => batch = <<>> \/ (Len(batch) < B /\ newParity = parity)

\* In the buffers that matter, a packet of the batch is known to be in it, and marks its
\* buffer as pending.
BatchKnown ==
  \A i \in Slots : \A c \in Cells :
    Live(i) /\ ring[i].packets[c] = "batched" =>
      /\ ring[i].pending
      /\ pc \notin {"paused", "stopped"} => At(i, c) \in Entries

\* As long as nothing went wrong, the entries of the batch are those of different packets
\* that wait to be decrypted, and that the thread has been at.
EntryExact(e) ==
  /\ Live(e.slot) /\ Current(e) /\ ring[e.slot].packets[e.cell] = "batched"
  /\ pc \in {"packet", "batch", "add"} /\ e.slot = w => e.cell < cell
BatchDistinct ==
  \A m, n \in 1..Len(batch) :
    batch[m].slot = batch[n].slot /\ batch[m].cell = batch[n].cell => m = n
NoneDamaged == \A i \in Slots : \A c \in Cells : Live(i) => ring[i].packets[c] # "damaged"
BatchExact ==
  Undisturbed =>
    /\ \A n \in 1..Len(batch) : EntryExact(batch[n])
    /\ BatchDistinct
    /\ NoneDamaged
    /\ pc \in {"batch", "add"} => ring[w].packets[cell] \in Parities
    /\ pc = "stopped" => batch = <<>>

IInv == TypeOK /\ RingInOrder /\ FullMeansStuck /\ BatchFits /\ BatchKnown /\ BatchExact
=============================================================================
