-------------------------- MODULE PacketRingProofs --------------------------
(***************************************************************************)
(* Theorems about PacketRing, for every size of the ring, of a buffer and  *)
(* of the batch.                                                           *)
(***************************************************************************)
EXTENDS PacketRing, TLAPS

-----------------------------------------------------------------------------
(* The ring *)

\* The place of a slot counts from the reader; it is less than N, and different slots
\* have different places.
LEMMA PlaceType ==
  ASSUME RingAssumption, r \in Slots
  PROVE  /\ \A i \in Slots : Place(i) \in 0..N-1
         /\ \A i, j \in Slots : Place(i) = Place(j) => i = j
         /\ Place(r) = 0
BY DEF RingAssumption, Slots, Place

\* Where the writer goes: one place further, or onto the reader from the last place.
LEMMA AdvancePlace ==
  ASSUME RingAssumption, r \in Slots, w \in Slots
  PROVE  /\ Succ(w) \in Slots /\ Succ(w) # w
         /\ Succ(w) # r => Place(Succ(w)) = Place(w) + 1
         /\ Succ(w) = r => Place(w) = N - 1
BY DEF RingAssumption, Slots, Place, Succ

\* All places come one nearer when the reader goes on, but its own, which is last.
LEMMA SendPlace ==
  ASSUME RingAssumption, r \in Slots, r' = Succ(r)
  PROVE  /\ r' \in Slots
         /\ \A i \in Slots : Place(i)' = IF i = r THEN N - 1 ELSE Place(i) - 1
<1>1. r' \in Slots
  BY DEF RingAssumption, Slots, Succ
<1>2. ASSUME NEW i \in Slots
      PROVE  Place(i)' = IF i = r THEN N - 1 ELSE Place(i) - 1
  <2>1. CASE r = N - 1
    <3>1. r' = 0
      BY <2>1 DEF Succ
    <3> QED
      BY <2>1, <3>1 DEF RingAssumption, Slots, Place
  <2>2. CASE r # N - 1
    <3>1. r' = r + 1
      BY <2>2 DEF Succ
    <3> QED
      BY <2>2, <3>1 DEF RingAssumption, Slots, Place
  <2> QED
    BY <2>1, <2>2
<1> QED
  BY <1>1, <1>2

\* An empty buffer is one.
LEMMA EmptyType == Empty \in Buffer
BY DEF Empty, Buffer, Packet

-----------------------------------------------------------------------------
(* Types *)

\* Decryption turns a packet into one.
LEMMA DecryptedType ==
  ASSUME TypeOK, NEW i \in Slots, NEW c \in Cells, NEW g \in BOOLEAN
  PROVE  Decrypted(i, c, g) \in Packet
<1>1. ring[i].packets[c] \in Packet
  BY DEF TypeOK, Buffer
<1> QED
  BY <1>1 DEF Decrypted, Packet

LEMMA MarkedType ==
  ASSUME NEW b \in Buffer, NEW c \in Cells
  PROVE  Marked(b, c) \in Buffer /\ Nulled(b, c) \in Buffer
<1>1. b.packets \in [Cells -> Packet]
  BY DEF Buffer
<1>2. [b.packets EXCEPT ![c] = IF @ \in Scrambled THEN "batched" ELSE @] \in [Cells -> Packet]
  BY <1>1 DEF Packet
<1>3. [b.packets EXCEPT ![c] = "null"] \in [Cells -> Packet]
  BY <1>1 DEF Packet
<1> QED
  BY <1>2, <1>3 DEF Marked, Nulled, Buffer

\* The buffer at w is filled with clear and scrambled packets.
LEMMA ReadFills ==
  ASSUME Read
  PROVE  \E p \in [Cells -> {"clear", "even", "odd"}] :
           ring' = [ring EXCEPT ![w] =
                      [no |-> read + 1, full |-> TRUE, pending |-> FALSE, packets |-> p]]
BY ContentsAssumption DEF Read, Cells

LEMMA InitType == Init => TypeOK
BY RingAssumption, EmptyType DEF Init, TypeOK, Slots, Cells, Parities

LEMMA NextType == TypeOK /\ [Next]_vars => TypeOK'
<1> SUFFICES ASSUME TypeOK, [Next]_vars PROVE TypeOK'
  OBVIOUS
<1> USE RingAssumption
<1>a. NextPacket => cell' \in Cells /\ pc' \in {"packet", "advance"}
  BY DEF NextPacket, TypeOK, Cells
<1>1. CASE Read
  <2>1. PICK p \in [Cells -> {"clear", "even", "odd"}] :
          ring' = [ring EXCEPT ![w] =
                     [no |-> read + 1, full |-> TRUE, pending |-> FALSE, packets |-> p]]
    BY <1>1, ReadFills
  <2>2. [no |-> read + 1, full |-> TRUE, pending |-> FALSE, packets |-> p] \in Buffer
    BY DEF TypeOK, Buffer, Packet
  <2>3. ring' \in [Slots -> Buffer]
    BY <2>1, <2>2 DEF TypeOK
  <2> QED
    BY <1>1, <2>3 DEF Read, TypeOK, decryptVars, oscamVars, historyVars
<1>2. CASE NoData
  BY <1>2 DEF NoData, TypeOK, ringVars, decryptVars, oscamVars, historyVars
<1>3. CASE Pass
  BY <1>3, <1>a DEF Pass, TypeOK, ringVars, decryptVars, oscamVars, historyVars
<1>4. CASE Take
  BY <1>4 DEF Take, TypeOK, ringVars, decryptVars, oscamVars, historyVars, Parities
<1>5. CASE DecryptBatch
  <2>1. PICK g \in {FALSE, keyFreed} :
          ring' = [i \in Slots |->
            [ring[i] EXCEPT !.packets = [c \in Cells |-> Decrypted(i, c, g)]]]
    BY <1>5 DEF DecryptBatch
  <2>2. ASSUME NEW i \in Slots
        PROVE  [ring[i] EXCEPT !.packets = [c \in Cells |-> Decrypted(i, c, g)]] \in Buffer
    <3>1. [c \in Cells |-> Decrypted(i, c, g)] \in [Cells -> Packet]
      BY DecryptedType DEF TypeOK
    <3> QED
      BY <3>1 DEF TypeOK, Buffer
  <2>3. ring' \in [Slots -> Buffer]
    BY <2>1, <2>2
  <2>4. pc' = "add" /\ batch' = <<>> /\ keyFreed' = FALSE
        /\ UNCHANGED <<w, r, cell, newParity, parity, keys, connected, restarts, historyVars>>
    BY <1>5 DEF DecryptBatch
  <2>5. keyFreed' \in BOOLEAN /\ unstopped' \in BOOLEAN /\ connected' \in BOOLEAN
    BY <2>4, Zenon DEF TypeOK, historyVars
  <2> QED
    BY <2>3, <2>4, <2>5 DEF TypeOK, historyVars
<1>6. CASE Add
  <2>1. ring' \in [Slots -> Buffer]
    <3>1. Marked(ring[w], cell) \in Buffer /\ Nulled(ring[w], cell) \in Buffer
      BY MarkedType DEF TypeOK
    <3> QED
      BY <1>6, <3>1 DEF Add, TypeOK
  <2>2. batch' \in Seq(Entry) /\ parity' \in Parities
    <3>1. At(w, cell) \in Entry
      BY DEF At, Entry, TypeOK, Buffer
    <3>2. CASE newParity \in keys
      BY <1>6, <3>1, <3>2 DEF Add, TypeOK
    <3>3. CASE newParity \notin keys
      BY <1>6, <3>3 DEF Add, TypeOK, decryptVars
    <3> QED
      BY <3>2, <3>3
  <2> QED
    BY <1>6, <1>a, <2>1, <2>2 DEF Add, TypeOK, oscamVars, historyVars
<1>7. CASE Advance
  <2>1. Succ(w) \in Slots
    BY AdvancePlace DEF TypeOK
  <2> QED
    BY <1>7, <2>1, EmptyType DEF Advance, TypeOK, decryptVars, oscamVars
<1>8. CASE Send
  <2>1. Succ(r) \in Slots
    BY DEF Succ, Slots, TypeOK
  <2> QED
    BY <1>8, <2>1 DEF Send, TypeOK, decryptVars, oscamVars
<1>9. CASE Server
  <2>1. CASE Pause
    BY <2>1 DEF Pause, TypeOK, ringVars, decryptVars, oscamVars, historyVars
  <2>2. CASE StopDecrypt
    <3>1. batch' \in Seq(Entry) /\ keys' \subseteq Parities /\ parity' \in Parities
      <4>1. \/ batch' = <<>> /\ keys' = {} /\ parity' = "even"
            \/ batch' = batch /\ keys' = keys /\ parity' = parity
        BY <2>2, Zenon DEF StopDecrypt, decryptVars
      <4>2. batch \in Seq(Entry) /\ keys \subseteq Parities /\ parity \in Parities
            /\ "even" \in Parities /\ <<>> \in Seq(Entry)
        BY DEF TypeOK, Parities
      <4> QED
        BY <4>1, <4>2
    <3>2. unstopped' \in BOOLEAN
      BY <2>2, Zenon DEF StopDecrypt, TypeOK
    <3>3. pc' = "stopped" /\ restarts' = restarts /\ read' = read /\ sent' = sent
          /\ lapped' = lapped /\ dropped' = dropped /\ cell' = cell /\ newParity' = newParity
          /\ keyFreed' = keyFreed /\ connected' = connected /\ w' = w /\ r' = r /\ ring' = ring
      BY <2>2, Zenon DEF StopDecrypt, ringVars
    <3> QED
      BY <3>1, <3>2, <3>3 DEF TypeOK
  <2>3. CASE Restart
    <3>1. Depth \in Nat /\ 0 \in Slots
      BY PlaceType DEF TypeOK, Depth, Slots
    <3> QED
      BY <2>3, <3>1, EmptyType DEF Restart, TypeOK, decryptVars, oscamVars
  <2> QED
    BY <1>9, <2>1, <2>2, <2>3 DEF Server
<1>10. CASE Oscam
  BY <1>10 DEF Oscam, Connect, Disconnect, SetKey, TypeOK, ringVars, decryptVars, historyVars
<1>11. CASE UNCHANGED vars
  BY <1>11 DEF vars, TypeOK, ringVars, decryptVars, oscamVars, historyVars
<1> QED
  BY <1>1, <1>2, <1>3, <1>4, <1>5, <1>6, <1>7, <1>8, <1>9, <1>10, <1>11 DEF Next, Thread

-----------------------------------------------------------------------------
(* The order of the ring *)

LEMMA InitOrder == Init => RingInOrder /\ FullMeansStuck
BY RingAssumption DEF Init, RingInOrder, FullMeansStuck, Passed, Depth, Place, Waits, Reading, Slots,
   Empty

\* What a step does to the packets of the buffers does not matter to their order.
LEMMA SameOrder ==
  ASSUME TypeOK, RingInOrder, UNCHANGED <<w, r, read, sent, lapped, dropped>>,
         \A i \in Slots : ring'[i].no = ring[i].no /\ ring'[i].full = ring[i].full,
         Reading' <=> Reading
  PROVE  RingInOrder'
<1>1. /\ Passed' = Passed /\ Depth' = Depth
      /\ \A i \in Slots : Place(i)' = Place(i) /\ (Waits(i)' <=> Waits(i))
  BY DEF Passed, Depth, Place, Waits
<1> QED
  BY <1>1 DEF RingInOrder, TypeOK

\* Marking a packet leaves its buffer where it is.
LEMMA MarkedOrder ==
  ASSUME NEW b \in Buffer, NEW c \in Cells
  PROVE  /\ Marked(b, c).no = b.no /\ Marked(b, c).full = b.full
         /\ Nulled(b, c).no = b.no /\ Nulled(b, c).full = b.full
BY DEF Marked, Nulled, Buffer

\* The sums of the counters stay within the integers.
LEMMA CounterType ==
  ASSUME TypeOK
  PROVE  /\ Passed \in Nat /\ Depth \in 0..N-1
         /\ \A i \in Slots : Place(i) \in 0..N-1 /\ (Place(i) = Depth <=> i = w)
BY RingAssumption, PlaceType DEF TypeOK, Passed, Depth

LEMMA ReadOrder == ASSUME TypeOK, RingInOrder, Read PROVE RingInOrder'
<1>1. PICK p \in [Cells -> {"clear", "even", "odd"}] :
        ring' = [ring EXCEPT ![w] =
                   [no |-> read + 1, full |-> TRUE, pending |-> FALSE, packets |-> p]]
  BY ReadFills
<1>2. /\ ring'[w].no = read + 1 /\ ring'[w].full
      /\ \A i \in Slots : i # w => ring'[i] = ring[i]
  BY <1>1 DEF TypeOK
<1>3. /\ Passed' = Passed /\ Depth' = Depth /\ read' = read /\ w' = w
      /\ \A i \in Slots : Place(i)' = Place(i) /\ (Waits(i)' <=> Waits(i))
  BY DEF Read, historyVars, Passed, Depth, Place, Waits
<1>4. \A i \in Slots : Waits(i) => i # w
  BY CounterType DEF Waits
<1>5. Reading'
  BY DEF Read, Reading
<1> QED
  BY <1>2, <1>3, <1>4, <1>5 DEF RingInOrder

\* What waits after the writer went on waited before, or was just read.
LEMMA AdvanceWaits ==
  ASSUME TypeOK, Advance, NEW i \in Slots, Waits(i)'
  PROVE  i # w' /\ (Waits(i) \/ i = w)
<1> USE RingAssumption
<1>1. w' = Succ(w) /\ r' = r
  BY DEF Advance
<1>2. \A j \in Slots : Place(j)' = Place(j)
  BY <1>1 DEF Place
<1>3. w' \in Slots /\ w' # w /\ Depth' = Place(w')
  BY <1>1, <1>2, AdvancePlace DEF TypeOK, Depth
<1>4. Place(i) < Place(w')
  BY <1>2, <1>3 DEF Waits
<1>5. i # w'
  <2>1. i = w' => Place(i) = Place(w')
    OBVIOUS
  <2> QED
    BY <1>3, <1>4, <2>1, CounterType
<1>6. CASE w' = r
  BY <1>3, <1>4, <1>6, PlaceType, CounterType DEF TypeOK
<1>7. CASE w' # r
  <2>1. Place(w') = Depth + 1
    BY <1>1, <1>7, AdvancePlace DEF TypeOK, Depth
  <2>2. Place(i) < Depth \/ Place(i) = Depth
    BY <1>4, <2>1, CounterType
  <2> QED
    BY <1>5, <2>2, CounterType DEF Waits
<1> QED
  BY <1>6, <1>7

LEMMA AdvanceOrder == ASSUME TypeOK, RingInOrder, Advance PROVE RingInOrder'
<1> USE RingAssumption
<1>1. /\ w' = Succ(w) /\ r' = r /\ read' = read + 1 /\ sent' = sent /\ dropped' = dropped
      /\ lapped' = IF w' = r THEN lapped + N ELSE lapped
      /\ ring' = [ring EXCEPT ![w'] = Empty]
      /\ pc = "advance" /\ pc' = "send"
  BY DEF Advance
<1>2. \A i \in Slots : Place(i)' = Place(i)
  BY <1>1 DEF Place
<1>3. w' \in Slots /\ w' # w /\ Depth' = Place(w')
  BY <1>1, <1>2, AdvancePlace DEF TypeOK, Depth
<1>4. ~ring'[w'].full /\ \A i \in Slots : i # w' => ring'[i] = ring[i]
  BY <1>1, <1>3 DEF TypeOK, Empty
<1>5. ~Reading' /\ Reading
  BY <1>1 DEF Reading
<1>6. ring[w].no = read + 1 /\ ring[w].full /\ read = Passed + Depth
  BY <1>5 DEF RingInOrder
<1>7. CASE w' = r
  <2>1. Depth' = 0 /\ Depth = N - 1 /\ Passed' = Passed + N
    BY <1>1, <1>3, <1>7, AdvancePlace, PlaceType DEF TypeOK, Depth, Passed
  <2>2. \A i \in Slots : ~Waits(i)'
    BY <1>2, <2>1, CounterType DEF Waits
  <2>3. read' = Passed' + Depth'
    BY <1>1, <1>6, <2>1, CounterType DEF TypeOK
  <2> QED
    BY <1>4, <1>5, <2>2, <2>3 DEF RingInOrder
<1>8. CASE w' # r
  <2>1. Depth' = Depth + 1 /\ Passed' = Passed
    BY <1>1, <1>3, <1>8, AdvancePlace DEF TypeOK, Depth, Passed
  <2>2. \A i \in Slots : Waits(i)' => i # w' /\ (Waits(i) \/ i = w)
    BY AdvanceWaits
  <2>3. read' = Passed' + Depth'
    BY <1>1, <1>6, <2>1, CounterType DEF TypeOK
  <2>4. ASSUME NEW i \in Slots, Waits(i)'
        PROVE  ring'[i].no = Passed' + 1 + Place(i)' /\ ring'[i].full
    <3>1. CASE i = w
      BY <1>2, <1>4, <1>6, <2>1, <2>2, <2>4, <3>1, CounterType DEF TypeOK, Depth
    <3>2. CASE Waits(i)
      BY <1>2, <1>4, <2>1, <2>2, <2>4, <3>2 DEF RingInOrder
    <3> QED
      BY <2>2, <2>4, <3>1, <3>2
  <2> QED
    BY <1>4, <1>5, <2>3, <2>4 DEF RingInOrder
<1> QED
  BY <1>7, <1>8

\* Only a buffer that waits is ever ready while nothing is decrypted.
LEMMA ReadyWaits ==
  ASSUME TypeOK, RingInOrder, pc = "send", Ready(ring[r])
  PROVE  r # w /\ Waits(r) /\ Depth > 0
<1>1. ~ring[w].full
  BY DEF RingInOrder, Reading
<1>2. r # w
  BY <1>1 DEF Ready
<1>3. Place(r) = 0 /\ Place(w) # 0 /\ Place(w) \in 0..N-1
  BY <1>2, PlaceType, RingAssumption DEF TypeOK
<1> QED
  BY <1>2, <1>3, RingAssumption DEF Waits, Depth

\* What sending a buffer does to the places of the others.
LEMMA SentPlace ==
  ASSUME TypeOK, RingInOrder, Send, Ready(ring[r])
  PROVE  /\ Depth' = Depth - 1 /\ Passed' = Passed + 1
         /\ \A i \in Slots : Waits(i)' => i # r /\ Waits(i) /\ Place(i)' = Place(i) - 1
<1> USE RingAssumption
<1>1. r' = Succ(r) /\ w' = w /\ sent' = sent + 1 /\ lapped' = lapped /\ dropped' = dropped
      /\ pc = "send"
  BY DEF Send
<1>2. \A i \in Slots : Place(i)' = IF i = r THEN N - 1 ELSE Place(i) - 1
  BY <1>1, SendPlace DEF TypeOK
<1>3. r # w
  BY <1>1, ReadyWaits
<1>4. Depth' = Depth - 1
  BY <1>1, <1>2, <1>3 DEF TypeOK, Depth
<1>5. Passed' = Passed + 1
  BY <1>1 DEF TypeOK, Passed
<1>6. ASSUME NEW i \in Slots, Waits(i)'
      PROVE  i # r /\ Waits(i) /\ Place(i)' = Place(i) - 1
  <2>1. Place(i)' < Depth'
    BY <1>6 DEF Waits
  <2> QED
    BY <1>2, <1>4, <2>1, CounterType DEF Waits
<1> QED
  BY <1>4, <1>5, <1>6

LEMMA SendOrder ==
  ASSUME TypeOK, RingInOrder, Send
  PROVE  RingInOrder' /\ FullMeansStuck'
<1> USE RingAssumption
<1>1. w' = w /\ ring' = ring /\ read' = read /\ pc = "send" /\ pc' = "loop"
  BY DEF Send
<1>2. CASE Ready(ring[r])
  <2>1. RingInOrder'
    <3>1. read' = Passed' + Depth'
      BY <1>1, <1>2, SentPlace, CounterType DEF RingInOrder, TypeOK
    <3>2. \A i \in Slots : Waits(i)' => ring'[i].no = Passed' + 1 + Place(i)' /\ ring'[i].full
      BY <1>1, <1>2, SentPlace, CounterType DEF RingInOrder
    <3> QED
      BY <1>1, <3>1, <3>2 DEF RingInOrder, Reading
  <2>2. Depth' # N - 1
    BY <1>2, SentPlace, CounterType
  <2> QED
    BY <2>1, <2>2 DEF FullMeansStuck
<1>3. CASE ~Ready(ring[r])
  <2>1. r' = r /\ sent' = sent /\ lapped' = lapped /\ dropped' = dropped
    BY <1>3 DEF Send
  <2>2. RingInOrder'
    <3>1. Reading' <=> Reading
      BY <1>1 DEF Reading
    <3> QED
      BY <1>1, <2>1, <3>1, SameOrder
  <2>3. ~Ready(ring'[r'])
    BY <1>1, <1>3, <2>1 DEF Ready
  <2> QED
    BY <2>2, <2>3 DEF FullMeansStuck
<1> QED
  BY <1>2, <1>3

LEMMA RestartOrder ==
  ASSUME TypeOK, RingInOrder, Restart
  PROVE  RingInOrder' /\ FullMeansStuck'
<1> USE RingAssumption
<1>1. /\ w' = 0 /\ r' = 0 /\ ring' = [ring EXCEPT ![0] = Empty] /\ dropped' = dropped + Depth
      /\ read' = read /\ sent' = sent /\ lapped' = lapped /\ pc = "stopped" /\ pc' = "loop"
  BY DEF Restart
<1>2. 0 \in Slots
  BY DEF Slots
<1>3. /\ Depth' = 0
      /\ \A i \in Slots : ~Waits(i)'
  BY <1>1, <1>2 DEF Depth, Place, Waits, Slots
<1>4. read' = Passed' + Depth'
  <2>1. Passed' = Passed + Depth
    BY <1>1, CounterType DEF Passed, TypeOK
  <2> QED
    BY <1>1, <1>3, <2>1, CounterType DEF RingInOrder, TypeOK
<1>5. ~ring'[w'].full
  BY <1>1, <1>2 DEF TypeOK, Empty
<1>6. ~Reading'
  BY <1>1 DEF Reading
<1>7. RingInOrder'
  BY <1>3, <1>4, <1>5, <1>6 DEF RingInOrder
<1>8. FullMeansStuck'
  BY <1>3 DEF FullMeansStuck
<1> QED
  BY <1>7, <1>8

LEMMA NextOrder ==
  TypeOK /\ RingInOrder /\ FullMeansStuck /\ [Next]_vars => RingInOrder' /\ FullMeansStuck'
<1> SUFFICES ASSUME TypeOK, RingInOrder, FullMeansStuck, [Next]_vars
             PROVE  RingInOrder' /\ FullMeansStuck'
  OBVIOUS
<1>a. (NextPacket => pc' \in {"packet", "advance"})
  BY DEF NextPacket
<1>b. ASSUME pc' # "loop" PROVE FullMeansStuck'
  BY <1>b DEF FullMeansStuck
<1>1. CASE Read
  BY <1>1, <1>b, ReadOrder DEF Read
<1>2. CASE NoData \/ Pause \/ StopDecrypt
  <2>1. /\ UNCHANGED <<w, r, ring, read, sent, lapped, dropped>>
        /\ pc \in {"loop", "paused"} /\ pc' \in {"send", "paused", "stopped"}
    BY <1>2 DEF NoData, Pause, StopDecrypt, ringVars, historyVars
  <2> QED
    BY <2>1, <1>b, SameOrder DEF Reading
<1>3. CASE Pass \/ Take
  <2>1. /\ UNCHANGED <<w, r, ring, read, sent, lapped, dropped>>
        /\ pc = "packet" /\ pc' \in {"packet", "advance", "batch", "add"}
    BY <1>3, <1>a DEF Pass, Take, ringVars, historyVars
  <2> QED
    BY <2>1, <1>b, SameOrder DEF Reading
<1>4. CASE DecryptBatch
  <2>1. /\ UNCHANGED <<w, r, read, sent, lapped, dropped>> /\ pc = "batch" /\ pc' = "add"
    BY <1>4 DEF DecryptBatch, historyVars
  <2>2. \A i \in Slots : ring'[i].no = ring[i].no /\ ring'[i].full = ring[i].full
    BY <1>4 DEF DecryptBatch, TypeOK, Buffer
  <2> QED
    BY <2>1, <2>2, <1>b, SameOrder DEF Reading
<1>5. CASE Add
  <2>1. /\ UNCHANGED <<w, r, read, sent, lapped, dropped>>
        /\ pc = "add" /\ pc' \in {"packet", "advance"}
    BY <1>5, <1>a DEF Add, historyVars
  <2>2. \A i \in Slots : ring'[i].no = ring[i].no /\ ring'[i].full = ring[i].full
    BY <1>5, MarkedOrder DEF Add, TypeOK
  <2> QED
    BY <2>1, <2>2, <1>b, SameOrder DEF Reading
<1>6. CASE Advance
  BY <1>6, <1>b, AdvanceOrder DEF Advance
<1>7. CASE Send
  BY <1>7, SendOrder
<1>8. CASE Restart
  BY <1>8, RestartOrder
<1>9. CASE Oscam \/ UNCHANGED vars
  <2>1. UNCHANGED <<w, r, ring, read, sent, lapped, dropped, pc>>
    BY <1>9 DEF Oscam, Connect, Disconnect, SetKey, vars, ringVars, historyVars
  <2>2. RingInOrder'
    BY <2>1, SameOrder DEF Reading
  <2>3. FullMeansStuck'
    BY <2>1 DEF FullMeansStuck, Depth, Place, Ready
  <2> QED
    BY <2>2, <2>3
<1> QED
  BY <1>1, <1>2, <1>3, <1>4, <1>5, <1>6, <1>7, <1>8, <1>9 DEF Next, Thread, Server

-----------------------------------------------------------------------------
(* The batch *)

LEMMA NextFits == TypeOK /\ BatchFits /\ [Next]_vars => BatchFits'
<1> SUFFICES ASSUME TypeOK, BatchFits, [Next]_vars PROVE BatchFits'
  OBVIOUS
<1> USE RingAssumption
<1>a. NextPacket => pc' \in {"packet", "advance"}
  BY DEF NextPacket
<1>1. CASE Read \/ NoData \/ Pass \/ Advance \/ Send \/ Pause \/ Restart
  <2>1. UNCHANGED <<batch, parity, keys>> /\ pc' \notin {"batch", "add"}
    BY <1>1, <1>a DEF Read, NoData, Pass, Advance, Send, Pause, Restart, decryptVars, oscamVars
  <2> QED
    BY <2>1 DEF BatchFits, BatchHasKey
<1>2. CASE Take
  <2>1. UNCHANGED <<batch, parity, keys>>
    BY <1>2 DEF Take, decryptVars, oscamVars
  <2>2. newParity' \in Parities
    BY <1>2 DEF Take
  <2>3. pc' = "add" => batch = <<>> \/ (Len(batch) < B /\ newParity' = parity)
    BY <1>2 DEF Take, MustDecrypt, TypeOK
  <2> QED
    BY <2>1, <2>2, <2>3 DEF BatchFits, BatchHasKey
<1>3. CASE DecryptBatch
  BY <1>3 DEF DecryptBatch, BatchFits, BatchHasKey
<1>4. CASE Add
  <2>1. pc = "add" /\ keys' = keys /\ pc' \in {"packet", "advance"}
    BY <1>4, <1>a DEF Add, oscamVars
  <2>2. CASE newParity \in keys
    <3>1. batch' = Append(batch, At(w, cell)) /\ parity' = newParity
      BY <1>4, <2>2 DEF Add
    <3>2. Len(batch') = Len(batch) + 1 /\ Len(batch) \in Nat
      BY <3>1 DEF TypeOK
    <3>3. Len(batch) < B
      BY <2>1 DEF BatchFits
    <3> QED
      BY <2>1, <2>2, <3>1, <3>2, <3>3 DEF BatchFits, BatchHasKey
  <2>3. CASE newParity \notin keys
    BY <1>4, <2>1, <2>3 DEF Add, decryptVars, BatchFits, BatchHasKey
  <2> QED
    BY <2>2, <2>3
<1>5. CASE StopDecrypt
  <2>1. batch' = <<>> \/ UNCHANGED <<batch, parity, keys>>
    BY <1>5, Zenon DEF StopDecrypt, decryptVars
  <2>2. pc' = "stopped"
    BY <1>5 DEF StopDecrypt
  <2> QED
    BY <2>1, <2>2 DEF BatchFits, BatchHasKey
<1>6. CASE Oscam
  <2>1. UNCHANGED <<pc, newParity, batch, parity>> /\ keys \subseteq keys'
    BY <1>6 DEF Oscam, Connect, Disconnect, SetKey, decryptVars
  <2> QED
    BY <2>1 DEF BatchFits, BatchHasKey
<1>7. CASE UNCHANGED vars
  BY <1>7 DEF vars, decryptVars, oscamVars, BatchFits, BatchHasKey
<1> QED
  BY <1>1, <1>2, <1>3, <1>4, <1>5, <1>6, <1>7 DEF Next, Thread, Server

\* The buffers that matter: a step of the indexes takes some away, and reading adds one.
LEMMA LiveFacts ==
  ASSUME TypeOK, RingInOrder, [Next]_vars, NEW i \in Slots, Live(i)'
  PROVE  /\ Live(i) \/ (Read /\ i = w)
         /\ Advance => i # w'
         /\ Send /\ Ready(ring[r]) => i # r
         /\ ~Restart
<1>a. NextPacket => pc' \in {"packet", "advance"}
  BY DEF NextPacket
<1>1. CASE Read
  <2>1. UNCHANGED <<w, r>> /\ pc = "loop" /\ pc' \in {"packet", "advance"}
    BY <1>1 DEF Read
  <2>2. Waits(i)' <=> Waits(i)
    BY <2>1 DEF Waits, Depth, Place
  <2> QED
    BY <1>1, <2>1, <2>2 DEF Live, Advance, Send, Restart
<1>2. CASE NoData \/ Pass \/ Take \/ DecryptBatch \/ Add \/ Pause \/ StopDecrypt \/ Oscam \/ UNCHANGED vars
  <2>1. UNCHANGED <<w, r>> /\ (Reading' => Reading)
        /\ (pc = "advance" => pc' # "send")
        /\ (pc = "send" => pc' # "loop") /\ (pc = "stopped" => pc' # "loop")
    <3>1. CASE NoData \/ Pause \/ StopDecrypt
      BY <3>1 DEF NoData, Pause, StopDecrypt, Reading, ringVars
    <3>2. CASE Pass \/ Take \/ DecryptBatch \/ Add
      BY <3>2, <1>a DEF Pass, Take, DecryptBatch, Add, Reading, ringVars
    <3>3. CASE Oscam \/ UNCHANGED vars
      BY <3>3 DEF Oscam, Connect, Disconnect, SetKey, Reading, ringVars, vars
    <3> QED
      BY <1>2, <3>1, <3>2, <3>3
  <2>2. Waits(i)' <=> Waits(i)
    BY <2>1 DEF Waits, Depth, Place
  <2> QED
    BY <2>1, <2>2 DEF Live, Advance, Send, Restart
<1>3. CASE Advance
  <2>1. pc = "advance" /\ pc' = "send"
    BY <1>3 DEF Advance
  <2>2. Waits(i)'
    BY <2>1 DEF Live, Reading
  <2>3. i # w' /\ (Waits(i) \/ i = w)
    BY <1>3, <2>2, AdvanceWaits
  <2> QED
    BY <2>1, <2>3 DEF Live, Reading, Send, Restart
<1>4. CASE Send
  <2>1. pc = "send" /\ pc' = "loop" /\ w' = w
    BY <1>4 DEF Send
  <2>2. Waits(i)'
    BY <2>1 DEF Live, Reading
  <2>3. CASE Ready(ring[r])
    BY <1>4, <2>1, <2>2, <2>3, SentPlace DEF Live, Advance, Restart
  <2>4. CASE ~Ready(ring[r])
    <3>1. r' = r
      BY <1>4, <2>4 DEF Send
    <3>2. Waits(i)
      BY <2>1, <2>2, <3>1 DEF Waits, Depth, Place
    <3> QED
      BY <2>1, <2>4, <3>2 DEF Live, Advance, Restart
  <2> QED
    BY <2>3, <2>4
<1>5. CASE Restart
  <2>1. w' = 0 /\ r' = 0 /\ pc' = "loop"
    BY <1>5 DEF Restart
  <2>2. ~Waits(i)'
    BY <2>1, RingAssumption DEF Waits, Depth, Place, Slots
  <2> QED
    BY <2>1, <2>2 DEF Live, Reading
<1> QED
  BY <1>1, <1>2, <1>3, <1>4, <1>5 DEF Next, Thread, Server

\* A batch that did not change, and buffers that did not either, are as well known as
\* before.
LEMMA SameKnown ==
  ASSUME BatchKnown, UNCHANGED <<ring, batch>> \/ (ring' = ring /\ pc' \in {"paused", "stopped"}),
         pc \in {"paused", "stopped"} => pc' \in {"paused", "stopped"},
         \A i \in Slots : Live(i)' => Live(i)
  PROVE  BatchKnown'
<1> SUFFICES ASSUME NEW i \in Slots, NEW c \in Cells, Live(i)', ring'[i].packets[c] = "batched"
             PROVE  /\ ring'[i].pending
                    /\ pc' \notin {"paused", "stopped"} => At(i, c)' \in Entries'
  BY DEF BatchKnown
<1>1. ring' = ring /\ Live(i)
  OBVIOUS
<1>2. ring[i].pending /\ (pc \notin {"paused", "stopped"} => At(i, c) \in Entries)
  BY <1>1 DEF BatchKnown
<1> QED
  BY <1>1, <1>2 DEF At, Entries

\* No packet of a buffer that matters is left over by decryptBatch.
LEMMA DecryptedKnown ==
  ASSUME TypeOK, RingInOrder, BatchKnown, pc = "batch", NEW g \in BOOLEAN,
         NEW i \in Slots, NEW c \in Cells, Live(i)
  PROVE  Decrypted(i, c, g) # "batched"
<1>1. ring[i].full
  BY DEF Live, RingInOrder
<1>2. CASE ring[i].packets[c] = "batched"
  <2>1. At(i, c) \in Entries
    BY <1>2 DEF BatchKnown
  <2>2. PICK n \in 1..Len(batch) : batch[n] = At(i, c)
    BY <2>1 DEF Entries
  <2>3. batch[n].slot = i /\ batch[n].cell = c
    BY <2>2 DEF At
  <2> QED
    BY <1>1, <2>3 DEF Decrypted
<1>3. CASE ring[i].packets[c] # "batched"
  BY <1>3 DEF Decrypted
<1> QED
  BY <1>2, <1>3

LEMMA NextKnown == TypeOK /\ RingInOrder /\ BatchKnown /\ [Next]_vars => BatchKnown'
<1> SUFFICES ASSUME TypeOK, RingInOrder, BatchKnown, [Next]_vars PROVE BatchKnown'
  OBVIOUS
<1>a. \A i \in Slots : Live(i)' =>
        /\ Live(i) \/ (Read /\ i = w)
        /\ Advance => i # w'
        /\ Send /\ Ready(ring[r]) => i # r
        /\ ~Restart
  BY LiveFacts
<1>b. NextPacket => pc' \in {"packet", "advance"}
  BY DEF NextPacket
<1>1. CASE Read
  <2>1. PICK p \in [Cells -> {"clear", "even", "odd"}] :
          ring' = [ring EXCEPT ![w] =
                     [no |-> read + 1, full |-> TRUE, pending |-> FALSE, packets |-> p]]
    BY <1>1, ReadFills
  <2>2. /\ \A c \in Cells : ring'[w].packets[c] # "batched"
        /\ \A i \in Slots : i # w => ring'[i] = ring[i]
    BY <2>1 DEF TypeOK
  <2>3. batch' = batch /\ pc = "loop"
    BY <1>1 DEF Read, decryptVars
  <2>4. ASSUME NEW i \in Slots, NEW c \in Cells, Live(i)', ring'[i].packets[c] = "batched"
        PROVE  ring'[i].pending /\ At(i, c)' \in Entries'
    <3>1. i # w /\ Live(i) /\ ring'[i] = ring[i]
      BY <1>a, <2>2, <2>4
    <3>2. ring[i].pending /\ At(i, c) \in Entries
      BY <2>3, <2>4, <3>1 DEF BatchKnown
    <3> QED
      BY <2>3, <3>1, <3>2 DEF At, Entries
  <2> QED
    BY <2>4 DEF BatchKnown
<1>2. CASE NoData \/ Pass \/ Take \/ Send \/ Pause \/ StopDecrypt \/ Oscam \/ UNCHANGED vars
  <2>1. ~Read
    <3>1. CASE Oscam \/ UNCHANGED vars
      BY <3>1 DEF Oscam, Connect, Disconnect, SetKey, vars, Read
    <3> QED
      BY <1>2, <1>b, <3>1 DEF NoData, Pass, Take, Send, Pause, StopDecrypt, Read
  <2>2. \A i \in Slots : Live(i)' => Live(i)
    BY <1>a, <2>1
  <2>3. /\ ring' = ring
        /\ batch' = batch \/ pc' \in {"paused", "stopped"}
        /\ pc \in {"paused", "stopped"} => pc' \in {"paused", "stopped"}
    <3>1. CASE NoData \/ Pass \/ Take
      BY <3>1 DEF NoData, Pass, Take, ringVars, decryptVars
    <3>2. CASE Send \/ Pause \/ StopDecrypt
      BY <3>2 DEF Send, Pause, StopDecrypt, ringVars, decryptVars
    <3>3. CASE Oscam \/ UNCHANGED vars
      BY <3>3 DEF Oscam, Connect, Disconnect, SetKey, vars, ringVars, decryptVars
    <3> QED
      BY <1>2, <3>1, <3>2, <3>3
  <2> QED
    BY <2>2, <2>3, SameKnown
<1>3. CASE DecryptBatch
  <2>1. PICK g \in {FALSE, keyFreed} :
          ring' = [i \in Slots |->
            [ring[i] EXCEPT !.packets = [c \in Cells |-> Decrypted(i, c, g)]]]
    BY <1>3 DEF DecryptBatch
  <2>2. pc = "batch" /\ g \in BOOLEAN
    BY <1>3 DEF DecryptBatch, TypeOK
  <2>3. ASSUME NEW i \in Slots, NEW c \in Cells, Live(i)' PROVE ring'[i].packets[c] # "batched"
    <3>1. Live(i)
      BY <1>3, <1>a, <2>3 DEF DecryptBatch, Read
    <3>2. ring'[i].packets[c] = Decrypted(i, c, g)
      BY <2>1 DEF TypeOK, Buffer
    <3> QED
      BY <2>2, <3>1, <3>2, DecryptedKnown
  <2> QED
    BY <2>3 DEF BatchKnown
<1>4. CASE Add
  <2>1. /\ pc = "add" /\ w' = w /\ pc' \in {"packet", "advance"}
        /\ \A i \in Slots : Live(i)' => Live(i)
    BY <1>4, <1>a, <1>b DEF Add, Read
  <2> SUFFICES ASSUME NEW i \in Slots, NEW c \in Cells, Live(i), ring'[i].packets[c] = "batched"
               PROVE  ring'[i].pending /\ At(i, c)' \in Entries'
    BY <2>1 DEF BatchKnown
  <2>2. ring[i].packets[c] = "batched" => ring[i].pending /\ At(i, c) \in Entries
    BY <2>1 DEF BatchKnown
  <2>3. ring[w] \in Buffer /\ w \in Slots
    BY DEF TypeOK
  <2>4. CASE newParity \in keys
    <3>1. batch' = Append(batch, At(w, cell)) /\ ring' = [ring EXCEPT ![w] = Marked(ring[w], cell)]
      BY <1>4, <2>4 DEF Add
    <3>2. Entries' = Entries \cup {At(w, cell)}
      BY <3>1 DEF Entries, TypeOK
    <3>3. At(i, c)' = At(i, c)
      BY <2>3, <3>1, MarkedOrder DEF At, TypeOK
    <3>4. CASE i = w
      BY <2>2, <2>3, <3>1, <3>2, <3>3, <3>4 DEF Marked, Buffer, TypeOK
    <3>5. CASE i # w
      BY <2>2, <3>1, <3>2, <3>3, <3>5 DEF TypeOK
    <3> QED
      BY <3>4, <3>5
  <2>5. CASE newParity \notin keys
    <3>1. batch' = batch /\ ring' = [ring EXCEPT ![w] = Nulled(ring[w], cell)]
      BY <1>4, <2>5 DEF Add, decryptVars
    <3>2. Entries' = Entries /\ At(i, c)' = At(i, c)
      BY <2>3, <3>1, MarkedOrder DEF Entries, At, TypeOK
    <3>3. CASE i = w
      BY <2>2, <2>3, <3>1, <3>2, <3>3 DEF Nulled, Buffer, TypeOK
    <3>4. CASE i # w
      BY <2>2, <3>1, <3>2, <3>4 DEF TypeOK
    <3> QED
      BY <3>3, <3>4
  <2> QED
    BY <2>4, <2>5
<1>5. CASE Advance
  <2>1. pc = "advance" /\ batch' = batch /\ ring' = [ring EXCEPT ![w'] = Empty]
    BY <1>5 DEF Advance, decryptVars
  <2>2. ASSUME NEW i \in Slots, NEW c \in Cells, Live(i)', ring'[i].packets[c] = "batched"
        PROVE  ring'[i].pending /\ At(i, c)' \in Entries'
    <3>1. Live(i) /\ i # w' /\ ring'[i] = ring[i]
      BY <1>5, <1>a, <2>1, <2>2 DEF Read, TypeOK
    <3>2. ring[i].pending /\ At(i, c) \in Entries
      BY <2>1, <2>2, <3>1 DEF BatchKnown
    <3> QED
      BY <2>1, <3>1, <3>2 DEF At, Entries
  <2> QED
    BY <2>2 DEF BatchKnown
<1>6. CASE Restart
  BY <1>6, <1>a DEF BatchKnown
<1> QED
  BY <1>1, <1>2, <1>3, <1>4, <1>5, <1>6 DEF Next, Thread, Server

-----------------------------------------------------------------------------
(* The batch, as long as nothing goes wrong *)

\* What mattered still does, but the buffer that was sent, and all when the ring is full
\* or starts again.
LEMMA LiveKept ==
  ASSUME TypeOK, RingInOrder, [Next]_vars, ~Restart, Undisturbed', Undisturbed,
         NEW i \in Slots, Live(i), Send /\ Ready(ring[r]) => i # r
  PROVE  Live(i)'
<1> USE RingAssumption
<1>a. NextPacket => pc' \in {"packet", "advance"}
  BY DEF NextPacket
<1>1. CASE Advance
  <2>1. /\ w' = Succ(w) /\ r' = r /\ lapped = 0 /\ lapped' = 0
        /\ lapped' = IF w' = r THEN lapped + N ELSE lapped
    BY <1>1 DEF Advance, Undisturbed
  <2>2. w' # r
    BY <2>1
  <2>3. w' \in Slots /\ Place(w') = Place(w) + 1
    BY <2>1, <2>2, AdvancePlace DEF TypeOK
  <2>4. \A j \in Slots : Place(j)' = Place(j)
    BY <2>1 DEF Place
  <2>5. Depth' = Depth + 1
    <3>1. Depth' = Place(w')
      BY <2>1 DEF Depth, Place
    <3> QED
      BY <2>3, <3>1 DEF Depth
  <2>6. Place(i) < Depth \/ Place(i) = Depth
    BY CounterType DEF Live, Waits
  <2> QED
    BY <2>4, <2>5, <2>6, CounterType DEF Live, Waits
<1>2. CASE Send
  <2>1. pc = "send" /\ w' = w
    BY <1>2 DEF Send
  <2>2. Waits(i)
    BY <2>1 DEF Live, Reading
  <2>3. CASE Ready(ring[r])
    <3>1. r' = Succ(r) /\ i # r
      BY <1>2, <2>3 DEF Send
    <3>2. Place(i)' = Place(i) - 1
      BY <3>1, SendPlace DEF TypeOK
    <3>3. Depth' = Depth - 1
      BY <1>2, <2>3, SentPlace
    <3> QED
      BY <2>2, <3>2, <3>3, CounterType DEF Live, Waits
  <2>4. CASE ~Ready(ring[r])
    <3>1. r' = r
      BY <1>2, <2>4 DEF Send
    <3> QED
      BY <2>1, <2>2, <3>1 DEF Live, Waits, Depth, Place
  <2> QED
    BY <2>3, <2>4
<1>3. CASE ~Advance /\ ~Send
  <2>1. UNCHANGED <<w, r>> /\ (Reading => Reading')
    <3>1. CASE Read \/ NoData \/ Pause \/ StopDecrypt
      BY <3>1 DEF Read, NoData, Pause, StopDecrypt, Reading, ringVars
    <3>2. CASE Pass \/ Take \/ DecryptBatch \/ Add
      BY <3>2, <1>a DEF Pass, Take, DecryptBatch, Add, Reading, ringVars
    <3>3. CASE Oscam \/ UNCHANGED vars
      BY <3>3 DEF Oscam, Connect, Disconnect, SetKey, Reading, ringVars, vars
    <3> QED
      BY <1>3, <3>1, <3>2, <3>3 DEF Next, Thread, Server
  <2>2. Waits(i)' <=> Waits(i)
    BY <2>1 DEF Waits, Depth, Place
  <2> QED
    BY <2>1, <2>2 DEF Live
<1> QED
  BY <1>1, <1>2, <1>3

\* An undisturbed stream was so before.
LEMMA WasUndisturbed ==
  ASSUME TypeOK, [Next]_vars, Undisturbed'
  PROVE  Undisturbed
<1>1. CASE Advance
  <2>1. lapped' = IF w' = r THEN lapped + N ELSE lapped
    BY <1>1 DEF Advance
  <2>2. lapped' = 0 => lapped = 0
    BY <2>1, RingAssumption DEF TypeOK
  <2>3. unstopped' = unstopped
    BY <1>1 DEF Advance
  <2> QED
    BY <2>2, <2>3 DEF Undisturbed
<1>2. CASE StopDecrypt
  <2>1. lapped' = lapped
    BY <1>2 DEF StopDecrypt
  <2>2. unstopped' = unstopped \/ unstopped' = TRUE
    BY <1>2, Zenon DEF StopDecrypt
  <2> QED
    <3>1. lapped = 0 /\ ~unstopped'
      BY <2>1 DEF Undisturbed
    <3>2. ~unstopped
      BY <2>2, <3>1
    <3> QED
      BY <3>1, <3>2, Zenon DEF Undisturbed
<1>3. CASE ~Advance /\ ~StopDecrypt
  <2>1. UNCHANGED <<lapped, unstopped>>
    BY <1>3 DEF Next, Thread, Server, Read, NoData, Pass, Take, DecryptBatch, Add, Send, Pause,
       Restart, Oscam, Connect, Disconnect, SetKey, vars, historyVars
  <2> QED
    BY <2>1 DEF Undisturbed
<1> QED
  BY <1>1, <1>2, <1>3

\* With an exact batch, decryptBatch damages nothing, and leaves alone what is not in it.
LEMMA DecryptedExact ==
  ASSUME TypeOK, Undisturbed, BatchExact, NEW g \in BOOLEAN,
         NEW i \in Slots, NEW c \in Cells, Live(i)
  PROVE  /\ Decrypted(i, c, g) # "damaged"
         /\ (pc = "batch" /\ i = w /\ c = cell) => Decrypted(i, c, g) = ring[i].packets[c]
<1> DEFINE hits == {n \in 1..Len(batch) : batch[n].slot = i /\ batch[n].cell = c}
<1>1. ring[i].packets[c] # "damaged"
  BY DEF BatchExact, NoneDamaged
<1>2. CASE hits = {}
  BY <1>1, <1>2 DEF Decrypted
<1>3. CASE hits # {}
  <2>1. PICK n \in 1..Len(batch) : batch[n].slot = i /\ batch[n].cell = c
    BY <1>3
  <2>2. EntryExact(batch[n])
    BY DEF BatchExact
  <2>3. hits = {n}
    BY <2>1 DEF BatchExact, BatchDistinct
  <2>4. Current(batch[n]) /\ ring[i].packets[c] = "batched"
    BY <2>1, <2>2 DEF EntryExact
  <2>5. ~(pc = "batch" /\ i = w /\ c = cell)
    BY <2>1, <2>2 DEF EntryExact, TypeOK, Cells
  <2>6. Decrypted(i, c, g) \in {"batched", "decrypted", "garbled"}
    BY <2>3, <2>4 DEF Decrypted
  <2> QED
    BY <2>5, <2>6
<1> QED
  BY <1>2, <1>3

\* The entries of a batch that did not change stay exact where their packets do.
LEMMA SameExact ==
  ASSUME TypeOK, RingInOrder, BatchKnown, BatchExact, [Next]_vars, ~Restart,
         Undisturbed, Undisturbed', batch' = batch,
         \A i \in Slots : \A c \in Cells :
           Live(i) /\ Live(i)' /\ ring[i].packets[c] = "batched" =>
             ring'[i].no = ring[i].no /\ ring'[i].packets[c] = "batched",
         pc' \in {"packet", "batch", "add"} => w' = w /\ (pc = "loop" \/ cell <= cell')
                                            /\ pc \notin {"advance", "send"}
  PROVE  (\A n \in 1..Len(batch) : EntryExact(batch[n])') /\ BatchDistinct'
<1>1. BatchDistinct'
  BY DEF BatchExact, BatchDistinct
<1>2. ASSUME NEW n \in 1..Len(batch) PROVE EntryExact(batch[n])'
  <2> DEFINE e == batch[n]
  <2>1. e \in Entry /\ e.slot \in Slots /\ e.cell \in Cells
    <3>1. e \in Entry
      BY DEF TypeOK
    <3> QED
      BY <3>1 DEF Entry
  <2>2. EntryExact(e)
    BY DEF BatchExact
  <2>3. ring[e.slot].pending /\ ring[e.slot].packets[e.cell] = "batched"
    BY <2>1, <2>2 DEF EntryExact, BatchKnown
  <2>4. ~Ready(ring[e.slot])
    BY <2>1, <2>3 DEF Ready, Scrambled
  <2>5. Live(e.slot)'
    <3>1. Send /\ Ready(ring[r]) => e.slot # r
      BY <2>4
    <3> QED
      BY <2>1, <2>2, <3>1, LiveKept DEF EntryExact
  <2>6. ring'[e.slot].no = ring[e.slot].no /\ ring'[e.slot].packets[e.cell] = "batched"
    BY <2>1, <2>2, <2>3, <2>5 DEF EntryExact
  <2>7. pc' \in {"packet", "batch", "add"} /\ e.slot = w' => e.cell < cell'
    <3> SUFFICES ASSUME pc' \in {"packet", "batch", "add"}, e.slot = w' PROVE e.cell < cell'
      OBVIOUS
    <3>1. w' = w /\ pc \notin {"advance", "send"} /\ (pc = "loop" \/ cell <= cell')
      OBVIOUS
    <3>2. pc # "loop"
      <4>1. pc = "loop" => ~Live(w)
        BY CounterType DEF Live, Reading, Waits, TypeOK
      <4> QED
        BY <2>2, <3>1, <4>1 DEF EntryExact
    <3>3. pc \notin {"paused", "stopped"}
      <4>1. pc \in {"paused", "stopped"} => ~Live(w)
        BY CounterType DEF Live, Reading, Waits, TypeOK
      <4> QED
        BY <2>2, <3>1, <4>1 DEF EntryExact
    <3>4. e.cell < cell /\ cell <= cell'
      BY <2>2, <3>1, <3>2, <3>3 DEF EntryExact, TypeOK
    <3>5. cell' \in Cells
      BY NextType DEF TypeOK
    <3> QED
      BY <2>1, <3>4, <3>5, RingAssumption DEF TypeOK, Cells
  <2> QED
    BY <2>2, <2>5, <2>6, <2>7 DEF EntryExact, Current
<1> QED
  BY <1>1, <1>2

\* No buffer that matters is damaged by a step that damages none of its packets.
LEMMA SameUndamaged ==
  ASSUME TypeOK, RingInOrder, BatchExact, [Next]_vars, Undisturbed, ~Read,
         \A i \in Slots : \A c \in Cells :
           Live(i) /\ Live(i)' /\ ring[i].packets[c] # "damaged" => ring'[i].packets[c] # "damaged"
  PROVE  NoneDamaged'
<1> SUFFICES ASSUME NEW i \in Slots, NEW c \in Cells, Live(i)'
             PROVE  ring'[i].packets[c] # "damaged"
  BY DEF NoneDamaged
<1>1. Live(i)
  BY LiveFacts
<1> QED
  BY <1>1 DEF BatchExact, NoneDamaged

LEMMA NextExact ==
  TypeOK /\ RingInOrder /\ BatchKnown /\ BatchExact /\ [Next]_vars => BatchExact'
<1> SUFFICES ASSUME TypeOK, RingInOrder, BatchKnown, BatchExact, [Next]_vars, Undisturbed'
             PROVE  /\ (\A n \in 1..Len(batch) : EntryExact(batch[n]))'
                    /\ BatchDistinct'
                    /\ NoneDamaged'
                    /\ pc' \in {"batch", "add"} => ring'[w'].packets[cell'] \in Parities
                    /\ pc' = "stopped" => batch' = <<>>
  BY DEF BatchExact
<1>u. Undisturbed
  BY WasUndisturbed
<1>a. NextPacket =>
        (pc' = "packet" /\ cell < cell' /\ cell <= cell') \/ pc' = "advance"
  BY DEF NextPacket, TypeOK, Cells
<1>1. CASE Read
  <2>1. PICK p \in [Cells -> {"clear", "even", "odd"}] :
          ring' = [ring EXCEPT ![w] =
                     [no |-> read + 1, full |-> TRUE, pending |-> FALSE, packets |-> p]]
    BY <1>1, ReadFills
  <2>2. /\ \A c \in Cells : ring'[w].packets[c] # "damaged"
        /\ \A i \in Slots : i # w => ring'[i] = ring[i]
    BY <2>1 DEF TypeOK
  <2>3. batch' = batch /\ pc = "loop" /\ pc' \in {"packet", "advance"} /\ w' = w /\ r' = r
    BY <1>1 DEF Read, decryptVars
  <2>4. ~Live(w)
    BY <2>3, CounterType DEF Live, Reading, Waits, TypeOK
  <2>5. NoneDamaged'
    <3> SUFFICES ASSUME NEW i \in Slots, NEW c \in Cells, Live(i)'
                 PROVE  ring'[i].packets[c] # "damaged"
      BY DEF NoneDamaged
    <3>1. Live(i) \/ i = w
      BY LiveFacts
    <3> QED
      BY <1>u, <2>2, <3>1 DEF BatchExact, NoneDamaged
  <2>6. ~Restart
    BY <2>3 DEF Restart
  <2>7. (\A n \in 1..Len(batch) : EntryExact(batch[n])') /\ BatchDistinct'
    BY <1>u, <2>2, <2>3, <2>4, <2>6, SameExact
  <2> QED
    BY <2>3, <2>5, <2>7
<1>2. CASE NoData \/ Pass \/ Take \/ Send \/ Pause \/ Oscam \/ UNCHANGED vars
  <2>1. ring' = ring /\ batch' = batch /\ ~Read /\ ~Restart
    <3>1. CASE NoData \/ Take \/ Send \/ Pause
      BY <3>1 DEF NoData, Take, Send, Pause, Read, Restart, ringVars, decryptVars
    <3>2. CASE Pass
      BY <3>2 DEF Pass, Read, Restart, ringVars, decryptVars
    <3>3. CASE Oscam \/ UNCHANGED vars
      BY <3>3 DEF Oscam, Connect, Disconnect, SetKey, vars, Read, Restart, ringVars, decryptVars
    <3> QED
      BY <1>2, <3>1, <3>2, <3>3
  <2>2. /\ pc' \in {"packet", "batch", "add"} =>
              w' = w /\ (pc = "loop" \/ cell <= cell') /\ pc \notin {"advance", "send"}
        /\ pc' \in {"batch", "add"} => ring'[w'].packets[cell'] \in Parities
        /\ pc' = "stopped" => batch' = <<>>
    <3>1. CASE NoData \/ Send \/ Pause
      BY <3>1 DEF NoData, Send, Pause
    <3>2. CASE Pass
      BY <1>a, <3>2 DEF Pass, ringVars
    <3>3. CASE Take
      BY <2>1, <3>3 DEF Take, ringVars, TypeOK, Cells
    <3>4. CASE Oscam \/ UNCHANGED vars
      <4>1. UNCHANGED <<w, pc, cell>>
        BY <3>4 DEF Oscam, Connect, Disconnect, SetKey, vars, ringVars
      <4>2. cell <= cell'
        BY <4>1 DEF TypeOK, Cells
      <4>3. pc \in {"advance", "send"} => pc' \notin {"packet", "batch", "add"}
        BY <4>1
      <4> QED
        BY <1>u, <2>1, <4>1, <4>2, <4>3 DEF BatchExact
    <3> QED
      BY <1>2, <3>1, <3>2, <3>3, <3>4
  <2>3. NoneDamaged'
    BY <1>u, <2>1, SameUndamaged
  <2>4. (\A n \in 1..Len(batch) : EntryExact(batch[n])') /\ BatchDistinct'
    BY <1>u, <2>1, <2>2, SameExact
  <2> QED
    BY <2>1, <2>2, <2>3, <2>4
<1>3. CASE DecryptBatch
  <2>1. PICK g \in {FALSE, keyFreed} :
          ring' = [i \in Slots |->
            [ring[i] EXCEPT !.packets = [c \in Cells |-> Decrypted(i, c, g)]]]
    BY <1>3 DEF DecryptBatch
  <2>2. g \in BOOLEAN /\ pc = "batch" /\ pc' = "add" /\ batch' = <<>> /\ w' = w /\ cell' = cell /\ ~Read
    BY <1>3 DEF DecryptBatch, TypeOK, Read
  <2>3. \A i \in Slots : \A c \in Cells : ring'[i].packets[c] = Decrypted(i, c, g)
    BY <2>1 DEF TypeOK, Buffer
  <2>4. NoneDamaged'
    BY <1>u, <2>2, <2>3, DecryptedExact, SameUndamaged
  <2>5. ring'[w'].packets[cell'] \in Parities
    <3>1. Live(w) /\ w \in Slots /\ cell \in Cells
      BY <2>2 DEF Live, Reading, TypeOK
    <3>2. ring[w].packets[cell] \in Parities
      BY <1>u, <2>2 DEF BatchExact
    <3> QED
      BY <1>u, <2>2, <2>3, <3>1, <3>2, DecryptedExact
  <2> QED
    BY <2>2, <2>4, <2>5 DEF BatchDistinct
<1>4. CASE Advance
  <2>1. /\ pc' = "send" /\ batch' = batch /\ ring' = [ring EXCEPT ![w'] = Empty] /\ pc = "advance"
        /\ ~Read /\ ~Restart
    BY <1>4 DEF Advance, Read, Restart, decryptVars
  <2>2. \A i \in Slots : Live(i)' => ring'[i] = ring[i]
    BY <1>4, <2>1, LiveFacts DEF TypeOK
  <2>3. NoneDamaged'
    BY <1>u, <2>1, <2>2, SameUndamaged
  <2>4. (\A n \in 1..Len(batch) : EntryExact(batch[n])') /\ BatchDistinct'
    BY <1>u, <2>1, <2>2, SameExact
  <2> QED
    BY <2>1, <2>3, <2>4
<1>5. CASE StopDecrypt
  <2>1. /\ pc = "paused" /\ pc' = "stopped" /\ ring' = ring /\ ~Read
        /\ UNCHANGED <<w, r>>
    BY <1>5 DEF StopDecrypt, Read, ringVars
  <2>2. ~unstopped'
    BY DEF Undisturbed
  <2>3. batch' = <<>>
    BY <1>5, <2>2, Zenon DEF StopDecrypt
  <2>4. NoneDamaged'
    BY <1>u, <2>1, SameUndamaged
  <2> QED
    BY <2>1, <2>3, <2>4 DEF BatchDistinct
<1>6. CASE Restart
  <2>1. pc = "stopped" /\ pc' = "loop" /\ batch' = batch
    BY <1>6 DEF Restart, decryptVars
  <2>2. batch' = <<>>
    BY <1>u, <2>1 DEF BatchExact
  <2>3. NoneDamaged'
    BY <1>6, LiveFacts DEF NoneDamaged
  <2> QED
    BY <2>1, <2>2, <2>3 DEF BatchDistinct
<1>7. CASE Add
  <2>1. /\ pc = "add" /\ w' = w /\ ~Read /\ ~Restart /\ ~Send
        /\ (pc' = "packet" /\ cell < cell' /\ cell <= cell') \/ pc' = "advance"
    BY <1>7, <1>a DEF Add, Read, Restart, Send
  <2>2. /\ Live(w) /\ w \in Slots /\ cell \in Cells /\ ring[w] \in Buffer
        /\ ring[w].packets \in [Cells -> Packet]
    BY <2>1 DEF Live, Reading, TypeOK, Buffer
  <2>3. ring[w].packets[cell] \in Parities
    BY <1>u, <2>1 DEF BatchExact
  <2>4. CASE newParity \in keys
    <3>1. batch' = Append(batch, At(w, cell)) /\ ring' = [ring EXCEPT ![w] = Marked(ring[w], cell)]
      BY <1>7, <2>4 DEF Add
    <3>2. /\ \A i \in Slots : ring'[i].no = ring[i].no /\ (i # w => ring'[i] = ring[i])
          /\ \A c \in Cells : c # cell => ring'[w].packets[c] = ring[w].packets[c]
          /\ ring'[w].packets[cell] = "batched"
      BY <2>2, <2>3, <3>1, MarkedOrder DEF Marked, Buffer, TypeOK, Scrambled, Parities
    <3>3. NoneDamaged'
      BY <1>u, <2>1, <3>2, SameUndamaged
    <3>4. /\ Len(batch') = Len(batch) + 1 /\ Len(batch) \in Nat
          /\ \A n \in 1..Len(batch) : batch'[n] = batch[n]
          /\ batch'[Len(batch) + 1] = At(w, cell)
      BY <3>1 DEF TypeOK
    <3>5. ASSUME NEW n \in 1..Len(batch)
          PROVE  /\ EntryExact(batch[n])' /\ batch'[n] = batch[n]
                 /\ batch[n].slot # w \/ batch[n].cell # cell
      <4> DEFINE e == batch[n]
      <4>1. e.slot \in Slots /\ e.cell \in Cells
        <5>1. e \in Entry
          BY DEF TypeOK
        <5> QED
          BY <5>1 DEF Entry
      <4>2. EntryExact(e)
        BY <1>u DEF BatchExact
      <4>3. e.slot = w => e.cell < cell
        BY <2>1, <4>2 DEF EntryExact
      <4>4. e.slot # w \/ e.cell # cell
        BY <2>2, <4>1, <4>3 DEF Cells
      <4>5. Live(e.slot)'
        <5>1. PICK i \in Slots : i = e.slot
          BY <4>1
        <5>2. Live(i)
          BY <4>2, <5>1 DEF EntryExact
        <5>3. Live(i)'
          BY <1>u, <2>1, <5>2, LiveKept
        <5>4. e'.slot = i
          BY <3>4, <5>1
        <5> QED
          BY <5>3, <5>4
      <4>6. ring'[e.slot].no = ring[e.slot].no /\ ring'[e.slot].packets[e.cell] = "batched"
        BY <3>2, <4>1, <4>2, <4>4 DEF EntryExact
      <4>7. pc' \in {"packet", "batch", "add"} /\ e.slot = w' => e.cell < cell'
        <5>1. cell' \in Cells
          BY NextType DEF TypeOK
        <5> QED
          BY <2>1, <2>2, <4>1, <4>3, <5>1, RingAssumption DEF Cells
      <4>8. e' = e
        BY <3>4
      <4>9. Current(e)
        BY <4>2 DEF EntryExact
      <4> QED
        BY <4>4, <4>5, <4>6, <4>7, <4>8, <4>9, <3>4 DEF EntryExact, Current
    <3>6. ASSUME NEW n, n = Len(batch) + 1 PROVE EntryExact(batch[n])'
      <4>1. batch'[n] = At(w, cell)
        BY <3>4, <3>6
      <4>2. batch'[n].slot = w /\ batch'[n].cell = cell /\ batch'[n].no = ring[w].no
        BY <4>1 DEF At
      <4>3. Live(w)'
        <5>1. PICK i \in Slots : i = w
          BY <2>2
        <5>2. Live(i)'
          BY <1>u, <2>1, <2>2, <5>1, LiveKept
        <5> QED
          BY <2>1, <5>1, <5>2
      <4>4. Live(batch[n].slot)'
        BY <2>1, <4>2, <4>3
      <4>5. ring'[w].no = ring[w].no /\ ring'[w].packets[cell] = "batched"
        BY <2>2, <3>2
      <4>6. pc' \in {"packet", "batch", "add"} => cell < cell'
        BY <2>1
      <4> QED
        BY <4>2, <4>4, <4>5, <4>6 DEF EntryExact, Current
    <3>7. (\A n \in 1..Len(batch) : EntryExact(batch[n]))'
      <4> SUFFICES ASSUME NEW n \in 1..Len(batch') PROVE EntryExact(batch[n])'
        OBVIOUS
      <4>1. n \in 1..Len(batch) \/ n = Len(batch) + 1
        BY <3>4
      <4> QED
        BY <3>5, <3>6, <4>1
    <3>8. BatchDistinct'
      BY <1>u, <3>4, <3>5 DEF BatchDistinct, BatchExact, At
    <3> QED
      BY <2>1, <3>3, <3>7, <3>8
  <2>5. CASE newParity \notin keys
    <3>1. batch' = batch /\ ring' = [ring EXCEPT ![w] = Nulled(ring[w], cell)]
      BY <1>7, <2>5 DEF Add, decryptVars
    <3>2. /\ \A i \in Slots : ring'[i].no = ring[i].no /\ (i # w => ring'[i] = ring[i])
          /\ \A c \in Cells : c # cell => ring'[w].packets[c] = ring[w].packets[c]
          /\ ring'[w].packets[cell] = "null"
      BY <2>2, <3>1, MarkedOrder DEF Nulled, Buffer, TypeOK
    <3>3. NoneDamaged'
      BY <1>u, <2>1, <3>2, SameUndamaged
    <3>4. (\A n \in 1..Len(batch) : EntryExact(batch[n])') /\ BatchDistinct'
      BY <1>u, <2>1, <2>3, <3>1, <3>2, SameExact DEF Parities
    <3> QED
      BY <2>1, <3>1, <3>3, <3>4
  <2> QED
    BY <2>4, <2>5
<1> QED
  BY <1>1, <1>2, <1>3, <1>4, <1>5, <1>6, <1>7 DEF Next, Thread, Server

-----------------------------------------------------------------------------
(* The theorems *)

LEMMA InitInv == Init => IInv
<1> SUFFICES ASSUME Init PROVE IInv
  OBVIOUS
<1>1. /\ batch = <<>> /\ pc = "loop" /\ r = 0 /\ w = 0
      /\ \A i \in Slots : \A c \in Cells : ring[i].packets[c] = "clear"
  BY DEF Init, Empty
<1>2. BatchFits /\ BatchKnown /\ BatchExact
  BY <1>1 DEF BatchFits, BatchHasKey, BatchKnown, BatchExact, BatchDistinct, NoneDamaged
<1> QED
  BY <1>2, InitType, InitOrder DEF IInv

\* The inductive invariant of the ring and the batch (all of PacketRing).
THEOREM Invariance == Spec => []IInv
<1>1. IInv /\ [Next]_vars => IInv'
  BY NextType, NextOrder, NextFits, NextKnown, NextExact DEF IInv
<1> QED
  BY InitInv, <1>1, PTL DEF Spec

\* The batch never overflows, and there is a key for it whenever it is decrypted: its
\* terminator is always written (ClientProperties::decryptBatch).
THEOREM BatchAlwaysHasKey == Spec => []BatchHasKey
<1>1. IInv => BatchHasKey
  BY DEF IInv, BatchFits
<1> QED
  BY Invariance, <1>1, PTL

\* No packet that waits to be decrypted is forgotten by the batch, even when OSCam goes
\* away, the ring overflows or a session is not stopped (Client::decrypt).
THEOREM NeverOrphan == Spec => []NoOrphan
<1>1. IInv => NoOrphan
  BY DEF IInv, BatchKnown, NoOrphan, Live
<1> QED
  BY Invariance, <1>1, PTL

\* The ring is only full behind a packet that waits to be decrypted
\* (StreamThreadBase::readDataFromInputDevice).
THEOREM OnlyFullWhenStuck == Spec => []FullMeansStuck
<1>1. IInv => FullMeansStuck
  BY DEF IInv
<1> QED
  BY Invariance, <1>1, PTL

\* As long as the ring never overflowed and each session was stopped, the batch points at
\* the packets that were put in it.
THEOREM BatchAlwaysCurrent == Spec => []BatchCurrent
<1>1. IInv => BatchCurrent
  <2> SUFFICES ASSUME IInv, Undisturbed, NEW e \in Entries
               PROVE  Current(e) /\ ring[e.slot].packets[e.cell] = "batched"
    BY DEF BatchCurrent
  <2>1. PICK n \in 1..Len(batch) : e = batch[n]
    BY DEF Entries
  <2> QED
    BY <2>1 DEF IInv, BatchExact, EntryExact
<1> QED
  BY Invariance, <1>1, PTL

\* Only Send sends, and only what is ready.
LEMMA SentBySend ==
  ASSUME [Next]_vars, sent' # sent
  PROVE  Send /\ Ready(ring[r])
<1>1. CASE Send
  BY <1>1 DEF Send
<1>2. CASE ~Send
  BY <1>2 DEF Next, Thread, Server, Oscam, Read, NoData, Pass, Take, DecryptBatch, Add, Advance,
     Pause, StopDecrypt, Restart, Connect, Disconnect, SetKey, vars, historyVars
<1> QED
  BY <1>1, <1>2

\* Buffers are sent in the order they were read, each once, none before its packets are
\* decrypted; and while nothing went wrong, none with a packet that another one's
\* decryption spoilt (StreamThreadBase::readDataFromInputDevice, Client::decrypt).
THEOREM AlwaysSentDecrypted == Spec => SentDecrypted
<1> DEFINE Good ==
      sent' # sent =>
       /\ ring[r].no = Passed + 1
       /\ \A c \in Cells : ring[r].packets[c] # "batched"
       /\ Undisturbed => \A c \in Cells : ring[r].packets[c] # "damaged"
<1>1. IInv /\ [Next]_vars => [Good]_vars
  <2> SUFFICES ASSUME IInv, [Next]_vars, sent' # sent
               PROVE  /\ ring[r].no = Passed + 1
                      /\ \A c \in Cells : ring[r].packets[c] # "batched"
                      /\ Undisturbed => \A c \in Cells : ring[r].packets[c] # "damaged"
    OBVIOUS
  <2>1. TypeOK /\ RingInOrder /\ pc = "send" /\ Ready(ring[r])
    BY SentBySend DEF IInv, Send
  <2>2. r \in Slots /\ Waits(r) /\ Live(r) /\ Place(r) = 0
    BY <2>1, ReadyWaits, PlaceType, RingAssumption DEF TypeOK, Live
  <2>3. ring[r].no = Passed + 1
    BY <2>1, <2>2, CounterType DEF RingInOrder
  <2>4. \A c \in Cells : ring[r].packets[c] # "batched"
    BY <2>1, <2>2 DEF IInv, BatchKnown, Ready, Scrambled
  <2>5. Undisturbed => \A c \in Cells : ring[r].packets[c] # "damaged"
    BY <2>2 DEF IInv, BatchExact, NoneDamaged
  <2> QED
    BY <2>3, <2>4, <2>5
<1> QED
  BY Invariance, <1>1, PTL DEF Spec, SentDecrypted

-----------------------------------------------------------------------------
(* The ring implements the queue *)

\* What waits are the numbers from the one after those that passed.
QueuedInOrder == Queued = [k \in 1..Depth |-> Passed + k]

LEMMA QueuedNumbers == TypeOK /\ RingInOrder => QueuedInOrder
<1> USE RingAssumption
<1> SUFFICES ASSUME TypeOK, RingInOrder, NEW k \in 1..Depth
             PROVE  ring[IF r + k <= N THEN r + k - 1 ELSE r + k - 1 - N].no = Passed + k
  BY DEF Queued, QueuedInOrder
<1> DEFINE i == IF r + k <= N THEN r + k - 1 ELSE r + k - 1 - N
<1>1. Depth \in 0..N-1 /\ k \in 1..N-1 /\ r \in 0..N-1
  BY CounterType DEF TypeOK, Slots
<1>2. i \in Slots /\ Place(i) = k - 1
  BY <1>1 DEF Slots, Place
<1>3. Waits(i)
  BY <1>1, <1>2 DEF Waits
<1> HIDE DEF i
<1>4. ring[i].no = Passed + 1 + Place(i)
  BY <1>2, <1>3 DEF RingInOrder
<1>5. ring[i].no = Passed + k
  BY <1>1, <1>2, <1>4, CounterType
<1> QED
  BY <1>5 DEF i

LEMMA InitQueue == Init => Queue!Init
<1> SUFFICES ASSUME Init PROVE Queue!Init
  OBVIOUS
<1>1. Depth = 0 /\ read = 0
  BY DEF Init, Depth, Place
<1>2. Queued = <<>>
  BY <1>1 DEF Queued
<1> QED
  BY <1>1, <1>2 DEF Queue!Init

LEMMA NextQueue ==
  ASSUME TypeOK, RingInOrder, TypeOK', RingInOrder', [Next]_vars
  PROVE  [Queue!Next]_<<Queued, read + 1>>
<1> USE RingAssumption
<1>1. Queued = [k \in 1..Depth |-> Passed + k] /\ Queued' = [k \in 1..Depth' |-> Passed' + k]
  <2>1. QueuedInOrder /\ QueuedInOrder'
    BY QueuedNumbers, PTL
  <2> QED
    BY <2>1 DEF QueuedInOrder
<1>2. Depth \in 0..N-1 /\ Passed \in Nat /\ read \in Nat /\ read = Passed + Depth
  BY CounterType DEF TypeOK, RingInOrder
<1>3. CASE Advance
  <2>1. w' = Succ(w) /\ r' = r /\ read' = read + 1 /\ sent' = sent /\ dropped' = dropped
        /\ lapped' = IF w' = r THEN lapped + N ELSE lapped
    BY <1>3 DEF Advance
  <2>2. Depth' = Place(w')
    BY <2>1 DEF Depth, Place
  <2>3. CASE w' = r
    <3>1. Depth' = 0 /\ Depth = N - 1
      BY <2>1, <2>2, <2>3, AdvancePlace, PlaceType DEF TypeOK, Depth
    <3>2. Queued' = <<>> /\ ~(Len(Queued) < N - 1)
      BY <1>1, <1>2, <3>1
    <3> QED
      BY <2>1, <3>2 DEF Queue!Next, Queue!Put
  <2>4. CASE w' # r
    <3>1. Depth' = Depth + 1 /\ Passed' = Passed /\ Depth < N - 1
      <4>1. Depth' = Depth + 1 /\ Passed' = Passed
        BY <2>1, <2>2, <2>4, AdvancePlace DEF TypeOK, Depth, Passed
      <4>2. Depth' \in 0..N-1
        BY <2>1, <2>2, AdvancePlace, PlaceType DEF TypeOK
      <4> QED
        BY <1>2, <4>1, <4>2
    <3>2. Queued' = Append(Queued, read + 1)
      BY <1>1, <1>2, <3>1
    <3>3. Len(Queued) < N - 1
      BY <1>1, <1>2, <3>1
    <3> QED
      BY <2>1, <3>2, <3>3 DEF Queue!Next, Queue!Put
  <2> QED
    BY <2>3, <2>4
<1>4. CASE Send /\ Ready(ring[r])
  <2>1. read' = read /\ pc = "send"
    BY <1>4 DEF Send
  <2>2. Depth' = Depth - 1 /\ Passed' = Passed + 1 /\ Depth > 0
    BY <1>4, <2>1, SentPlace, ReadyWaits
  <2>3. /\ Queued \in Seq(Nat) /\ Len(Queued) = Depth
        /\ Queued' \in Seq(Nat) /\ Len(Queued') = Depth - 1
    BY <1>1, <1>2, <2>2
  <2>4. Queued # <<>>
    BY <1>2, <2>2, <2>3
  <2>5. /\ Tail(Queued) \in Seq(Nat) /\ Len(Tail(Queued)) = Depth - 1
        /\ \A k \in 1..Depth-1 : Tail(Queued)[k] = Queued[k + 1]
    BY <1>2, <2>2, <2>3, <2>4
  <2>6. \A k \in 1..Depth-1 : Queued[k + 1] = Queued'[k]
    BY <1>1, <1>2, <2>2
  <2>7. Queued' = Tail(Queued)
    BY <1>2, <2>2, <2>3, <2>5, <2>6
  <2> QED
    BY <2>1, <2>4, <2>7 DEF Queue!Next, Queue!Get
<1>5. CASE Restart
  <2>1. w' = 0 /\ r' = 0 /\ read' = read
    BY <1>5 DEF Restart
  <2>2. Depth' = 0
    BY <2>1 DEF Depth, Place
  <2>3. Queued' = <<>>
    BY <1>1, <2>2
  <2> QED
    BY <2>1, <2>3 DEF Queue!Next, Queue!Clear
<1>6. CASE ~Advance /\ ~(Send /\ Ready(ring[r])) /\ ~Restart
  <2>1. UNCHANGED <<w, r, read, sent, lapped, dropped>>
    BY <1>6 DEF Next, Thread, Server, Oscam, Read, NoData, Pass, Take, DecryptBatch, Add, Send,
       Pause, StopDecrypt, Connect, Disconnect, SetKey, vars, ringVars, historyVars
  <2>2. Depth' = Depth /\ Passed' = Passed
    BY <2>1 DEF Depth, Place, Passed
  <2> QED
    BY <1>1, <2>1, <2>2
<1> QED
  BY <1>3, <1>4, <1>5, <1>6

\* The ring of packet buffers implements the abstract queue (StreamThreadBase).
THEOREM ImplementsQueue == Spec => QueueSpec
<1>1. IInv /\ IInv' /\ [Next]_vars => [Queue!Next]_<<Queued, read + 1>>
  BY NextQueue DEF IInv
<1> QED
  BY InitQueue, Invariance, <1>1, PTL DEF Spec, QueueSpec, Queue!Spec, Queue!queueVars

=============================================================================
