------------------------------ MODULE Rtl8139 ------------------------------
(***************************************************************************)
(* rtl8139.c: the card writes frames into a ring in memory while           *)
(* rtl_irq_handler reads them out of it, and takes the frames that         *)
(* rtl8139_send hands over in its transmit descriptors, in turn.  Handler  *)
(* and sender run with interrupts disabled, so that the card is their only *)
(* concurrent actor: it may act between any two accesses of the handler to *)
(* its registers.                                                          *)
(*                                                                         *)
(* The card is external.  frames holds the frames between its read and     *)
(* write positions, by the offset of their header: the length in that      *)
(* header and the number of bytes really there.  The interrupt line is     *)
(* level triggered, as PCI lines are.  The module starts after             *)
(* rtl8139_init has found the card and allocated its buffers.              *)
(***************************************************************************)
EXTENDS Integers, FiniteSets

CONSTANTS
  RING,          \* size of the ring (8192)
  HEADROOM,      \* margin for headers behind it (16)
  PAD,           \* room for a frame that the card does not wrap (1500)
  ALIGNMENT,     \* kmalloc rounds the buffer up to a multiple of it (8)
  GUARD,         \* frames taken in one interrupt (64)
  MAX_LENGTH,    \* largest length the driver believes (1600)
  Lengths,       \* lengths of the frames on the wire, CRC included
  BadLengths,    \* what a corrupted header may contain
  IN_RING,       \* bound: frames in the ring
  TX_DESCRIPTORS,\* transmit descriptors (4)
  COUNT_MOD      \* number of values of the counters (2^32)

\* Number of values of the register CAPR.
CAPR_MOD == 65536

ASSUME NicConstants ==
  /\ RING \in Nat \ {0} /\ RING % 4 = 0 /\ CAPR_MOD % RING = 0 /\ RING > 16
  /\ HEADROOM \in Nat /\ PAD \in Nat /\ ALIGNMENT \in Nat \ {0}
  /\ GUARD \in Nat \ {0} /\ MAX_LENGTH \in Nat
  /\ Lengths \subseteq 4 .. MAX_LENGTH
  /\ BadLengths \cap 4 .. MAX_LENGTH = {} /\ BadLengths \subseteq Nat
  /\ IN_RING \in Nat /\ COUNT_MOD \in Nat \ {0}
  /\ TX_DESCRIPTORS \in Nat \ {0}

VARIABLES
  pc,                \* "init", "idle", "ack" or "loop"
  status,            \* what the handler has read from ISR, until it is used
  guard,             \* rounds of the last loop
  rx_offset, rx_packets_seen,
  tx_cur,            \* descriptor for the next frame to send
  isr,               \* the register ISR
  capr,              \* the register CAPR
  wr,                \* where the card will write the next frame
  frames,
  received,          \* frames accepted by the card
  owned,             \* descriptors the card has yet to send
  tx_next,           \* the one it sends next
  lapped             \* history: a descriptor in owned has been handed over again

receiver == <<pc, status, guard, rx_offset, rx_packets_seen>>
driver == <<receiver, tx_cur>>
transmitter == <<tx_cur, owned, tx_next, lapped>>
card == <<isr, capr, wr, frames, received, owned, tx_next, lapped>>
vars == <<driver, card>>

ROK == 1   \* a frame has been received
TOK == 4   \* a frame has been sent
IMR == {ROK, TOK}

\* Mutant: no margin for the headers.
RX_BUF_SIZE_NoHeadroom == RING + PAD

RX_BUF_SIZE == RING + HEADROOM + PAD

\* Bytes of the heap block behind rx_buffer.
RxBlock == ((RX_BUF_SIZE + ALIGNMENT - 1) \div ALIGNMENT) * ALIGNMENT

\* Header and data, rounded up to a multiple of 4.
Slot(length) == ((length + 4 + 3) \div 4) * 4

-----------------------------------------------------------------------------
(* The card                                                                 *)

\* The driver leaves 16 in CAPR less than the position it has read up to.
rd == (capr + 16) % RING

\* Bit BUFE of CMD.
Empty == rd = wr

Used == (wr - rd + RING) % RING

Init ==
  /\ pc = "init" /\ status = {} /\ guard = 0
  /\ rx_offset = 0 /\ rx_packets_seen = 0
  /\ isr = {} /\ capr = CAPR_MOD - 16 /\ wr = 0
  /\ frames = [o \in {} |-> [header |-> 0, length |-> 0]]
  /\ received = 0
  /\ tx_cur = 0 /\ owned = {} /\ tx_next = 0 /\ lapped = FALSE

\* A frame arrives and fits: it is written, and wr is at a multiple of 4.
Receive(length, header) ==
  /\ Used + Slot(length) < RING /\ Cardinality(DOMAIN frames) < IN_RING
  /\ frames' = [o \in DOMAIN frames \cup {wr} |->
                  IF o = wr THEN [header |-> header, length |-> length]
                  ELSE frames[o]]
  /\ wr' = (wr + Slot(length)) % RING
  /\ isr' = isr \cup {ROK}
  /\ received' = (received + 1) % COUNT_MOD
  /\ UNCHANGED <<receiver, transmitter, capr>>

Receives == \E length \in Lengths : Receive(length, length)

Corrupted == \E length \in Lengths, bad \in BadLengths : Receive(length, bad)

\* A frame that rtl8139_send has handed over has left.
Sent ==
  /\ tx_next \in owned
  /\ owned' = owned \ {tx_next}
  /\ tx_next' = (tx_next + 1) % TX_DESCRIPTORS
  /\ isr' = isr \cup {TOK}
  /\ UNCHANGED <<driver, capr, wr, frames, received, lapped>>

-----------------------------------------------------------------------------
(* The driver                                                               *)

\* End of rtl8139_init: the card has been receiving for a while when its
\* handler is installed and its line unmasked.
Install ==
  /\ pc = "init" /\ pc' = "idle"
  /\ UNCHANGED <<status, guard, rx_offset, rx_packets_seen, tx_cur, card>>

\* The interrupt is taken: rtl_irq_handler reads ISR.
ReadStatus ==
  /\ pc = "idle" /\ isr \cap IMR # {}
  /\ status' = isr
  /\ pc' = "ack"
  /\ UNCHANGED <<guard, rx_offset, rx_packets_seen, tx_cur, card>>

\* Mutant: everything is acknowledged, read or not.
Acknowledge_All ==
  /\ pc = "ack"
  /\ isr' = {}
  /\ pc' = IF ROK \in status THEN "loop" ELSE "idle"
  /\ guard' = IF ROK \in status THEN 0 ELSE guard
  /\ status' = {}
  /\ UNCHANGED <<rx_offset, rx_packets_seen, capr, wr, frames, received,
                 transmitter>>

\* It writes back what it has read, which clears those bits only.
Acknowledge ==
  /\ pc = "ack"
  /\ isr' = isr \ status
  /\ pc' = IF ROK \in status THEN "loop" ELSE "idle"
  /\ guard' = IF ROK \in status THEN 0 ELSE guard
  /\ status' = {}
  /\ UNCHANGED <<rx_offset, rx_packets_seen, capr, wr, frames, received,
                 transmitter>>

\* What the driver finds at rx_offset; 0 stands for bytes that no header is in.
header == IF rx_offset \in DOMAIN frames THEN frames[rx_offset].header ELSE 0

Believable == header >= 4 /\ header <= MAX_LENGTH

\* Mutant: the 4 bytes of the header are forgotten.
NextOffset_NoHeader ==
  LET o == ((rx_offset + header + 3) \div 4) * 4
  IN  IF o >= RING THEN o - RING ELSE o

\* Mutant: the end of the ring is not looked at.
NextOffset_NoWrap == ((rx_offset + header + 4 + 3) \div 4) * 4

NextOffset ==
  LET o == ((rx_offset + header + 4 + 3) \div 4) * 4
  IN  IF o >= RING THEN o - RING ELSE o

\* Mutant: the frame is counted but CAPR is not moved.
TakeFrame_NoCapr ==
  /\ pc = "loop" /\ ~Empty /\ guard < GUARD /\ Believable
  /\ rx_packets_seen' = (rx_packets_seen + 1) % COUNT_MOD
  /\ rx_offset' = NextOffset
  /\ guard' = guard + 1
  /\ UNCHANGED <<pc, status, tx_cur, card>>

\* One round of the loop: count the frame and give its room back.
TakeFrame ==
  /\ pc = "loop" /\ ~Empty /\ guard < GUARD /\ Believable
  /\ rx_packets_seen' = (rx_packets_seen + 1) % COUNT_MOD
  /\ rx_offset' = NextOffset
  /\ capr' = (NextOffset - 16) % CAPR_MOD
  /\ frames' = [o \in DOMAIN frames \ {rx_offset} |-> frames[o]]
  /\ guard' = guard + 1
  /\ UNCHANGED <<pc, status, isr, wr, received, transmitter>>

LoopDone ==
  /\ pc = "loop" /\ (Empty \/ guard = GUARD)
  /\ pc' = "idle"
  /\ UNCHANGED <<status, guard, rx_offset, rx_packets_seen, tx_cur, card>>

\* A length that cannot be: the loop is left, the frame stays.
LoopCorrupted ==
  /\ pc = "loop" /\ ~Empty /\ guard < GUARD /\ ~Believable
  /\ pc' = "idle"
  /\ UNCHANGED <<status, guard, rx_offset, rx_packets_seen, tx_cur, card>>

\* Mutant: the same descriptor is used again and again.
rtl8139_send_Stays ==
  /\ pc = "idle"
  /\ owned' = owned \cup {tx_cur}
  /\ lapped' = (lapped \/ tx_cur \in owned)
  /\ UNCHANGED <<receiver, tx_cur, isr, capr, wr, frames, received, tx_next>>

\* nettest, through net_send_arp_request: always the same frame of 42 bytes,
\* padded to 60 in the one tx_buffer.  Nothing asks whether the card still has
\* the descriptor: if so, what is handed over now replaces what was there.
rtl8139_send ==
  /\ pc = "idle"
  /\ owned' = owned \cup {tx_cur}
  /\ lapped' = (lapped \/ tx_cur \in owned)
  /\ tx_cur' = (tx_cur + 1) % TX_DESCRIPTORS
  /\ UNCHANGED <<receiver, isr, capr, wr, frames, received, tx_next>>

-----------------------------------------------------------------------------
rtl_irq_handler ==
  \/ ReadStatus \/ Acknowledge
  \/ TakeFrame \/ LoopDone \/ LoopCorrupted

Next ==
  Install \/ rtl_irq_handler \/ rtl8139_send \/ Receives \/ Corrupted \/ Sent

Spec == Init /\ [][Next]_vars

\* Interrupts are taken, the handler runs, and frames keep arriving.
FairSpec ==
  Spec /\ WF_vars(Install) /\ WF_vars(rtl_irq_handler) /\ SF_vars(Receives)

-----------------------------------------------------------------------------
(* Properties                                                               *)

\* Type invariant.
TypeOK ==
  /\ pc \in {"init", "idle", "ack", "loop"}
  /\ status \subseteq IMR /\ isr \subseteq IMR
  /\ guard \in 0 .. GUARD
  /\ rx_offset \in 0 .. (RING - 1) /\ wr \in 0 .. (RING - 1)
  /\ rx_packets_seen \in 0 .. (COUNT_MOD - 1)
  /\ received \in 0 .. (COUNT_MOD - 1)
  /\ capr \in 0 .. (CAPR_MOD - 1)
  /\ DOMAIN frames \subseteq 0 .. (RING - 1)
  /\ {tx_cur, tx_next} \cup owned \subseteq 0 .. (TX_DESCRIPTORS - 1)
  /\ lapped \in BOOLEAN

\* Driver and card agree on the ring: the driver's position is where the card
\* thinks it reads, and unless the ring is empty a header starts there, across
\* the end of the ring and the 16 bit wrap of CAPR.  And every frame is counted
\* once: the counter that nettest prints is what the card has accepted less what
\* is still in the ring.
InStep ==
  /\ rx_offset = rd
  /\ Empty <=> rx_offset \notin DOMAIN frames
  /\ Empty <=> DOMAIN frames = {}
  /\ (received - rx_packets_seen - Cardinality(DOMAIN frames)) % COUNT_MOD = 0

\* The descriptor k places on from n.
Nth(n, k) == (n + k) % TX_DESCRIPTORS

\* Those handed over are the ones from the card's on, up to the driver's.
HandedOver ==
  /\ owned = {Nth(tx_next, k) : k \in 0 .. Cardinality(owned) - 1}
  /\ tx_cur = Nth(tx_next, Cardinality(owned))

\* Driver and card, which count the transmit descriptors each for itself, agree
\* on whose turn it is, until the driver laps the card.  It can: rtl8139_send
\* does not look at the bit OWN.  From then on the card may wait for a
\* descriptor while others hold frames, until the driver comes round to it.
TransmitInStep == lapped \/ HandedOver

\* A corrupted header is next, which the driver never gets past.
Stuck == rx_offset \in DOMAIN frames /\ ~Believable

\* No wake-up is lost: if frames are waiting when the handler is not running,
\* an interrupt is pending for them, unless the handler stopped at its limit
\* of GUARD frames or at a corrupted header.
NoLostWakeup ==
  (pc \in {"init", "idle"} /\ ~Empty) =>
    ROK \in isr \/ guard = GUARD \/ Stuck

\* The bit WRAP: a frame that does not fit before the end of the ring goes on
\* behind it.  It stays in the block that kmalloc gave for rx_buffer.
DmaInBlock == \A o \in DOMAIN frames : o + 4 + frames[o].length <= RxBlock

\* The comments on RX_BUF_SIZE and on the bit WRAP: such a frame stays in the
\* RX_BUF_SIZE bytes asked for.
DmaInBuffer == \A o \in DOMAIN frames : o + 4 + frames[o].length <= RX_BUF_SIZE

\* As long as the network does not fall silent every frame is taken in the end,
\* unless the driver comes to a corrupted header.
EveryFrameTaken ==
  \A o \in {4 * k : k \in 0 .. (RING \div 4 - 1)} :
    (o \in DOMAIN frames) ~> (o \notin DOMAIN frames \/ Stuck)
-----------------------------------------------------------------------------
(* The inductive invariant                                                  *)

\* How far behind the read position a frame begins and ends, and where the next
\* one begins.
Dist(o) == (o - rd + RING) % RING
Behind(o) == Dist(o) + Slot(frames[o].length)
After(o) == (o + Slot(frames[o].length)) % RING

\* What a frame in the ring may look like.
Frame == {f \in [header : Nat, length : Lengths] : f.header \in BadLengths \cup {f.length}}

\* The frames lie one behind the other from the read to the write position.
RingInv ==
  /\ frames \in [DOMAIN frames -> Frame]
  /\ rd % 4 = 0 /\ wr % 4 = 0
  /\ rd # wr => rd \in DOMAIN frames
  /\ \A o \in DOMAIN frames :
       /\ o % 4 = 0
       /\ Behind(o) <= Used
       /\ Behind(o) # Used => After(o) \in DOMAIN frames
       /\ \A p \in DOMAIN frames :
            p = o \/ Behind(o) <= Dist(p) \/ Behind(p) <= Dist(o)

\* What the handler has read of ISR is not lost before it acts on it.
StatusInv ==
  (pc = "ack" /\ ~Empty) => ROK \in isr \cup status \/ guard = GUARD \/ Stuck

IInv ==
  /\ TypeOK /\ InStep /\ TransmitInStep /\ NoLostWakeup
  /\ RingInv /\ StatusInv
=============================================================================
