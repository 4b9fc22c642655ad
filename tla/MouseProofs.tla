----------------------------- MODULE MouseProofs -----------------------------
(***************************************************************************)
(* Proofs about Mouse for every grid, every configuration byte, every      *)
(* number of faults and all packets a mouse may send.                      *)
(***************************************************************************)
EXTENDS Mouse, SequenceTheorems, TLAPS

USE DEF Byte

-----------------------------------------------------------------------------
(* Bytes                                                                    *)

\* mouse_init's byte is a byte: the additions stand for bit operations.
LEMMA EnabledType ==
  ASSUME NEW b \in Byte
  PROVE  Enabled(b) \in Byte
  BY DEF Enabled, Bit

\* The bits of a byte, without powers.
LEMMA Bits ==
  ASSUME NEW b
  PROVE  /\ Bit(b, 0) = ((b \div 1) % 2 = 1) /\ Bit(b, 1) = ((b \div 2) % 2 = 1)
         /\ Bit(b, 2) = ((b \div 4) % 2 = 1) /\ Bit(b, 3) = ((b \div 8) % 2 = 1)
         /\ Bit(b, 4) = ((b \div 16) % 2 = 1) /\ Bit(b, 5) = ((b \div 32) % 2 = 1)
         /\ Bit(b, 6) = ((b \div 64) % 2 = 1) /\ Bit(b, 7) = ((b \div 128) % 2 = 1)
  <1>1. /\ 2^0 = 1 /\ 2^1 = 2 /\ 2^2 = 4 /\ 2^3 = 8 /\ 2^4 = 16 /\ 2^5 = 32 /\ 2^6 = 64
        /\ 2^7 = 128
    OBVIOUS
  <1> QED
    BY <1>1, Zenon DEF Bit

\* Setting a bit that is clear leaves the others.
LEMMA SetBit ==
  ASSUME NEW b \in Byte, (b \div 2) % 2 # 1
  PROVE  /\ b + 2 \in Byte /\ ((b + 2) \div 2) % 2 = 1
         /\ ((b + 2) \div 1) % 2 = 1 <=> (b \div 1) % 2 = 1
         /\ ((b + 2) \div 4) % 2 = 1 <=> (b \div 4) % 2 = 1
         /\ ((b + 2) \div 8) % 2 = 1 <=> (b \div 8) % 2 = 1
         /\ ((b + 2) \div 16) % 2 = 1 <=> (b \div 16) % 2 = 1
         /\ ((b + 2) \div 32) % 2 = 1 <=> (b \div 32) % 2 = 1
         /\ ((b + 2) \div 64) % 2 = 1 <=> (b \div 64) % 2 = 1
         /\ ((b + 2) \div 128) % 2 = 1 <=> (b \div 128) % 2 = 1
  OBVIOUS

\* Clearing a bit that is set leaves the others.
LEMMA ClearBit ==
  ASSUME NEW b \in Byte, (b \div 32) % 2 = 1
  PROVE  /\ b - 32 \in Byte /\ ((b - 32) \div 32) % 2 # 1
         /\ ((b - 32) \div 1) % 2 = 1 <=> (b \div 1) % 2 = 1
         /\ ((b - 32) \div 2) % 2 = 1 <=> (b \div 2) % 2 = 1
         /\ ((b - 32) \div 4) % 2 = 1 <=> (b \div 4) % 2 = 1
         /\ ((b - 32) \div 8) % 2 = 1 <=> (b \div 8) % 2 = 1
         /\ ((b - 32) \div 16) % 2 = 1 <=> (b \div 16) % 2 = 1
         /\ ((b - 32) \div 64) % 2 = 1 <=> (b \div 64) % 2 = 1
         /\ ((b - 32) \div 128) % 2 = 1 <=> (b \div 128) % 2 = 1
  OBVIOUS

\* IRQ12 and the mouse's clock are on, the other bits are the controller's.
LEMMA EnabledBits ==
  ASSUME NEW b \in Byte
  PROVE  /\ Bit(Enabled(b), 1) /\ ~Bit(Enabled(b), 5)
         /\ \A i \in {0, 2, 3, 4, 6, 7} : Bit(Enabled(b), i) = Bit(b, i)
  <1> DEFINE on == IF Bit(b, 1) THEN b ELSE b + 2
             Odd(n) == n % 2 = 1
  <1>1. /\ on \in Byte /\ Odd(on \div 2)
        /\ Odd(on \div 1) <=> Odd(b \div 1)
        /\ Odd(on \div 4) <=> Odd(b \div 4)
        /\ Odd(on \div 8) <=> Odd(b \div 8)
        /\ Odd(on \div 16) <=> Odd(b \div 16)
        /\ Odd(on \div 64) <=> Odd(b \div 64)
        /\ Odd(on \div 128) <=> Odd(b \div 128)
    <2>1. on = IF Odd(b \div 2) THEN b ELSE b + 2
      BY Bits
    <2> HIDE DEF on
    <2>2. CASE Odd(b \div 2)
      BY <2>1, <2>2
    <2>3. CASE ~Odd(b \div 2)
      <3>1. on = b + 2
        BY <2>1, <2>3
      <3> QED
        BY <2>3, <3>1, SetBit
    <2> QED
      BY <2>2, <2>3
  <1>2. Enabled(b) = IF Odd(on \div 32) THEN on - 32 ELSE on
    BY Bits DEF Enabled
  <1> HIDE DEF on
  <1>3. /\ Odd(Enabled(b) \div 2) /\ ~Odd(Enabled(b) \div 32)
        /\ Odd(Enabled(b) \div 1) <=> Odd(b \div 1)
        /\ Odd(Enabled(b) \div 4) <=> Odd(b \div 4)
        /\ Odd(Enabled(b) \div 8) <=> Odd(b \div 8)
        /\ Odd(Enabled(b) \div 16) <=> Odd(b \div 16)
        /\ Odd(Enabled(b) \div 64) <=> Odd(b \div 64)
        /\ Odd(Enabled(b) \div 128) <=> Odd(b \div 128)
    <2>1. CASE Odd(on \div 32)
      <3>1. Enabled(b) = on - 32
        BY <1>2, <2>1
      <3>2. /\ ~Odd((on - 32) \div 32)
            /\ Odd((on - 32) \div 1) <=> Odd(on \div 1)
            /\ Odd((on - 32) \div 2) <=> Odd(on \div 2)
            /\ Odd((on - 32) \div 4) <=> Odd(on \div 4)
            /\ Odd((on - 32) \div 8) <=> Odd(on \div 8)
            /\ Odd((on - 32) \div 16) <=> Odd(on \div 16)
            /\ Odd((on - 32) \div 64) <=> Odd(on \div 64)
            /\ Odd((on - 32) \div 128) <=> Odd(on \div 128)
        <4>1. on \in Byte /\ (on \div 32) % 2 = 1
          BY <1>1, <2>1
        <4> QED
          BY <4>1, ClearBit
      <3> HIDE DEF Odd
      <3> QED
        BY <1>1, <3>1, <3>2
    <2>2. CASE ~Odd(on \div 32)
      <3>1. Enabled(b) = on
        BY <1>2, <2>2
      <3> HIDE DEF Odd
      <3> QED
        BY <1>1, <2>2, <3>1
    <2> QED
      BY <2>1, <2>2
  <1> HIDE DEF Odd
  <1>4. ASSUME NEW c
        PROVE  /\ Bit(c, 0) = Odd(c \div 1) /\ Bit(c, 1) = Odd(c \div 2)
               /\ Bit(c, 2) = Odd(c \div 4) /\ Bit(c, 3) = Odd(c \div 8)
               /\ Bit(c, 4) = Odd(c \div 16) /\ Bit(c, 5) = Odd(c \div 32)
               /\ Bit(c, 6) = Odd(c \div 64) /\ Bit(c, 7) = Odd(c \div 128)
    BY Bits DEF Odd
  <1>5. \A n : Odd(n) \in BOOLEAN
    BY DEF Odd
  <1> QED
    BY <1>3, <1>4, <1>5

\* The position stays on the grid.
LEMMA ClampType ==
  ASSUME NEW n \in Int
  PROVE  Clamp(n) \in 0 .. MAX_POS
  BY MouseConstants DEF Clamp

LEMMA SignedType ==
  ASSUME NEW b \in Byte
  PROVE  Signed(b) \in Int
  BY DEF Signed

\* A packet consists of three bytes, the first with bit 3 set.
LEMMA PacketBytes ==
  ASSUME NEW p \in Packet
  PROVE  /\ p[1] \in Byte /\ p[2] \in Byte /\ p[3] \in Byte /\ Bit(p[1], 3)
         /\ \A k \in 1 .. 3 : p[k] \in Byte
  <1>1. p[1] \in Flags /\ p[2] \in Deltas /\ p[3] \in Deltas
    BY DEF Packet
  <1>2. p[1] \in Byte /\ p[2] \in Byte /\ p[3] \in Byte
    BY <1>1, MouseConstants
  <1>3. Bit(p[1], 3)
    BY <1>1, MouseConstants, Bits
  <1>4. \A k \in 1 .. 3 : k = 1 \/ k = 2 \/ k = 3
    OBVIOUS
  <1> QED
    BY <1>2, <1>3, <1>4

\* The next place of mouse_init after each answer.
LEMMA AfterPlaces ==
  /\ DOMAIN After = {"config_read", "defaults_ack", "enable_ack"}
  /\ After["config_read"] = "defaults" /\ After["defaults_ack"] = "enable"
  /\ After["enable_ack"] = "stream"
  BY DEF After

-----------------------------------------------------------------------------
(* Types                                                                    *)

\* A byte that mouse_callback takes.
LEMMA CallbackType ==
  ASSUME TypeOK, mouse_callback
  PROVE  TypeOK'
  <1>1. PICK data \in Byte :
          /\ pc = "stream" /\ out' = NONE
          /\ FirstByte(data) \/ NotFirstByte(data) \/ SecondByte(data) \/ ThirdByte(data)
    BY DEF mouse_callback, Irq12
  <1>2. UNCHANGED <<pc, config, reply, streaming, sending, phase, faults>>
    BY DEF mouse_callback, device
  <1>3. mouse_packet \in [1 .. 3 -> Byte] /\ mouse_x \in Int /\ mouse_y \in Int
    BY MouseConstants DEF TypeOK
  <1>4. /\ mouse_cycle' \in 0 .. 2 /\ mouse_packet' \in [1 .. 3 -> Byte]
        /\ mouse_x' \in 0 .. MAX_POS /\ mouse_y' \in 0 .. MAX_POS
        /\ mouse_buttons' \in 0 .. 7
    <2>1. CASE FirstByte(data) \/ SecondByte(data)
      <3>1. \A k \in 1 .. 3 : [mouse_packet EXCEPT ![k] = data] \in [1 .. 3 -> Byte]
        BY <1>3
      <3>2. mouse_packet' \in [1 .. 3 -> Byte] /\ mouse_cycle' \in 0 .. 2
        BY <2>1, <3>1 DEF FirstByte, SecondByte
      <3> QED
        BY <2>1, <3>2 DEF TypeOK, FirstByte, SecondByte
    <2>2. CASE NotFirstByte(data)
      BY <2>2 DEF TypeOK, NotFirstByte, driver
    <2>3. CASE ThirdByte(data)
      <3>1. mouse_packet[1] \in Byte /\ mouse_packet[2] \in Byte
        BY <1>3
      <3>2. /\ mouse_x + Signed(mouse_packet[2]) \in Int /\ mouse_y - Signed(data) \in Int
        BY <1>3, <3>1, SignedType
      <3>3. mouse_x' \in 0 .. MAX_POS /\ mouse_y' \in 0 .. MAX_POS
        BY <2>3, <3>2, ClampType DEF ThirdByte
      <3>4. mouse_packet[1] % 8 \in 0 .. 7
        BY <3>1
      <3> QED
        BY <1>3, <2>3, <3>3, <3>4 DEF ThirdByte
    <2> QED
      BY <1>1, <2>1, <2>2, <2>3
  <1> QED
    BY <1>1, <1>2, <1>4 DEF TypeOK

\* What mouse_init does with an answer.
LEMMA GotByteType ==
  ASSUME TypeOK, pc \in DOMAIN After, NEW b \in Byte, GotByte(b)
  PROVE  /\ pc' \in {"defaults", "enable", "stream"} /\ config' \in Byte
         /\ UNCHANGED <<mouse_cycle, mouse_packet, mouse_x, mouse_y, mouse_buttons,
                        reply, streaming, sending, phase>>
  <1>1. pc' \in {"defaults", "enable", "stream"}
    BY AfterPlaces DEF GotByte
  <1>2. config' \in Byte
    BY EnabledType DEF GotByte, TypeOK
  <1> QED
    BY <1>1, <1>2 DEF GotByte, driver, device

LEMMA TypeInv ==
  ASSUME TypeOK, [Next]_vars
  PROVE  TypeOK'
  <1> USE AfterPlaces
  <1>1. CFG \in Byte /\ ACK \in Byte /\ BAT \in Byte
    BY MouseConstants DEF ACK, BAT
  <1>2. CASE mouse_flush_output_buffer
    BY <1>2 DEF mouse_flush_output_buffer, TypeOK, driver, device
  <1>3. ASSUME NEW from, NEW to \in {"config_read", "defaults_ack", "enable_ack"},
               NEW b \in Byte, Command(from, to, b), streaming' \in BOOLEAN
        PROVE  TypeOK'
    BY <1>3 DEF Command, TypeOK, driver
  <1>4. CASE AskConfig \/ SetDefaults \/ EnableReporting
    BY <1>1, <1>3, <1>4 DEF AskConfig, SetDefaults, EnableReporting, TypeOK
  <1>5. CASE mouse_read
    <2>1. out \in Byte /\ GotByte(out) /\ out' = NONE /\ faults' = faults
      BY <1>5 DEF mouse_read, TypeOK
    <2>2. /\ pc' \in {"defaults", "enable", "stream"} /\ config' \in Byte
          /\ UNCHANGED <<mouse_cycle, mouse_packet, mouse_x, mouse_y, mouse_buttons,
                         reply, streaming, sending, phase>>
      BY <1>5, <2>1, GotByteType DEF mouse_read
    <2> QED
      BY <2>1, <2>2 DEF TypeOK
  <1>6. CASE MouseReadTimeout
    <2>1. PICK b \in Byte : GotByte(b)
      BY <1>1, <1>6 DEF MouseReadTimeout
    <2>2. faults' \in 0 .. MAX_FAULTS /\ out' = out
      BY <1>6, MouseConstants DEF MouseReadTimeout, TypeOK
    <2>3. /\ pc' \in {"defaults", "enable", "stream"} /\ config' \in Byte
          /\ UNCHANGED <<mouse_cycle, mouse_packet, mouse_x, mouse_y, mouse_buttons,
                         reply, streaming, sending, phase>>
      BY <1>6, <2>1, GotByteType DEF MouseReadTimeout
    <2> QED
      BY <2>2, <2>3 DEF TypeOK
  <1>7. CASE Answer
    <2>1. Head(reply) \in Byte /\ Tail(reply) \in Seq(Byte)
      BY <1>7, HeadTailProperties DEF Answer, TypeOK
    <2> QED
      BY <1>7, <2>1 DEF Answer, TypeOK, driver
  <1>8. CASE Send
    <2>1. sending' \in Packet
      BY <1>8 DEF Send, TypeOK
    <2>2. phase + 1 \in 1 .. 3 /\ (phase + 1) % 3 \in 0 .. 2
      BY DEF TypeOK
    <2>3. sending'[phase + 1] \in Byte
      BY <2>1, <2>2, PacketBytes
    <2> QED
      BY <1>8, <2>1, <2>2, <2>3 DEF Send, TypeOK, driver
  <1>9. CASE Lose
    BY <1>9, MouseConstants DEF Lose, TypeOK, driver, device
  <1>10. CASE mouse_callback
    BY <1>10, CallbackType
  <1>11. CASE UNCHANGED vars
    BY <1>11 DEF vars, driver, device, TypeOK
  <1> QED
    BY <1>2, <1>4, <1>5, <1>6, <1>7, <1>8, <1>9, <1>10, <1>11 DEF Next, mouse_init

-----------------------------------------------------------------------------
(* The dialogue with the controller                                         *)

\* A queue of one answer.
LEMMA OneAnswer ==
  ASSUME NEW b
  PROVE  Append(<<>>, b) = <<b>> /\ Head(<<b>>) = b /\ Tail(<<b>>) = <<>> /\ <<b>> # <<>>
  OBVIOUS

\* Faults are counted for good.
LEMMA FaultsGrow ==
  ASSUME TypeOK, [Next]_vars, faults' = 0
  PROVE  faults = 0 /\ ~Lose /\ ~MouseReadTimeout
  <1>1. faults \in Nat
    BY MouseConstants DEF TypeOK
  <1> QED
    BY <1>1 DEF Next, mouse_init, mouse_flush_output_buffer, AskConfig, SetDefaults,
                EnableReporting, Command, mouse_read, MouseReadTimeout, Answer, Send, Lose,
                mouse_callback, vars

\* While mouse_init runs, a step of it or an answer of the controller keeps their
\* dialogue; when it is over the first byte of a packet is next.
LEMMA InitKeeps ==
  ASSUME TypeOK, ProtocolInv, PacketInv,
         \/ mouse_flush_output_buffer \/ AskConfig \/ SetDefaults \/ EnableReporting
         \/ mouse_read \/ Answer
  PROVE  ProtocolInv' /\ PacketInv'
  <1>1. NONE # CFG /\ NONE # ACK /\ CFG \in Byte
    BY MouseConstants DEF ACK
  <1>2. CASE mouse_flush_output_buffer
    BY <1>2 DEF mouse_flush_output_buffer, ProtocolInv, PacketInv, driver, device
  <1>3. CASE AskConfig
    <2>1. reply' = <<CFG>> /\ out' = NONE
      BY <1>3, OneAnswer DEF AskConfig, Command, ProtocolInv
    <2> QED
      BY <1>3, <2>1 DEF AskConfig, Command, ProtocolInv, PacketInv, driver
  <1>4. CASE SetDefaults
    <2>1. reply' = <<ACK>> /\ out' = NONE
      BY <1>4, OneAnswer DEF SetDefaults, Command, ProtocolInv
    <2> QED
      BY <1>4, <2>1 DEF SetDefaults, Command, ProtocolInv, PacketInv, driver
  <1>5. CASE EnableReporting
    <2>1. reply' = <<ACK>> /\ out' = NONE
      BY <1>5, OneAnswer DEF EnableReporting, Command, ProtocolInv
    <2> QED
      BY <1>5, <2>1 DEF EnableReporting, Command, ProtocolInv, PacketInv, driver
  <1>6. CASE mouse_read
    <2>1. pc \in {"config_read", "defaults_ack", "enable_ack"} /\ out # NONE
      BY <1>6, AfterPlaces DEF mouse_read
    <2>2. reply = <<>> /\ (pc = "config_read" => out = CFG) /\ phase = 0 /\ mouse_cycle = 0
      BY <1>1, <2>1 DEF ProtocolInv
    <2>3. /\ config' = IF pc = "config_read" THEN Enabled(out) ELSE config
          /\ pc' = After[pc] /\ out' = NONE /\ reply' = <<>> /\ phase' = 0
          /\ mouse_cycle' = 0 /\ streaming' = streaming
      BY <1>6, <2>2 DEF mouse_read, GotByte, driver, device
    <2>4. ProtocolInv'
      <3>1. Enabled(CFG)' = Enabled(CFG)
        BY DEF Enabled, Bit
      <3>2. CASE pc = "config_read"
        BY <2>2, <2>3, <3>1, <3>2, AfterPlaces DEF ProtocolInv
      <3>3. CASE pc = "defaults_ack"
        BY <2>2, <2>3, <3>1, <3>3, AfterPlaces DEF ProtocolInv
      <3>4. CASE pc = "enable_ack"
        BY <2>2, <2>3, <3>1, <3>4, AfterPlaces DEF ProtocolInv
      <3> QED
        BY <2>1, <3>2, <3>3, <3>4
    <2>5. PacketInv'
      BY <2>3 DEF PacketInv, Aligned, Waiting
    <2> QED
      BY <2>4, <2>5
  <1>7. CASE Answer
    <2>1. out = NONE /\ reply # <<>> /\ out' = Head(reply) /\ reply' = Tail(reply)
          /\ UNCHANGED <<pc, config, mouse_cycle, streaming, phase>>
      BY <1>7 DEF Answer, driver
    <2>2. pc \in {"config_read", "defaults_ack", "enable_ack"}
      BY <2>1, AfterPlaces DEF TypeOK, ProtocolInv, PacketInv, Aligned
    <2>3. reply = <<IF pc = "config_read" THEN CFG ELSE ACK>>
      BY <1>1, <2>1, <2>2 DEF ProtocolInv
    <2>4. out' = (IF pc = "config_read" THEN CFG ELSE ACK) /\ reply' = <<>>
      BY <2>1, <2>3, OneAnswer
    <2> QED
      BY <2>1, <2>2, <2>4 DEF ProtocolInv, PacketInv, Enabled, Bit
  <1> QED
    BY <1>2, <1>3, <1>4, <1>5, <1>6, <1>7

-----------------------------------------------------------------------------
(* The packets                                                              *)

\* The mouse sends the byte after the ones that the driver has.
LEMMA SendKeeps ==
  ASSUME TypeOK, TypeOK', ProtocolInv, PacketInv, Send
  PROVE  ProtocolInv' /\ PacketInv'
  <1>1. NONE \notin Byte /\ NONE # ACK
    BY MouseConstants DEF ACK
  <1>2. /\ streaming /\ out = NONE /\ reply = <<>>
        /\ UNCHANGED <<pc, config, mouse_cycle, mouse_packet, reply, streaming, faults>>
        /\ out' = sending'[phase + 1] /\ phase' = (phase + 1) % 3
        /\ phase # 0 => sending' = sending
    BY DEF Send, driver
  <1>3. pc = "stream"
    BY <1>1, <1>2 DEF ProtocolInv
  <1>4. ProtocolInv'
    BY <1>2, <1>3 DEF ProtocolInv, Enabled, Bit
  <1>5. mouse_cycle = phase /\ phase \in 0 .. 2
    BY <1>2, <1>3 DEF PacketInv, Aligned, Waiting, TypeOK
  <1>6. out' \in Byte /\ out' # NONE
    <2>1. sending' \in Packet /\ phase + 1 \in 1 .. 3
      BY <1>5 DEF TypeOK
    <2> QED
      BY <1>1, <1>2, <2>1, PacketBytes
  <1>7. Aligned'
    BY <1>2, <1>5, <1>6 DEF Aligned, Waiting
  <1>8. \A k \in 1 .. mouse_cycle : mouse_packet[k] = sending'[k]
    BY <1>2, <1>3, <1>5 DEF PacketInv
  <1>9. PacketInv'
    BY <1>2, <1>5, <1>7, <1>8 DEF PacketInv
  <1> QED
    BY <1>4, <1>9

\* The driver takes the byte that waits; in step, it never drops one.
LEMMA CallbackTakes ==
  ASSUME TypeOK, PacketInv, mouse_callback
  PROVE  /\ pc = "stream" /\ out \in Byte /\ out # NONE /\ out' = NONE
         /\ mouse_cycle \in 0 .. 2 /\ (mouse_cycle + 1) % 3 = phase /\ reply = <<>>
         /\ \/ FirstByte(sending[1]) \/ SecondByte(sending[2]) \/ ThirdByte(sending[3])
         /\ UNCHANGED <<pc, config, reply, streaming, sending, phase, faults>>
  <1>1. PICK data \in Byte :
          /\ pc = "stream" /\ out = data /\ out' = NONE
          /\ FirstByte(data) \/ NotFirstByte(data) \/ SecondByte(data) \/ ThirdByte(data)
    BY DEF mouse_callback, Irq12
  <1>2. UNCHANGED <<pc, config, reply, streaming, sending, phase, faults>>
    BY DEF mouse_callback, device
  <1>3. out # NONE /\ mouse_cycle \in 0 .. 2
    BY <1>1, MouseConstants DEF TypeOK
  <1>4. data = sending[mouse_cycle + 1] /\ (mouse_cycle + 1) % 3 = phase /\ reply = <<>>
    BY <1>1, <1>3 DEF PacketInv, Aligned, Waiting
  <1>5. FirstByte(sending[1]) \/ SecondByte(sending[2]) \/ ThirdByte(sending[3])
    <2>1. ~NotFirstByte(data)
      <3>1. Bit(sending[1], 3)
        BY PacketBytes DEF TypeOK
      <3> QED
        BY <1>4, <3>1 DEF NotFirstByte
    <2>2. /\ FirstByte(data) => data = sending[1]
          /\ SecondByte(data) => data = sending[2]
          /\ ThirdByte(data) => data = sending[3]
      BY <1>4 DEF FirstByte, SecondByte, ThirdByte
    <2> QED
      BY <1>1, <2>1, <2>2
  <1> QED
    BY <1>1, <1>2, <1>3, <1>4, <1>5

LEMMA CallbackKeeps ==
  ASSUME TypeOK, ProtocolInv, PacketInv, mouse_callback
  PROVE  ProtocolInv' /\ PacketInv'
  <1>1. /\ pc = "stream" /\ out' = NONE /\ reply = <<>>
        /\ mouse_cycle \in 0 .. 2 /\ (mouse_cycle + 1) % 3 = phase
        /\ \/ FirstByte(sending[1]) \/ SecondByte(sending[2]) \/ ThirdByte(sending[3])
        /\ UNCHANGED <<pc, config, reply, streaming, sending, phase, faults>>
    BY CallbackTakes
  <1>2. ProtocolInv'
    BY <1>1 DEF ProtocolInv, Enabled, Bit
  <1>3. mouse_packet \in [1 .. 3 -> Byte]
        /\ \A k \in 1 .. mouse_cycle : mouse_packet[k] = sending[k]
    BY <1>1 DEF TypeOK, PacketInv
  <1>4. CASE FirstByte(sending[1])
    <2>1. mouse_cycle = 0 /\ mouse_cycle' = 1 /\ mouse_packet'[1] = sending[1]
      BY <1>3, <1>4 DEF FirstByte
    <2>2. \A k \in 1 .. 1 : mouse_packet'[k] = sending[k]
      BY <2>1
    <2> QED
      BY <1>1, <1>2, <2>1, <2>2 DEF PacketInv, Aligned, Waiting
  <1>5. CASE SecondByte(sending[2])
    <2>1. /\ mouse_cycle = 1 /\ mouse_cycle' = 2 /\ mouse_packet'[1] = mouse_packet[1]
          /\ mouse_packet'[2] = sending[2]
      BY <1>3, <1>5 DEF SecondByte
    <2>2. \A k \in 1 .. 2 : mouse_packet'[k] = sending[k]
      <3>1. mouse_packet[1] = sending[1]
        BY <1>3, <2>1
      <3> QED
        BY <2>1, <3>1
    <2> QED
      BY <1>1, <1>2, <2>1, <2>2 DEF PacketInv, Aligned, Waiting
  <1>6. CASE ThirdByte(sending[3])
    <2>1. mouse_cycle = 2 /\ mouse_cycle' = 0
      BY <1>6 DEF ThirdByte
    <2> QED
      BY <1>1, <1>2, <2>1 DEF PacketInv, Aligned, Waiting
  <1> QED
    BY <1>1, <1>4, <1>5, <1>6

-----------------------------------------------------------------------------
(* The theorems                                                             *)

LEMMA InitInv == Init => IInv
  <1> SUFFICES ASSUME Init
               PROVE  IInv
    OBVIOUS
  <1>1. TypeOK
    <2>1. <<0, 0, 0>> \in [1 .. 3 -> Byte]
      <3>1. \A k \in 1 .. 3 : k = 1 \/ k = 2 \/ k = 3
        OBVIOUS
      <3> QED
        BY <3>1
    <2>2. /\ pc = "flush" /\ config = CFG /\ mouse_cycle = 0 /\ mouse_packet = <<0, 0, 0>>
          /\ mouse_x = X0 /\ mouse_y = Y0 /\ mouse_buttons = 0 /\ out \in {NONE, 170}
          /\ reply = <<>> /\ streaming = FALSE /\ sending \in Packet /\ phase = 0
          /\ faults = 0
      BY DEF Init, BAT
    <2>3. /\ CFG \in Byte /\ MAX_POS \in Nat /\ X0 \in 0 .. MAX_POS /\ Y0 \in 0 .. MAX_POS
          /\ MAX_FAULTS \in Nat
      BY MouseConstants
    <2>4. /\ reply \in Seq(Byte) /\ out \in Byte \cup {NONE}
          /\ config \in Byte /\ streaming \in BOOLEAN
      <3>1. reply \in Seq(Byte)
        BY <2>2, EmptySeq
      <3>2. out \in Byte \cup {NONE}
        BY <2>2
      <3> QED
        BY <2>2, <2>3, <3>1, <3>2
    <2>5. /\ mouse_x \in 0 .. MAX_POS /\ mouse_y \in 0 .. MAX_POS /\ mouse_cycle \in 0 .. 2
          /\ mouse_buttons \in 0 .. 7 /\ phase \in 0 .. 2 /\ faults \in 0 .. MAX_FAULTS
      BY <2>2, <2>3
    <2>6. /\ mouse_packet \in [1 .. 3 -> Byte] /\ sending \in Packet
          /\ pc \in {"flush", "config", "defaults", "enable", "stream"} \cup DOMAIN After
      BY <2>1, <2>2, Zenon
    <2> QED
      BY <2>4, <2>5, <2>6 DEF TypeOK
  <1>2. ProtocolInv /\ PacketInv
    BY DEF Init, ProtocolInv, PacketInv
  <1> QED
    BY <1>1, <1>2 DEF IInv

LEMMA NextInv == IInv /\ [Next]_vars => IInv'
  <1> SUFFICES ASSUME IInv, [Next]_vars
               PROVE  IInv'
    OBVIOUS
  <1>1. TypeOK /\ TypeOK'
    BY TypeInv DEF IInv
  <1>2. ASSUME faults' = 0
        PROVE  ProtocolInv' /\ PacketInv'
    <2>1. ProtocolInv /\ PacketInv /\ ~Lose /\ ~MouseReadTimeout
      BY <1>1, <1>2, FaultsGrow DEF IInv
    <2>2. CASE mouse_init \/ Answer
      BY <1>1, <2>1, <2>2, InitKeeps DEF mouse_init
    <2>3. CASE Send
      BY <1>1, <2>1, <2>3, SendKeeps
    <2>4. CASE mouse_callback
      BY <1>1, <2>1, <2>4, CallbackKeeps
    <2>5. CASE UNCHANGED vars
      BY <2>1, <2>5 DEF vars, driver, device, ProtocolInv, PacketInv, Aligned, Waiting,
                        Enabled, Bit
    <2> QED
      BY <2>1, <2>2, <2>3, <2>4, <2>5 DEF Next
  <1> QED
    BY <1>1, <1>2 DEF IInv

\* The inductive invariant holds in every state that the program reaches.
THEOREM Invariance == Spec => []IInv
  BY InitInv, NextInv, PTL DEF Spec

\* Whatever bytes arrive, late, stolen or out of step, the position stays on the
\* grid and the assembly of packets within its three bytes.
THEOREM TypeCorrect == Spec => []TypeOK
  <1>1. IInv => TypeOK
    BY DEF IInv
  <1> QED
    BY <1>1, Invariance, PTL

\* Whatever the controller's configuration byte is, mouse_init writes it back with
\* bits 1 and 5 as it wants them and the other six untouched, unless an answer
\* was late.
THEOREM ConfigurationKept == Spec => []ConfigKept
  <1>1. IInv => ConfigKept
    <2> SUFFICES ASSUME IInv, faults = 0, pc \notin {"flush", "config", "config_read"}
                 PROVE  /\ Bit(config, 1) /\ ~Bit(config, 5)
                        /\ \A i \in {0, 2, 3, 4, 6, 7} : Bit(config, i) = Bit(CFG, i)
      BY DEF ConfigKept
    <2>1. config = Enabled(CFG) /\ CFG \in Byte
      BY MouseConstants DEF IInv, ProtocolInv
    <2> QED
      BY <2>1, EnabledBits
  <1> QED
    BY <1>1, Invariance, PTL

\* When no answer is late and no byte stolen, the driver is in step with the
\* mouse from the moment IRQ12 is unmasked on: no acknowledgement is left over.
THEOREM InStepWithMouse == Spec => []StaysAligned
  <1>1. IInv => StaysAligned
    BY DEF IInv, PacketInv, StaysAligned
  <1> QED
    BY <1>1, Invariance, PTL

\* Without faults the pointer follows the packets of the mouse one by one, and
\* moves at no other time.
THEOREM PacketsApplyOnce == Spec => PacketsApplied
  <1>1. ASSUME IInv, [Next]_vars, faults' = 0
        PROVE  IF mouse_cycle = 2 /\ mouse_cycle' = 0
               THEN /\ mouse_x' = Clamp(mouse_x + Signed(sending[2]))
                    /\ mouse_y' = Clamp(mouse_y - Signed(sending[3]))
                    /\ mouse_buttons' = sending[1] % 8
               ELSE UNCHANGED <<mouse_x, mouse_y, mouse_buttons>>
    <2>1. TypeOK /\ ProtocolInv /\ PacketInv /\ ~Lose /\ ~MouseReadTimeout
      BY <1>1, FaultsGrow DEF IInv
    <2>2. ASSUME UNCHANGED driver
          PROVE  /\ ~(mouse_cycle = 2 /\ mouse_cycle' = 0)
                 /\ UNCHANGED <<mouse_x, mouse_y, mouse_buttons>>
      BY <2>2 DEF driver
    <2>3. CASE mouse_callback
      <3>1. /\ pc = "stream"
            /\ FirstByte(sending[1]) \/ SecondByte(sending[2]) \/ ThirdByte(sending[3])
        BY <2>1, <2>3, CallbackTakes
      <3>2. CASE FirstByte(sending[1]) \/ SecondByte(sending[2])
        BY <3>2 DEF FirstByte, SecondByte
      <3>3. CASE ThirdByte(sending[3])
        <4>1. mouse_packet[1] = sending[1] /\ mouse_packet[2] = sending[2]
          BY <2>1, <3>1, <3>3 DEF PacketInv, ThirdByte
        <4> QED
          BY <3>3, <4>1 DEF ThirdByte
      <3> QED
        BY <3>1, <3>2, <3>3
    <2>4. CASE ~mouse_callback
      <3>1. UNCHANGED driver
        BY <1>1, <2>4 DEF Next, mouse_init, mouse_flush_output_buffer, AskConfig,
              SetDefaults, EnableReporting, Command, mouse_read, MouseReadTimeout, GotByte,
              Answer, Send, Lose, vars
      <3> QED
        BY <2>2, <3>1
    <2> QED
      BY <2>3, <2>4
  <1> QED
    BY <1>1, Invariance, PTL DEF Spec, PacketsApplied
=============================================================================
