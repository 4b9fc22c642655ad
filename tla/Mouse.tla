------------------------------- MODULE Mouse -------------------------------
(***************************************************************************)
(* The PS/2 mouse driver of mouse.c.  mouse_init talks to the 8042 by      *)
(* polling, with timeouts and interrupts disabled; afterwards IRQ12 hands  *)
(* one byte at a time to mouse_callback, which assembles packets of three. *)
(*                                                                         *)
(* The controller and the mouse are external.  out is the controller's one *)
(* byte output buffer; reply holds the answers that will follow; sending   *)
(* and phase are the packet that the mouse is transmitting and the index   *)
(* of the next byte of it.  A fault is an answer later than a timeout of   *)
(* the driver, or a byte that somebody else reads from the shared port     *)
(* 0x60 (the keyboard interrupt, says the comment of the flush function).  *)
(***************************************************************************)
EXTENDS Integers, Sequences

CONSTANTS
  MAX_POS,      \* the largest coordinate (300 in the code)
  X0, Y0,       \* initial position (40 and 12 in the code)
  Flags,        \* first bytes of packets: bit 3 is set in all of them
  Deltas,       \* second and third bytes: signed movements
  CFG,          \* the controller's configuration byte at boot
  MAX_FAULTS,   \* bound: faults in one run of the model
  NONE

Byte == 0 .. 255

ASSUME MouseConstants ==
  /\ MAX_POS \in Nat /\ X0 \in 0 .. MAX_POS /\ Y0 \in 0 .. MAX_POS
  /\ Flags \subseteq Byte /\ Deltas \subseteq Byte /\ CFG \in Byte
  /\ \A f \in Flags : (f \div 8) % 2 = 1
  /\ Flags # {} /\ Deltas # {}
  /\ MAX_FAULTS \in Nat /\ NONE \notin Byte

VARIABLES
  pc,            \* where mouse_init is; "stream" once IRQ12 is unmasked
  config,        \* the configuration byte written back to the controller
  mouse_cycle, mouse_packet, mouse_x, mouse_y, mouse_buttons,
  out, reply, streaming, sending, phase,
  faults

driver == <<mouse_cycle, mouse_packet, mouse_x, mouse_y, mouse_buttons>>
device == <<reply, streaming, sending, phase>>
vars == <<pc, config, driver, out, device, faults>>

ACK == 250       \* 0xFA
BAT == 170       \* 0xAA, the result of the self-test at reset

Bit(b, i) == (b \div 2^i) % 2 = 1
Signed(b) == IF b < 128 THEN b ELSE b - 256

Packet == Flags \X Deltas \X Deltas

-----------------------------------------------------------------------------
Init ==
  /\ pc = "flush" /\ config = CFG
  /\ mouse_cycle = 0 /\ mouse_packet = <<0, 0, 0>>
  /\ mouse_x = X0 /\ mouse_y = Y0 /\ mouse_buttons = 0
  /\ out \in {NONE, BAT}
  /\ reply = <<>> /\ streaming = FALSE
  /\ sending \in Packet /\ phase = 0
  /\ faults = 0

-----------------------------------------------------------------------------
(* The controller and the mouse                                             *)

\* The next answer reaches the output buffer.
Answer ==
  /\ out = NONE /\ reply # <<>>
  /\ out' = Head(reply) /\ reply' = Tail(reply)
  /\ UNCHANGED <<pc, config, driver, streaming, sending, phase, faults>>

\* The mouse is moved or clicked: it sends the next byte of a packet.
Send ==
  /\ streaming /\ out = NONE /\ reply = <<>>
  /\ IF phase = 0 THEN sending' \in Packet ELSE UNCHANGED sending
  /\ out' = sending'[phase + 1]
  /\ phase' = (phase + 1) % 3
  /\ UNCHANGED <<pc, config, driver, reply, streaming, faults>>

\* Somebody else reads a byte of the mouse.
Lose ==
  /\ pc = "stream" /\ out # NONE /\ faults < MAX_FAULTS
  /\ out' = NONE /\ faults' = faults + 1
  /\ UNCHANGED <<pc, config, driver, device>>

-----------------------------------------------------------------------------
(* mouse_init                                                               *)

\* Mutant: nothing is flushed.
mouse_flush_output_buffer_Skipped ==
  /\ pc = "flush"
  /\ pc' = "config"
  /\ UNCHANGED <<config, driver, out, device, faults>>

\* A byte left over from reset is read and dropped.
mouse_flush_output_buffer ==
  /\ pc = "flush"
  /\ out' = NONE
  /\ pc' = "config"
  /\ UNCHANGED <<config, driver, device, faults>>

\* Mutant: the bit that disables the mouse's clock is left alone.
Enabled_KeepsClockOff(b) == IF Bit(b, 1) THEN b ELSE b + 2

\* b with IRQ12 enabled (bit 1) and the mouse's clock not disabled (bit 5).
Enabled(b) ==
  LET on == IF Bit(b, 1) THEN b ELSE b + 2
  IN  IF Bit(on, 5) THEN on - 32 ELSE on

\* The commands: the controller answers 0x20 with the configuration byte, the
\* mouse acknowledges 0xF6 and 0xF4 and starts streaming after the latter.
Command(from, to, answer) ==
  /\ pc = from /\ pc' = to
  /\ reply' = Append(reply, answer)
  /\ UNCHANGED <<config, driver, out, sending, phase, faults>>

AskConfig == Command("config", "config_read", CFG) /\ UNCHANGED streaming
SetDefaults == Command("defaults", "defaults_ack", ACK) /\ UNCHANGED streaming
EnableReporting == Command("enable", "enable_ack", ACK) /\ streaming' = TRUE

After == [config_read |-> "defaults", defaults_ack |-> "enable",
          enable_ack |-> "stream"]

\* mouse_read returns b.  After the first one the configuration is written,
\* after the last one the handler of IRQ12 is installed and unmasked.
GotByte(b) ==
  /\ config' = IF pc = "config_read" THEN Enabled(b) ELSE config
  /\ pc' = After[pc]
  /\ UNCHANGED <<driver, device>>

mouse_read ==
  /\ pc \in DOMAIN After /\ out # NONE
  /\ GotByte(out)
  /\ out' = NONE /\ UNCHANGED faults

\* mouse_wait_output gives up before the answer comes: mouse_read reads the
\* port all the same and gets what was there before.
MouseReadTimeout ==
  /\ pc \in DOMAIN After /\ out = NONE /\ faults < MAX_FAULTS
  /\ \E b \in {BAT, CFG} : GotByte(b)
  /\ faults' = faults + 1 /\ UNCHANGED out

-----------------------------------------------------------------------------
(* mouse_callback                                                           *)

\* Mutant: the upper bound is forgotten.
Clamp_NoUpper(n) == IF n < 0 THEN 0 ELSE n

Clamp(n) == IF n < 0 THEN 0 ELSE IF n > MAX_POS THEN MAX_POS ELSE n

\* IRQ12 with data in the output buffer.
Irq12(data) == pc = "stream" /\ out = data /\ out' = NONE

\* Mutant: the byte is taken without looking at bit 3.
FirstByte_Unchecked(data) ==
  /\ mouse_cycle = 0
  /\ mouse_packet' = [mouse_packet EXCEPT ![1] = data]
  /\ mouse_cycle' = 1
  /\ UNCHANGED <<mouse_x, mouse_y, mouse_buttons>>

FirstByte(data) ==
  /\ mouse_cycle = 0 /\ Bit(data, 3)
  /\ mouse_packet' = [mouse_packet EXCEPT ![1] = data]
  /\ mouse_cycle' = 1
  /\ UNCHANGED <<mouse_x, mouse_y, mouse_buttons>>

\* Not the first byte of a packet: dropped.
NotFirstByte(data) ==
  /\ mouse_cycle = 0 /\ ~Bit(data, 3)
  /\ UNCHANGED driver

SecondByte(data) ==
  /\ mouse_cycle = 1
  /\ mouse_packet' = [mouse_packet EXCEPT ![2] = data]
  /\ mouse_cycle' = 2
  /\ UNCHANGED <<mouse_x, mouse_y, mouse_buttons>>

\* Mutant: the vertical movement is not inverted.
ThirdByte_NotInverted(data) ==
  /\ mouse_cycle = 2
  /\ mouse_packet' = [mouse_packet EXCEPT ![3] = data]
  /\ mouse_cycle' = 0
  /\ mouse_buttons' = mouse_packet[1] % 8
  /\ mouse_x' = Clamp(mouse_x + Signed(mouse_packet[2]))
  /\ mouse_y' = Clamp(mouse_y + Signed(data))

\* The packet is complete.  The vertical axis points upwards in PS/2.
ThirdByte(data) ==
  /\ mouse_cycle = 2
  /\ mouse_packet' = [mouse_packet EXCEPT ![3] = data]
  /\ mouse_cycle' = 0
  /\ mouse_buttons' = mouse_packet[1] % 8
  /\ mouse_x' = Clamp(mouse_x + Signed(mouse_packet[2]))
  /\ mouse_y' = Clamp(mouse_y - Signed(data))

mouse_callback ==
  /\ \E data \in Byte :
       /\ Irq12(data)
       /\ \/ FirstByte(data) \/ NotFirstByte(data)
          \/ SecondByte(data) \/ ThirdByte(data)
  /\ UNCHANGED <<pc, config, device, faults>>

-----------------------------------------------------------------------------
mouse_init ==
  \/ mouse_flush_output_buffer
  \/ AskConfig \/ SetDefaults \/ EnableReporting
  \/ mouse_read \/ MouseReadTimeout

Next == mouse_init \/ Answer \/ Send \/ Lose \/ mouse_callback

Spec == Init /\ [][Next]_vars

\* The CPU polls and takes interrupts, the devices answer in the end, and the
\* mouse keeps being used.
FairSpec ==
  /\ Spec
  /\ WF_vars(mouse_init) /\ WF_vars(mouse_callback)
  /\ WF_vars(Answer) /\ WF_vars(Send)

-----------------------------------------------------------------------------
(* Properties                                                               *)

\* Type invariant; the position stays on the grid that put_num3 can show.
TypeOK ==
  /\ pc \in {"flush", "config", "defaults", "enable", "stream"} \cup DOMAIN After
  /\ config \in Byte
  /\ mouse_cycle \in 0 .. 2 /\ mouse_packet \in [1 .. 3 -> Byte]
  /\ mouse_x \in 0 .. MAX_POS /\ mouse_y \in 0 .. MAX_POS
  /\ mouse_buttons \in 0 .. 7
  /\ out \in Byte \cup {NONE} /\ reply \in Seq(Byte) /\ streaming \in BOOLEAN
  /\ sending \in Packet /\ phase \in 0 .. 2
  /\ faults \in 0 .. MAX_FAULTS

\* The configuration written back is the controller's own with IRQ12 and the
\* mouse's clock enabled, not a byte that was lying in the buffer.
ConfigKept ==
  (faults = 0 /\ pc \notin {"flush", "config", "config_read"}) =>
    /\ Bit(config, 1) /\ ~Bit(config, 5)
    /\ \A i \in {0, 2, 3, 4, 6, 7} : Bit(config, i) = Bit(CFG, i)

\* The byte the driver will take next has the place in its packet that the
\* driver believes, counting the byte that waits in the output buffer.
Waiting == IF out = NONE THEN 0 ELSE 1
Aligned == reply = <<>> /\ (mouse_cycle + Waiting) % 3 = phase

\* "decaler d'un cran": as long as no answer is late and no byte is stolen no
\* acknowledgement is left behind and the driver stays in step with the mouse.
StaysAligned == (pc = "stream" /\ faults = 0) => Aligned

\* Without faults the pointer moves exactly as each packet says, sign and
\* clamping included, and only when the packet is complete.
PacketsApplied ==
  [][faults' = 0 =>
       IF mouse_cycle = 2 /\ mouse_cycle' = 0
       THEN /\ mouse_x' = Clamp(mouse_x + Signed(sending[2]))
            /\ mouse_y' = Clamp(mouse_y - Signed(sending[3]))
            /\ mouse_buttons' = sending[1] % 8
       ELSE UNCHANGED <<mouse_x, mouse_y, mouse_buttons>>]_vars

\* "sert a se resynchroniser si jamais on a perdu le cadencement": after the
\* last fault the driver is in step with the mouse again, and stays so.
Resynchronises == <>[]Aligned
-----------------------------------------------------------------------------
(* The inductive invariant                                                  *)

\* As long as nothing goes wrong the controller's buffer is empty whenever
\* mouse_init asks for something, and holds the one answer, or is about to,
\* whenever it waits for one.
ProtocolInv ==
  LET Awaits(b) == <<out, reply>> \in {<<NONE, <<b>>>>, <<b, <<>>>>}
  IN  /\ streaming <=> pc \in {"enable_ack", "stream"}
      /\ pc \in {"flush", "config", "defaults", "enable"} => reply = <<>>
      /\ pc \in {"config", "defaults", "enable"} => out = NONE
      /\ pc = "config_read" => Awaits(CFG)
      /\ pc \in {"defaults_ack", "enable_ack"} => Awaits(ACK)
      /\ pc # "stream" => phase = 0 /\ mouse_cycle = 0
      /\ pc \notin {"flush", "config", "config_read"} => config = Enabled(CFG)

\* The bytes of a packet that the driver has are those that the mouse has sent.
PacketInv ==
  pc = "stream" =>
    /\ Aligned
    /\ out # NONE => out = sending[mouse_cycle + 1]
    /\ \A k \in 1 .. mouse_cycle : mouse_packet[k] = sending[k]

IInv == TypeOK /\ (faults = 0 => ProtocolInv /\ PacketInv)
=============================================================================
