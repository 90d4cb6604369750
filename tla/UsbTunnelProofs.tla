---------------------------- MODULE UsbTunnelProofs ----------------------------
(***************************************************************************)
(* The invariant of the USB tunnel: each of its actions preserves it, for    *)
(* any number of blocks, transmissions and exchanges.  FirmwareUpdateProofs  *)
(* uses it for the composed system.                                         *)
(***************************************************************************)
EXTENDS UsbTunnel, SequenceTheorems, TLAPS

Asking == {"requested", "awaiting"}
Packets == [seq : 0 .. Blocks - 1, ok : BOOLEAN]
Acks == [seq : 0 .. Blocks - 1, code : 0 .. 2]

\* TunnelTypeOK in three parts.
PcType ==
  pc \in [at : {"idle", "asking", "send", "await", "tail", "done", "failed"},
          seq : 0 .. Blocks, tries : 0 .. MaxTries, sessions : 0 .. MaxSessions]
EndsType ==
  /\ usb \in {"off", "requested", "awaiting", "raw"}
  /\ tun \in [at : {"off", "starting", "raw"}, next : 0 .. Blocks]
  /\ hold \in BOOLEAN /\ reply \in BOOLEAN
LinesType ==
  wire \in Seq(Packets) /\ acks \in Seq(Acks) /\ tcp \in Seq(0 .. Blocks - 1)

\* The PC has a block to send as long as it sends, and a transmission left.
PcInv ==
  /\ pc.at \in {"send", "await"} => pc.seq < Blocks
  /\ pc.at = "send" => pc.tries < MaxTries
  /\ pc.at = "asking" => pc.seq = 0 /\ pc.tries = 0
  /\ usb \in Asking => pc.at = "asking"

\* The tunnel counts what it has passed on, and acknowledges nothing else.
PassInv ==
  /\ tun.at = "starting" => tun.next = 0 /\ tcp = <<>>
  /\ tun.at = "raw" => tun.next = Len(tcp)
  /\ tun.at # "raw" => acks = <<>>
  /\ \A i \in 1 .. Len(acks) : acks[i].code = 0 => acks[i].seq < Len(tcp)
  /\ \A i \in 1 .. Len(tcp) : tcp[i] = i - 1
  /\ pc.at \in Sending => tun.at = "raw" /\ pc.seq <= Len(tcp)

TunnelInv == PcType /\ EndsType /\ LinesType /\ PcInv /\ PassInv

-----------------------------------------------------------------------------

LEMMA TunnelInvTypes == TunnelInv => TunnelTypeOK
BY DEF TunnelInv, TunnelTypeOK, PcType, EndsType, LinesType, Packets, Acks

LEMMA NoPackets ==
    /\ <<>> \in Seq(Packets) /\ <<>> \in Seq(Acks) /\ <<>> \in Seq(0 .. Blocks - 1)
    /\ Len(<<>>) = 0
BY EmptySeq

LEMMA TunnelInitInv == TunnelInit => TunnelInv
<1> SUFFICES ASSUME TunnelInit PROVE TunnelInv
  OBVIOUS
<1>1. PcType
  BY TunnelAssumption, SMT DEF TunnelInit, PcType
<1>a. tun \in [at : {"off", "starting", "raw"}, next : 0 .. Blocks]
  BY TunnelAssumption, SMT DEF TunnelInit, TunnelOff
<1>2. EndsType
  BY <1>a DEF TunnelInit, EndsType
<1>3. LinesType
  BY NoPackets DEF TunnelInit, LinesType
<1>4. PcInv
  BY SMT DEF TunnelInit, PcInv, Asking
<1>5. PassInv
  BY NoPackets, SMT DEF TunnelInit, PassInv, TunnelOff, Sending
<1>6. QED
  BY <1>1, <1>2, <1>3, <1>4, <1>5 DEF TunnelInv

LEMMA AskUsbInv ==
    ASSUME TunnelInv, NEW c \in BOOLEAN, AskUsb(c)
    PROVE  TunnelInv'
<1>1. /\ tun' = tun /\ wire' = wire /\ acks' = acks /\ tcp' = tcp /\ reply' = reply
      /\ hold' = hold
  BY DEF AskUsb, lineVars
<1>2. PcType' /\ EndsType'
  BY <1>1, TunnelAssumption, SMT DEF AskUsb, TunnelInv, PcType, EndsType
<1>3. LinesType'
  BY <1>1 DEF TunnelInv, LinesType
<1>4. PcInv'
  BY <1>1, TunnelAssumption, SMT DEF AskUsb, PcInv, Asking
<1>5. PassInv'
  BY <1>1, SMT DEF AskUsb, TunnelInv, PassInv, Sending
<1>6. QED
  BY <1>2, <1>3, <1>4, <1>5 DEF TunnelInv

LEMMA OpenUsbInv ==
    ASSUME TunnelInv, NEW r \in BOOLEAN, NEW a \in BOOLEAN, OpenUsb(r, a)
    PROVE  TunnelInv'
<1>1. pc' = pc /\ usb = "requested" /\ usb' = "awaiting" /\ hold' = TRUE
  BY DEF OpenUsb
<1>2. PcType' /\ PcInv'
  BY <1>1, SMT DEF TunnelInv, PcType, PcInv, Asking
<1>3. CASE a /\ ~TunnelActive
  <2>1. /\ tun' = [at |-> "starting", next |-> 0]
        /\ wire' = <<>> /\ acks' = <<>> /\ tcp' = <<>> /\ reply' = FALSE
    BY <1>3 DEF OpenUsb
  <2>a. tun' \in [at : {"off", "starting", "raw"}, next : 0 .. Blocks]
    BY <2>1, TunnelAssumption, SMT
  <2>2. EndsType'
    BY <1>1, <2>1, <2>a DEF EndsType
  <2>3. LinesType'
    BY <2>1, NoPackets DEF LinesType
  <2>4. pc'.at \notin Sending
    BY <1>1 DEF TunnelInv, PcInv, Asking, Sending
  <2>5. PassInv'
    BY <2>1, <2>4, NoPackets, SMT DEF PassInv
  <2>6. QED
    BY <1>2, <2>2, <2>3, <2>5 DEF TunnelInv
<1>4. CASE ~(a /\ ~TunnelActive)
  <2>1. tun' = tun /\ wire' = wire /\ acks' = acks /\ tcp' = tcp /\ reply' = reply
    BY <1>4 DEF OpenUsb, lineVars
  <2>2. EndsType'
    BY <1>1, <2>1, SMT DEF TunnelInv, EndsType
  <2>3. LinesType' /\ PassInv'
    BY <1>1, <2>1 DEF TunnelInv, LinesType, PassInv
  <2>4. QED
    BY <1>2, <2>2, <2>3 DEF TunnelInv
<1>5. QED
  BY <1>3, <1>4

LEMMA UsbUnavailableInv ==
    ASSUME TunnelInv, UsbUnavailable
    PROVE  TunnelInv'
<1>1. tun' = tun /\ wire' = wire /\ acks' = acks /\ tcp' = tcp /\ reply' = reply
  BY DEF UsbUnavailable, lineVars
<1>2. PcType' /\ PcInv'
  BY <1>1, TunnelAssumption, SMT
     DEF UsbUnavailable, PcStops, PcAt, TunnelInv, PcType, PcInv, Asking
<1>a. hold' \in BOOLEAN /\ usb' = "off"
  BY DEF UsbUnavailable, TunnelInv, EndsType
<1>b. EndsType'
  BY <1>1, <1>a DEF TunnelInv, EndsType
<1>3. LinesType'
  BY <1>1 DEF TunnelInv, LinesType
<1>4. PassInv'
  BY <1>1, SMT DEF UsbUnavailable, PcStops, PcAt, TunnelInv, PcType, PassInv, Sending
<1>5. QED
  BY <1>2, <1>b, <1>3, <1>4 DEF TunnelInv

LEMMA TunnelReadyInv ==
    ASSUME TunnelInv, TunnelReady
    PROVE  TunnelInv'
<1>1. /\ tun.at = "starting" /\ tun' = [tun EXCEPT !.at = "raw"]
      /\ wire' = wire /\ acks' = acks /\ tcp' = tcp /\ reply' = reply
  BY DEF TunnelReady, lineVars
<1>2. PcType' /\ PcInv'
  BY <1>1, TunnelAssumption, SMT DEF TunnelReady, TunnelInv, PcType, PcInv, Asking
<1>a. /\ hold' \in BOOLEAN /\ reply' \in BOOLEAN
      /\ usb' \in {"off", "requested", "awaiting", "raw"}
  BY <1>1 DEF TunnelReady, TunnelInv, EndsType
<1>b. tun' \in [at : {"off", "starting", "raw"}, next : 0 .. Blocks]
  BY <1>1, SMT DEF TunnelInv, EndsType
<1>3. LinesType'
  BY <1>1 DEF TunnelInv, LinesType
<1>4. tcp = <<>> /\ acks = <<>> /\ tun'.at = "raw" /\ tun'.next = 0
  BY <1>1, SMT DEF TunnelInv, EndsType, PassInv
<1>5. usb = "awaiting" => pc'.seq = 0
  BY SMT DEF TunnelReady, TunnelInv, PcType, PcInv, Asking
<1>6. PassInv'
  BY <1>1, <1>4, <1>5, NoPackets, SMT DEF TunnelReady, TunnelInv, PcType, PassInv, Sending
<1>7. QED
  BY <1>2, <1>a, <1>b, <1>3, <1>6 DEF TunnelInv, EndsType

LEMMA TunnelRefusedInv ==
    ASSUME TunnelInv, TunnelRefused
    PROVE  TunnelInv'
<1>1. /\ tun.at = "starting" /\ tun' = TunnelOff
      /\ wire' = wire /\ acks' = acks /\ tcp' = tcp /\ reply' = reply
  BY DEF TunnelRefused, lineVars
<1>2. PcType' /\ PcInv'
  BY <1>1, TunnelAssumption, SMT
     DEF TunnelRefused, PcStops, PcAt, TunnelInv, PcType, PcInv, Asking
<1>a. /\ hold' \in BOOLEAN /\ reply' \in BOOLEAN
      /\ usb' \in {"off", "requested", "awaiting", "raw"}
  BY <1>1 DEF TunnelRefused, TunnelInv, EndsType
<1>b. tun' \in [at : {"off", "starting", "raw"}, next : 0 .. Blocks]
  BY <1>1, TunnelAssumption, SMT DEF TunnelOff
<1>3. LinesType'
  BY <1>1 DEF TunnelInv, LinesType
<1>c. pc'.at \notin Sending
  BY <1>1, SMT DEF TunnelRefused, TunnelInv, PassInv, PcStops, PcAt, Sending
<1>4. PassInv'
  BY <1>1, <1>c, SMT DEF TunnelInv, PassInv, TunnelOff
<1>5. QED
  BY <1>2, <1>a, <1>b, <1>3, <1>4 DEF TunnelInv, EndsType

LEMMA PcSendInv ==
    ASSUME TunnelInv, PcSend
    PROVE  TunnelInv'
<1>1. /\ usb' = usb /\ hold' = hold /\ tun' = tun /\ acks' = acks /\ tcp' = tcp
      /\ reply' = reply
  BY DEF PcSend
<1>a. /\ pc.at = "send" /\ pc.seq < Blocks /\ pc.tries < MaxTries
      /\ pc' = [at |-> "await", seq |-> pc.seq, tries |-> pc.tries + 1,
                sessions |-> pc.sessions]
  BY DEF PcSend, PcAt, TunnelInv, PcInv
<1>b. /\ pc.seq \in 0 .. Blocks /\ pc.tries \in 0 .. MaxTries
      /\ pc.sessions \in 0 .. MaxSessions
  BY DEF TunnelInv, PcType
<1>c. PcType'
  BY <1>a, <1>b, TunnelAssumption, SMT DEF PcType
<1>d. usb \notin Asking
  BY <1>a DEF TunnelInv, PcInv
<1>2. PcType' /\ PcInv'
  BY <1>1, <1>a, <1>b, <1>c, <1>d, SMT DEF PcInv
<1>3. EndsType'
  BY <1>1 DEF TunnelInv, EndsType
<1>4. [seq |-> pc.seq, ok |-> TRUE] \in Packets
  BY <1>a, <1>b, TunnelAssumption, SMT DEF Packets
<1>5. LinesType'
  BY <1>1, <1>4 DEF PcSend, TunnelInv, LinesType
<1>6. PassInv'
  BY <1>1, <1>a, <1>b, SMT DEF TunnelInv, PassInv, Sending
<1>7. QED
  BY <1>2, <1>3, <1>5, <1>6 DEF TunnelInv

(* A packet that is passed on is the next one, and what is acknowledged was  *)
(* passed on.                                                               *)
LEMMA EspPacketInv ==
    ASSUME TunnelInv, EspPacket
    PROVE  TunnelInv'
<1> DEFINE p == Head(wire)
           pass == p.ok /\ Passes(p.seq)
           code == IF ~p.ok THEN 1 ELSE IF pass \/ Repeated(p.seq) THEN 0 ELSE 2
           ack == [seq |-> p.seq, code |-> code]
<1>1. /\ tun.at = "raw" /\ wire # <<>> /\ wire' = Tail(wire) /\ acks' = Append(acks, ack)
      /\ tcp' = (IF pass THEN Append(tcp, p.seq) ELSE tcp)
      /\ tun' = (IF pass THEN [tun EXCEPT !.next = @ + 1] ELSE tun)
      /\ pc' = pc /\ usb' = usb /\ hold' = hold /\ reply' = reply
  BY DEF EspPacket
<1>2. wire \in Seq(Packets) /\ acks \in Seq(Acks) /\ tcp \in Seq(0 .. Blocks - 1)
  BY DEF TunnelInv, LinesType
<1>3. p \in Packets /\ Tail(wire) \in Seq(Packets)
  BY <1>1, <1>2, HeadTailProperties
<1>4. p.seq \in 0 .. Blocks - 1 /\ code \in 0 .. 2
  BY <1>3, SMT DEF Packets
<1>5. ack \in Acks
  BY <1>4 DEF Acks
<1>6. tun.next = Len(tcp) /\ Len(tcp) \in Nat /\ Len(acks) \in Nat
  BY <1>1, <1>2, LenProperties DEF TunnelInv, PassInv
<1>7. Len(tcp) <= Len(tcp') /\ (code = 0 => p.seq < Len(tcp'))
  BY <1>1, <1>2, <1>4, <1>6, SMT DEF Passes, Repeated
<1>8. PcType' /\ PcInv'
  BY <1>1 DEF TunnelInv, PcType, PcInv
<1>9. EndsType'
  <2>a. tun \in [at : {"off", "starting", "raw"}, next : 0 .. Blocks]
    BY DEF TunnelInv, EndsType
  <2>b. pass => tun.next + 1 \in 0 .. Blocks
    BY <1>4, <2>a, TunnelAssumption, SMT DEF Passes
  <2>1. tun' \in [at : {"off", "starting", "raw"}, next : 0 .. Blocks]
    BY <1>1, <2>a, <2>b
  <2>2. QED
    BY <1>1, <2>1 DEF TunnelInv, EndsType
<1>10. LinesType'
  <2>1. Append(acks, ack) \in Seq(Acks)
    BY <1>2, <1>5, AppendProperties
  <2>2. Append(tcp, p.seq) \in Seq(0 .. Blocks - 1)
    BY <1>2, <1>4, AppendProperties
  <2>3. QED
    BY <1>1, <1>2, <1>3, <2>1, <2>2 DEF LinesType
<1>11. PassInv'
  <2>1. tun'.at = "raw" /\ tun'.next = Len(tcp')
    BY <1>1, <1>2, <1>6, SMT DEF TunnelInv, EndsType
  <2>2. \A i \in 1 .. Len(tcp') : tcp'[i] = i - 1
    <3>1. \A i \in 1 .. Len(tcp) : tcp[i] = i - 1
      BY DEF TunnelInv, PassInv
    <3>2. CASE pass
      <4>1. tcp' = Append(tcp, p.seq) /\ p.seq = Len(tcp)
        <5> HIDE DEF p
        <5>1. QED
          BY <1>1, <1>6, <3>2 DEF Passes
      <4>2. /\ Len(tcp') = Len(tcp) + 1 /\ tcp'[Len(tcp) + 1] = p.seq
            /\ \A i \in 1 .. Len(tcp) : tcp'[i] = tcp[i]
        BY <1>2, <1>4, <4>1, AppendProperties
      <4>3. QED
        BY <1>6, <3>1, <4>1, <4>2, SMT
    <3>3. CASE ~pass
      BY <1>1, <3>1, <3>3
    <3>4. QED
      BY <3>2, <3>3
  <2>3. \A i \in 1 .. Len(acks') : acks'[i].code = 0 => acks'[i].seq < Len(tcp')
    <3>1. Len(acks') = Len(acks) + 1 /\ acks'[Len(acks) + 1] = ack
      BY <1>1, <1>2, <1>5, AppendProperties
    <3>2. \A i \in 1 .. Len(acks) : acks'[i] = acks[i]
      BY <1>1, <1>2, <1>5, AppendProperties
    <3>a. \A i \in 1 .. Len(acks) : acks[i] \in Acks
      BY <1>2, ElementOfSeq
    <3>3. \A i \in 1 .. Len(acks) : acks[i].seq \in Int
      BY <3>a, SMT DEF Acks
    <3>4. TAKE i \in 1 .. Len(acks')
    <3>5. CASE i = Len(acks) + 1
      BY <3>1, <3>5, <1>7
    <3>6. CASE i \in 1 .. Len(acks)
      BY <3>2, <3>3, <3>6, <1>6, <1>7, SMT DEF TunnelInv, PassInv
    <3>7. QED
      BY <3>1, <3>5, <3>6, <1>6, SMT
  <2>4. pc'.at \in Sending => pc'.seq <= Len(tcp')
    BY <1>1, <1>6, <1>7, LenProperties, SMT DEF TunnelInv, PcType, PassInv
  <2>5. QED
    BY <1>1, <2>1, <2>2, <2>3, <2>4 DEF PassInv
<1>12. QED
  BY <1>8, <1>9, <1>10, <1>11 DEF TunnelInv

(* An acknowledgement that is taken off its line leaves the rest as it was.  *)
LEMMA AcksTail ==
    ASSUME TunnelInv, acks # <<>>
    PROVE  /\ Tail(acks) \in Seq(Acks) /\ Len(Tail(acks)) \in Nat
           /\ \A i \in 1 .. Len(Tail(acks)) :
                Tail(acks)[i].code = 0 => Tail(acks)[i].seq < Len(tcp)
           /\ Head(acks) = acks[1] /\ 1 \in 1 .. Len(acks)
<1>1. acks \in Seq(Acks)
  BY DEF TunnelInv, LinesType
<1>2. /\ Head(acks) = acks[1] /\ Tail(acks) \in Seq(Acks)
      /\ Len(Tail(acks)) = Len(acks) - 1
      /\ \A i \in 1 .. Len(Tail(acks)) : Tail(acks)[i] = acks[i + 1]
  BY <1>1, HeadTailProperties
<1>3. Len(acks) \in Nat /\ Len(Tail(acks)) \in Nat
  BY <1>1, <1>2, LenProperties
<1>4. \A i \in 1 .. Len(acks) : acks[i].code = 0 => acks[i].seq < Len(tcp)
  BY DEF TunnelInv, PassInv
<1>5. \A i \in 1 .. Len(Tail(acks)) : i + 1 \in 1 .. Len(acks)
  BY <1>2, <1>3, SMT
<1>6. QED
  BY <1>2, <1>3, <1>4, <1>5, SMT

(* The PC tries a block again or gives up: what it counted is unchanged.     *)
LEMMA PcRetryInv ==
    ASSUME TunnelInv, pc.at = "await"
    PROVE  /\ PcRetry \in [at : {"send", "failed"}, seq : 0 .. Blocks,
                           tries : 0 .. MaxTries, sessions : 0 .. MaxSessions]
           /\ PcRetry.at = "send" => /\ PcRetry.seq = pc.seq /\ pc.seq < Blocks
                                     /\ PcRetry.tries < MaxTries
<1>1. /\ pc.seq \in 0 .. Blocks /\ pc.tries \in 0 .. MaxTries
      /\ pc.sessions \in 0 .. MaxSessions /\ pc.seq < Blocks
  BY DEF TunnelInv, PcType, PcInv
<1>2. QED
  BY <1>1, TunnelAssumption, SMT DEF PcRetry, PcStops, PcAt

(* What a step of the PC alone has to show.                                  *)
LEMMA PcStepInv ==
    ASSUME TunnelInv, pc.at \in {"await", "send", "tail"}, PcType',
           UNCHANGED <<usb, hold, tun, wire, tcp, reply>>,
           acks' = acks \/ (acks # <<>> /\ acks' = Tail(acks)),
           pc'.at # "asking",
           pc'.at \in {"send", "await"} => pc'.seq < Blocks,
           pc'.at = "send" => pc'.tries < MaxTries,
           pc'.at \in Sending => pc'.seq <= Len(tcp)
    PROVE  TunnelInv'
<1>1. usb \notin Asking /\ tun.at = "raw"
  BY DEF TunnelInv, PcInv, PassInv, Sending
<1>2. PcInv'
  BY <1>1 DEF PcInv
<1>3. EndsType'
  BY DEF TunnelInv, EndsType
<1>4. /\ acks' \in Seq(Acks)
      /\ \A i \in 1 .. Len(acks') : acks'[i].code = 0 => acks'[i].seq < Len(tcp)
  BY AcksTail DEF TunnelInv, LinesType, PassInv
<1>5. LinesType'
  BY <1>4 DEF TunnelInv, LinesType
<1>6. PassInv'
  BY <1>1, <1>4 DEF TunnelInv, PassInv
<1>7. QED
  BY <1>2, <1>3, <1>5, <1>6 DEF TunnelInv

LEMMA PcAckInv ==
    ASSUME TunnelInv, PcAck
    PROVE  TunnelInv'
<1> DEFINE ack == Head(acks)
<1>1. /\ pc.at = "await" /\ acks # <<>> /\ acks' = Tail(acks)
      /\ UNCHANGED <<usb, hold, tun, wire, tcp, reply>>
  BY DEF PcAck
<1>2. /\ pc.seq \in 0 .. Blocks /\ pc.seq < Blocks /\ pc.sessions \in 0 .. MaxSessions
      /\ pc.seq <= Len(tcp) /\ Len(tcp) \in Nat
  BY <1>1, LenProperties DEF TunnelInv, PcType, PcInv, PassInv, LinesType, Sending
<1>3. CASE ack.seq = pc.seq /\ ack.code = 0
  <2>1. pc' = [at |-> IF pc.seq + 1 = Blocks THEN "tail" ELSE "send",
               seq |-> pc.seq + 1, tries |-> 0, sessions |-> pc.sessions]
    BY <1>3 DEF PcAck, PcAt
  <2>2. pc.seq < Len(tcp)
    BY <1>1, <1>3, AcksTail DEF TunnelInv, PassInv
  <2>3. PcType' /\ pc'.at # "asking" /\ pc'.at # "await"
    BY <1>2, <2>1, TunnelAssumption, SMT DEF PcType
  <2>4. /\ pc'.seq <= Len(tcp) /\ (pc'.at = "send" => pc'.seq < Blocks)
        /\ pc'.tries < MaxTries
    BY <1>2, <2>1, <2>2, TunnelAssumption, SMT
  <2>5. QED
    BY <1>1, <2>3, <2>4, PcStepInv
<1>4. CASE ~(ack.seq = pc.seq /\ ack.code = 0)
  <2>1. pc' = PcRetry
    BY <1>4 DEF PcAck
  <2>2. PcType' /\ pc'.at \in {"send", "failed"}
    BY <1>1, <2>1, PcRetryInv, SMT DEF PcType
  <2>3. QED
    BY <1>1, <1>2, <2>1, <2>2, PcRetryInv, PcStepInv DEF Sending
<1>5. QED
  BY <1>3, <1>4

LEMMA PcWaitsNoMoreInv ==
    ASSUME TunnelInv, PcWaitsNoMore
    PROVE  TunnelInv'
<1>1. /\ pc.at = "await" /\ pc' = PcRetry /\ acks' = acks
      /\ UNCHANGED <<usb, hold, tun, wire, tcp, reply>>
  BY DEF PcWaitsNoMore, lineVars
<1>2. pc.seq <= Len(tcp)
  BY <1>1 DEF TunnelInv, PassInv, Sending
<1>3. PcType' /\ pc'.at \in {"send", "failed"}
  BY <1>1, PcRetryInv, SMT DEF PcType
<1>4. QED
  BY <1>1, <1>2, <1>3, PcRetryInv, PcStepInv DEF Sending

(* The line to the ESP8684 carries blocks, whatever happens to them there.   *)
LEMMA WireInv ==
    ASSUME TunnelInv, wire' \in Seq(Packets),
           UNCHANGED <<pc, usb, hold, tun, acks, tcp, reply>>
    PROVE  TunnelInv'
BY DEF TunnelInv, PcType, EndsType, LinesType, PcInv, PassInv

LEMMA DamagePacketInv ==
    ASSUME TunnelInv, DamagePacket
    PROVE  TunnelInv'
<1>1. wire \in Seq(Packets) /\ wire # <<>>
  BY DEF DamagePacket, TunnelInv, LinesType
<1>2. Head(wire) \in Packets /\ Tail(wire) \in Seq(Packets)
  BY <1>1, HeadTailProperties
<1>3. [Head(wire) EXCEPT !.ok = FALSE] \in Packets
  BY <1>2 DEF Packets
<1>4. <<[Head(wire) EXCEPT !.ok = FALSE]>> \in Seq(Packets)
  BY <1>3, SMT
<1>5. <<[Head(wire) EXCEPT !.ok = FALSE]>> \o Tail(wire) \in Seq(Packets)
  BY <1>2, <1>4, ConcatProperties
<1>6. QED
  BY <1>5, WireInv DEF DamagePacket

LEMMA LosePacketInv ==
    ASSUME TunnelInv, LosePacket
    PROVE  TunnelInv'
<1>1. Tail(wire) \in Seq(Packets)
  BY HeadTailProperties DEF LosePacket, TunnelInv, LinesType
<1>2. QED
  BY <1>1, WireInv DEF LosePacket

LEMMA LoseAckInv ==
    ASSUME TunnelInv, LoseAck
    PROVE  TunnelInv'
<1>1. /\ acks # <<>> /\ acks' = Tail(acks)
      /\ pc' = pc /\ usb' = usb /\ hold' = hold /\ tun' = tun /\ wire' = wire
      /\ tcp' = tcp /\ reply' = reply
  BY DEF LoseAck
<1>2. PcType' /\ PcInv' /\ EndsType'
  BY <1>1 DEF TunnelInv, PcType, PcInv, EndsType
<1>3. LinesType'
  BY <1>1, AcksTail DEF TunnelInv, LinesType
<1>4. tun.at = "raw"
  BY <1>1 DEF TunnelInv, PassInv
<1>5. PassInv'
  BY <1>1, <1>4, AcksTail DEF TunnelInv, PassInv
<1>6. QED
  BY <1>2, <1>3, <1>5 DEF TunnelInv

(* The tunnel ends: nothing is left on the lines, and the PC no longer sends. *)
LEMMA TunnelOffInv ==
    ASSUME TunnelInv, tun' = TunnelOff, wire' = <<>>, acks' = <<>>, reply' = FALSE,
           tcp' = tcp \/ tcp' = <<>>,
           usb' = usb \/ usb' = "off", hold' \in BOOLEAN,
           pc'.at = "failed" \/ pc'.at = "done" \/ (pc' = pc /\ pc.at \notin Sending),
           usb' \in Asking => pc' = pc,
           pc' = pc \/ \E how \in {"done", "failed"} : pc' = PcStops(how)
    PROVE  TunnelInv'
<1>1. PcType'
  BY TunnelAssumption, SMT DEF TunnelInv, PcType, PcStops, PcAt
<1>2. EndsType'
  <2>1. tun' \in [at : {"off", "starting", "raw"}, next : 0 .. Blocks]
    BY TunnelAssumption, SMT DEF TunnelOff
  <2>2. usb' \in {"off", "requested", "awaiting", "raw"}
    BY DEF TunnelInv, EndsType
  <2>3. QED
    BY <2>1, <2>2 DEF EndsType
<1>3. LinesType'
  BY NoPackets DEF TunnelInv, LinesType
<1>4. PcInv'
  BY SMT DEF TunnelInv, PcInv, Asking, Sending
<1>5. \A i \in 1 .. Len(tcp') : tcp'[i] = i - 1
  BY NoPackets, SMT DEF TunnelInv, PassInv
<1>6. tun'.at = "off" /\ pc'.at \notin Sending
  BY DEF TunnelOff, Sending
<1>7. PassInv'
  BY <1>5, <1>6, NoPackets, SMT DEF PassInv
<1>8. QED
  BY <1>1, <1>2, <1>3, <1>4, <1>7 DEF TunnelInv

LEMMA TunnelClosesInv ==
    ASSUME TunnelInv, TunnelCloses
    PROVE  TunnelInv'
<1>1. usb \in Asking => pc.at = "asking"
  BY DEF TunnelInv, PcInv
<1>2. hold \in BOOLEAN
  BY DEF TunnelInv, EndsType
<1>3. \/ pc' = PcStops("done") /\ pc.at \in Sending
      \/ pc' = PcStops("failed") /\ pc.at \in Sending
      \/ pc' = pc /\ pc.at \notin Sending
  BY DEF TunnelCloses
<1>4. QED
  BY <1>1, <1>2, <1>3, TunnelOffInv DEF TunnelCloses, PcStops, PcAt, Sending

LEMMA StmLeavesRawInv ==
    ASSUME TunnelInv, StmLeavesRaw
    PROVE  TunnelInv'
<1>1. /\ pc' = pc /\ tun' = tun /\ wire' = wire /\ acks' = acks /\ tcp' = tcp
      /\ reply' = reply /\ usb' = "off" /\ hold' = TRUE
  BY DEF StmLeavesRaw, lineVars
<1>2. PcType' /\ LinesType' /\ PassInv'
  BY <1>1 DEF TunnelInv, PcType, LinesType, PassInv
<1>3. EndsType' /\ PcInv'
  BY <1>1 DEF TunnelInv, EndsType, PcInv, Asking
<1>4. QED
  BY <1>2, <1>3 DEF TunnelInv

LEMMA TunnelLostInv ==
    ASSUME TunnelInv, NEW places, Sending \subseteq places, TunnelLost(places),
           usb' = usb \/ usb' = "off", hold' \in BOOLEAN,
           usb' \in Asking => "asking" \notin places
    PROVE  TunnelInv'
<1>1. usb' \in Asking => pc.at = "asking"
  BY DEF TunnelInv, PcInv, Asking
<1>2. \/ pc' = PcStops("failed") /\ pc.at \in places
      \/ pc' = pc /\ pc.at \notin Sending
  BY DEF TunnelLost
<1>3. QED
  BY <1>1, <1>2, TunnelOffInv DEF TunnelLost, PcStops, PcAt

(* Other components may set the hold, and answer on the socket.              *)
LEMMA TunnelHeldInv ==
    ASSUME TunnelInv, UNCHANGED <<pc, usb, tun, wire, acks, tcp>>,
           hold' \in BOOLEAN, reply' \in BOOLEAN
    PROVE  TunnelInv'
BY DEF TunnelInv, PcType, EndsType, LinesType, PcInv, PassInv

LEMMA TunnelStepInv ==
    ASSUME TunnelInv, TunnelStep \/ TunnelFault
    PROVE  TunnelInv'
BY UsbUnavailableInv, TunnelReadyInv, TunnelRefusedInv, PcSendInv, EspPacketInv, PcAckInv,
   PcWaitsNoMoreInv, TunnelClosesInv, StmLeavesRawInv, DamagePacketInv, LosePacketInv,
   LoseAckInv
   DEF TunnelStep, TunnelFault, PcTimeout, LateAnswer, TunnelEnd, TunnelBreaks

LEMMA TunnelInvOrder == TunnelInv => StreamInOrder
<1> SUFFICES ASSUME TunnelInv PROVE StreamInOrder
  OBVIOUS
<1>1. tcp \in Seq(0 .. Blocks - 1)
  BY DEF TunnelInv, LinesType
<1>2. DOMAIN tcp = 1 .. Len(tcp)
  BY <1>1, LenProperties
<1>3. QED
  BY <1>2 DEF TunnelInv, PassInv, StreamInOrder
=============================================================================
