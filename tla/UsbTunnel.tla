------------------------------ MODULE UsbTunnel ------------------------------
(***************************************************************************)
(* The maintenance path from a PC to the portal: the PC script asks the    *)
(* STM32 for a raw exchange (ATC+USB=2), the STM32 asks the ESP8684 for a   *)
(* tunnel, and the tunnel task of usb_tunnel.c feeds the loopback socket    *)
(* with the blocks it receives, one at a time: every block has a sequence   *)
(* number and a checksum, is acknowledged, and is repeated by the PC when   *)
(* the acknowledgement does not come in time.  Blocks and acknowledgements  *)
(* may be damaged, lost or late.                                            *)
(*                                                                         *)
(* A block is its sequence number; the bytes of its header and its checksum *)
(* are the flag ok.  What the tunnel needs to know of the other components  *)
(* is a parameter of its actions; FirmwareUpdate composes them.             *)
(***************************************************************************)
EXTENDS Integers, Sequences

CONSTANTS
  Blocks,        \* blocks of the request the PC sends
  MaxTries,      \* transmissions of one block (4 in the script)
  MaxSessions    \* bound: exchanges the PC starts

ASSUME TunnelAssumption ==
  /\ Blocks \in Nat \ {0}
  /\ MaxTries \in Nat \ {0}
  /\ MaxSessions \in Nat

VARIABLES
  pc,      \* the PC script: where it is, its block, transmissions, sessions
  usb,     \* STM32: "off", "requested", "awaiting" (usbAwaiting), "raw"
  hold,    \* STM32: otaHoldUntil is running, nothing else may use the ESP
  tun,     \* ESP8684: the tunnel task and next_sequence
  wire,    \* packets on their way to the ESP8684
  acks,    \* acknowledgements on their way to the PC
  tcp,     \* what the loopback socket was given
  reply    \* the HTTP server has answered on that socket

tunnelVars == <<pc, usb, hold, tun, wire, acks, tcp, reply>>
lineVars == <<wire, acks, tcp, reply>>

\* usb_tunnel_busy
TunnelActive == tun.at # "off"

\* Where the script is in its exchange; at the end what it counted is forgotten.
PcAt(place, seq, tries) ==
  [at |-> place, seq |-> seq, tries |-> tries, sessions |-> pc.sessions]
PcStops(how) == PcAt(how, 0, 0)
TunnelOff == [at |-> "off", next |-> 0]

\* The script transmits, or waits for the answer.
Sending == {"send", "await", "tail"}

TunnelInit ==
  /\ pc = [at |-> "idle", seq |-> 0, tries |-> 0, sessions |-> 0]
  /\ usb = "off"
  /\ hold = FALSE
  /\ tun = TunnelOff
  /\ wire = <<>> /\ acks = <<>> /\ tcp = <<>> /\ reply = FALSE

-----------------------------------------------------------------------------
(* Opening: usbCommand, the service loop, usb_tunnel_receive.               *)

\* ATC+USB: refused while a request or a Bluetooth command is pending.
AskUsb(commandPending) ==
  /\ pc.at \in {"idle", "failed", "done"} /\ pc.sessions < MaxSessions
  /\ usb = "off" /\ ~commandPending
  /\ usb' = "requested"
  /\ pc' = [at |-> "asking", seq |-> 0, tries |-> 0, sessions |-> pc.sessions + 1]
  /\ UNCHANGED <<hold, tun, lineVars>>

\* USB_OPEN is sent when the link and the portal are up and no command waits.
\* The ESP8684 takes it unless an update is busy, the portal is down or a
\* tunnel is active; then it does not answer.  The frame may be lost.
OpenUsb(stmReady, admitted) ==
  /\ usb = "requested" /\ stmReady
  /\ usb' = "awaiting" /\ hold' = TRUE
  /\ IF admitted /\ ~TunnelActive
       THEN /\ tun' = [at |-> "starting", next |-> 0]
            /\ wire' = <<>> /\ acks' = <<>> /\ tcp' = <<>> /\ reply' = FALSE
       ELSE UNCHANGED <<tun, lineVars>>
  /\ UNCHANGED pc

\* Fifteen seconds without link or portal, or six without USB_READY: the
\* second clears whatever hold is set.
UsbUnavailable ==
  /\ usb \in {"requested", "awaiting"}
  /\ usb' = "off"
  /\ hold' = IF usb = "awaiting" THEN FALSE ELSE hold
  /\ pc' = PcStops("failed")
  /\ UNCHANGED <<tun, lineVars>>

\* The receiver is armed, the socket connected and USB_READY written: the
\* STM32, if it still waits, enters its raw loop and tells the PC.
TunnelReady ==
  /\ tun.at = "starting"
  /\ tun' = [tun EXCEPT !.at = "raw"]
  /\ IF usb = "awaiting"
       THEN usb' = "raw" /\ hold' = TRUE /\ pc' = [pc EXCEPT !.at = "send"]
       ELSE UNCHANGED <<usb, hold, pc>>
  /\ UNCHANGED lineVars

\* No buffer, no socket, no task: USB_READY 0.
TunnelRefused ==
  /\ tun.at = "starting"
  /\ tun' = TunnelOff
  /\ IF usb = "awaiting"
       THEN usb' = "off" /\ hold' = FALSE /\ pc' = PcStops("failed")
       ELSE UNCHANGED <<usb, hold, pc>>
  /\ UNCHANGED lineVars

-----------------------------------------------------------------------------
(* Transfer: Invoke-LoRaBLEUsbHttp and the loop of tunnel.                  *)

PcSend ==
  /\ pc.at = "send" /\ Len(wire) < 2
  /\ wire' = Append(wire, [seq |-> pc.seq, ok |-> TRUE])
  /\ pc' = PcAt("await", pc.seq, pc.tries + 1)
  /\ UNCHANGED <<usb, hold, tun, acks, tcp, reply>>

(* Mutant: a repeated block is passed on again.                             *)
PassesAgain(seq) == seq \in {tun.next, tun.next - 1}

\* The block the tunnel waits for, and the block it has already passed on.
Passes(seq) == seq = tun.next
Repeated(seq) == tun.next > 0 /\ seq = tun.next - 1

\* One packet: passed to the socket if it is the next one, acknowledged with
\* code 0 also when it is a repetition, 1 for a bad checksum, 2 otherwise.
EspPacket ==
  /\ tun.at = "raw" /\ wire # <<>> /\ Len(acks) < 3
  /\ LET p == Head(wire)
         pass == p.ok /\ Passes(p.seq)
         code == IF ~p.ok THEN 1
                 ELSE IF pass \/ Repeated(p.seq) THEN 0 ELSE 2
     IN /\ tcp' = IF pass THEN Append(tcp, p.seq) ELSE tcp
        /\ tun' = IF pass THEN [tun EXCEPT !.next = @ + 1] ELSE tun
        /\ acks' = Append(acks, [seq |-> p.seq, code |-> code])
  /\ wire' = Tail(wire)
  /\ UNCHANGED <<pc, usb, hold, reply>>

\* The next transmission of the block, or giving up.
PcRetry ==
  IF pc.tries < MaxTries THEN PcAt("send", pc.seq, pc.tries) ELSE PcStops("failed")

PcAck ==
  /\ pc.at = "await" /\ acks # <<>>
  /\ LET ack == Head(acks) IN
       pc' = IF ack.seq = pc.seq /\ ack.code = 0
               THEN PcAt(IF pc.seq + 1 = Blocks THEN "tail" ELSE "send", pc.seq + 1, 0)
               ELSE PcRetry
  /\ acks' = Tail(acks)
  /\ UNCHANGED <<usb, hold, tun, wire, tcp, reply>>

\* Three seconds pass after a loss; or, as a fault, with the packet or its
\* acknowledgement still on the way: the tunnel may be blocked in send.
PcWaitsNoMore ==
  /\ pc.at = "await"
  /\ pc' = PcRetry
  /\ UNCHANGED <<usb, hold, tun, lineVars>>

PcTimeout == wire = <<>> /\ acks = <<>> /\ PcWaitsNoMore
LateAnswer == (wire # <<>> \/ acks # <<>>) /\ PcWaitsNoMore

\* Faults of the two serial lines.
DamagePacket ==
  /\ wire # <<>> /\ Head(wire).ok
  /\ wire' = <<[Head(wire) EXCEPT !.ok = FALSE]>> \o Tail(wire)
  /\ UNCHANGED <<pc, usb, hold, tun, acks, tcp, reply>>

LosePacket ==
  /\ wire # <<>>
  /\ wire' = Tail(wire)
  /\ UNCHANGED <<pc, usb, hold, tun, acks, tcp, reply>>

LoseAck ==
  /\ acks # <<>>
  /\ acks' = Tail(acks)
  /\ UNCHANGED <<pc, usb, hold, tun, wire, tcp, reply>>

-----------------------------------------------------------------------------
(* Closing.                                                                 *)

\* The socket is closed and the PC told that the exchange is over.
TunnelCloses ==
  /\ tun.at = "raw"
  /\ tun' = TunnelOff
  /\ wire' = <<>> /\ acks' = <<>> /\ reply' = FALSE
  /\ pc' = IF pc.at \in Sending
             THEN PcStops(IF reply THEN "done" ELSE "failed") ELSE pc
  /\ UNCHANGED <<usb, hold, tcp>>

\* The whole answer has gone to the PC, or nothing was heard for 15 s, which
\* does not happen while the PC still sends and repeats.
TunnelEnd ==
  /\ reply \/ (wire = <<>> /\ pc.at \notin {"send", "await"})
  /\ TunnelCloses

\* As a fault: bytes overflow, or the socket takes or gives nothing for 3 s.
TunnelBreaks == ~reply /\ TunnelCloses

\* The terminator was read, or 35 s passed: 15 s of hold are left.
StmLeavesRaw ==
  /\ usb = "raw" /\ tun.at # "raw"
  /\ usb' = "off" /\ hold' = TRUE
  /\ UNCHANGED <<pc, tun, lineVars>>

\* The ESP8684 or the whole device lost its power: a PC at one of these places
\* notices.
TunnelLost(places) ==
  /\ tun' = TunnelOff
  /\ wire' = <<>> /\ acks' = <<>> /\ tcp' = <<>> /\ reply' = FALSE
  /\ pc' = IF pc.at \in places THEN PcStops("failed") ELSE pc

TunnelStep ==
  \/ UsbUnavailable \/ TunnelReady \/ TunnelRefused
  \/ PcSend \/ EspPacket \/ PcAck \/ PcTimeout \/ TunnelEnd \/ StmLeavesRaw

TunnelFault == TunnelBreaks \/ LateAnswer \/ DamagePacket \/ LosePacket \/ LoseAck

-----------------------------------------------------------------------------

TunnelTypeOK ==
  /\ pc \in [at : {"idle", "asking", "send", "await", "tail", "done", "failed"},
             seq : 0 .. Blocks, tries : 0 .. MaxTries, sessions : 0 .. MaxSessions]
  /\ usb \in {"off", "requested", "awaiting", "raw"}
  /\ tun \in [at : {"off", "starting", "raw"}, next : 0 .. Blocks]
  /\ wire \in Seq([seq : 0 .. Blocks - 1, ok : BOOLEAN])
  /\ acks \in Seq([seq : 0 .. Blocks - 1, code : 0 .. 2])
  /\ tcp \in Seq(0 .. Blocks - 1)
  /\ hold \in BOOLEAN /\ reply \in BOOLEAN

\* The socket receives the blocks of the PC in order, none twice and none
\* left out, and the PC counts no block that was not passed on: whatever is
\* damaged, lost, late or repeated on the serial lines (usb_tunnel.c, the loop
\* of tunnel, against Usb-Portal.ps1).
StreamInOrder ==
  /\ \A i \in DOMAIN tcp : tcp[i] = i - 1
  /\ (pc.at \in Sending /\ tun.at = "raw") => pc.seq <= Len(tcp)
=============================================================================
