---------------------------- MODULE CdcHandshake ----------------------------
(***************************************************************************)
(* qcrate_cdc_handshake: the four-phase handshake that carries every       *)
(* command, status, sequence and DSP-configuration bundle between the      *)
(* control and the stream clock.  The clocks are unrelated, so a behaviour *)
(* is an arbitrary interleaving of source and destination edges; a         *)
(* synchronizer that samples a changing bit sees the old or the new value, *)
(* which is the choice of which edge comes first.  Neither domain is reset *)
(* on its own after the board has started.                                 *)
(***************************************************************************)
CONSTANTS
  Data,    \* the bundles
  Zero,    \* '0, the reset value of the data registers
  NoMail   \* stands for "nothing in transit"

ASSUME DataAssumption == Zero \in Data /\ NoMail \notin Data

VARIABLES
  src_data_q, src_send_q, src_busy_o,        \* source registers
  src_send_sync_ff1, src_send_sync_ff2,      \* request seen by the destination
  xpm_dest_req_q, xpm_dest_data_q, dest_ack_q,
  dest_ack_sync_ff1, dest_ack_sync_ff2,      \* acknowledge seen by the source
  received                                   \* what the receiver latched

src == <<src_data_q, src_send_q, src_busy_o, dest_ack_sync_ff1,
         dest_ack_sync_ff2>>
dest == <<src_send_sync_ff1, src_send_sync_ff2, xpm_dest_req_q,
          xpm_dest_data_q, dest_ack_q, received>>
cdc_vars == <<src, dest>>

src_rcv == dest_ack_sync_ff2
dest_valid_o == xpm_dest_req_q /\ ~dest_ack_q

CdcInit ==
  /\ src_data_q = Zero /\ src_send_q = FALSE /\ src_busy_o = FALSE
  /\ src_send_sync_ff1 = FALSE /\ src_send_sync_ff2 = FALSE
  /\ xpm_dest_req_q = FALSE /\ xpm_dest_data_q = Zero /\ dest_ack_q = FALSE
  /\ dest_ack_sync_ff1 = FALSE /\ dest_ack_sync_ff2 = FALSE
  /\ received = Zero

(* Mutant: a new bundle is accepted while busy. *)
SrcOverwrites(src_send_i, src_data_i) ==
  \/ /\ src_send_i
     /\ src_data_q' = src_data_i /\ src_send_q' = TRUE /\ src_busy_o' = TRUE
  \/ /\ ~src_send_i /\ src_send_q /\ src_rcv
     /\ src_send_q' = FALSE /\ UNCHANGED <<src_data_q, src_busy_o>>
  \/ /\ ~src_send_i /\ ~(src_send_q /\ src_rcv)
     /\ src_busy_o' = (src_busy_o /\ (src_send_q \/ src_rcv))
     /\ UNCHANGED <<src_data_q, src_send_q>>

(* The source process: its three branches, in priority order. *)
SrcControl(src_send_i, src_data_i) ==
  \/ /\ ~src_busy_o /\ src_send_i
     /\ src_data_q' = src_data_i /\ src_send_q' = TRUE /\ src_busy_o' = TRUE
  \/ /\ ~(~src_busy_o /\ src_send_i)
     /\ src_send_q /\ src_rcv
     /\ src_send_q' = FALSE /\ UNCHANGED <<src_data_q, src_busy_o>>
  \/ /\ ~(~src_busy_o /\ src_send_i) /\ ~(src_send_q /\ src_rcv)
     /\ src_busy_o' = (src_busy_o /\ (src_send_q \/ src_rcv))
     /\ UNCHANGED <<src_data_q, src_send_q>>

(* One edge of src_clk_i. *)
SrcEdge(src_send_i, src_data_i) ==
  /\ SrcControl(src_send_i, src_data_i)
  /\ dest_ack_sync_ff1' = dest_ack_q
  /\ dest_ack_sync_ff2' = dest_ack_sync_ff1
  /\ UNCHANGED dest

(* Mutants: acknowledged without the receiver; never withdrawn. *)
DestAckUnasked(dest_accept_i) == dest_ack_q' = xpm_dest_req_q
DestAckStuck(dest_accept_i) ==
  dest_ack_q' = (dest_ack_q \/ (xpm_dest_req_q /\ dest_accept_i))

(* dest_ack_q follows the request down and the receiver's accept up. *)
DestAck(dest_accept_i) ==
  dest_ack_q' = (xpm_dest_req_q /\ (dest_ack_q \/ dest_accept_i))

(* The data registers are sampled when the synchronized request rises. *)
DestSample ==
  xpm_dest_data_q' = IF src_send_sync_ff2 /\ ~xpm_dest_req_q
                     THEN src_data_q ELSE xpm_dest_data_q

(* One edge of dest_clk_i; the receiver latches the bundle it accepts. *)
DestEdge(dest_accept_i) ==
  /\ src_send_sync_ff1' = src_send_q
  /\ src_send_sync_ff2' = src_send_sync_ff1
  /\ xpm_dest_req_q' = src_send_sync_ff2
  /\ DestSample
  /\ DestAck(dest_accept_i)
  /\ received' = IF dest_valid_o /\ dest_accept_i
                 THEN xpm_dest_data_q ELSE received
  /\ UNCHANGED src

CdcNext ==
  \/ \E send \in BOOLEAN, bundle \in Data : SrcEdge(send, bundle)
  \/ \E accept \in BOOLEAN : DestEdge(accept)

CdcSpec == CdcInit /\ [][CdcNext]_cdc_vars

(* Both clocks run and the receiver does not refuse a bundle for ever:     *)
(* dest_accept_i is tied to 1 in the command and status crossings.         *)
CdcFairSpec ==
  /\ CdcSpec
  /\ WF_cdc_vars(\E send \in BOOLEAN, bundle \in Data : SrcEdge(send, bundle))
  /\ WF_cdc_vars(DestEdge(TRUE))
-----------------------------------------------------------------------------
(* Properties. *)

(* Every register keeps its type. *)
RegistersOK ==
  /\ src_data_q \in Data /\ xpm_dest_data_q \in Data /\ received \in Data
  /\ src_send_q \in BOOLEAN /\ src_busy_o \in BOOLEAN
  /\ src_send_sync_ff1 \in BOOLEAN /\ src_send_sync_ff2 \in BOOLEAN
  /\ xpm_dest_req_q \in BOOLEAN /\ dest_ack_q \in BOOLEAN
  /\ dest_ack_sync_ff1 \in BOOLEAN /\ dest_ack_sync_ff2 \in BOOLEAN

(* The request wave climbs, or falls, through the six stages in order: a   *)
(* stage is never ahead of the one that feeds it.                          *)
Climbing ==
  /\ src_send_sync_ff2 => src_send_sync_ff1
  /\ xpm_dest_req_q => src_send_sync_ff2
  /\ dest_ack_q => xpm_dest_req_q
  /\ dest_ack_sync_ff1 => dest_ack_q
  /\ dest_ack_sync_ff2 => dest_ack_sync_ff1

Falling ==
  /\ src_send_sync_ff1 => src_send_sync_ff2
  /\ src_send_sync_ff2 => xpm_dest_req_q
  /\ xpm_dest_req_q => dest_ack_q
  /\ dest_ack_q => dest_ack_sync_ff1
  /\ dest_ack_sync_ff1 => dest_ack_sync_ff2

(* One wave at a time, and the source is busy until it has died out. *)
OneWave ==
  /\ IF src_send_q THEN Climbing ELSE Falling
  /\ src_send_q \/ dest_ack_sync_ff2 => src_busy_o

(* "Destination data is stable while valid": from the moment the request   *)
(* is visible until the source withdraws it, the destination shows the     *)
(* bundle that was sent and the source register does not move under it.    *)
DataStable ==
  (xpm_dest_req_q /\ src_send_q) => xpm_dest_data_q = src_data_q

(* "Source data is accepted only while idle and remains owned by the       *)
(* wrapper until the destination acknowledges it": the crossing is a       *)
(* one-place mailbox, so no bundle is lost, duplicated, torn or mixed with *)
(* the next one.                                                           *)
InTransit == IF src_send_q /\ ~dest_ack_q THEN src_data_q ELSE NoMail

Box == INSTANCE Mailbox WITH Reset <- Zero, mail <- InTransit

ImplementsMailbox == Box!Spec

(* The source becomes free again: no phase of the handshake waits for      *)
(* another one that waits for it.                                          *)
BusyEnds == src_busy_o ~> ~src_busy_o
=============================================================================
