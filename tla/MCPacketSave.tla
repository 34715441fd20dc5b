---------------------------- MODULE MCPacketSave ----------------------------
(***************************************************************************)
(* Lists of up to three packets of the real size: payload only, stuffed by *)
(* one byte and by more, a PCR with room to spare, private data, an empty  *)
(* field, no payload; private data of no bytes, an EBP with and without    *)
(* room for what its size says, and a field longer than the packet.        *)
(***************************************************************************)
EXTENDS PacketSave

Packet(size, field, fixed, private, private_size, ebp) ==
  [size |-> size, field |-> field, fixed |-> fixed, private |-> private,
   private_size |-> private_size, ebp |-> ebp]

MCPackets ==
  {Packet(184, FALSE, 1, FALSE, 0, FALSE), Packet(183, TRUE, 1, FALSE, 0, FALSE),
   Packet(183, FALSE, 1, FALSE, 0, FALSE), Packet(20, FALSE, 1, FALSE, 0, FALSE),
   Packet(170, TRUE, 7, FALSE, 0, FALSE), Packet(166, TRUE, 2, TRUE, 14, FALSE),
   Packet(0, TRUE, 13, FALSE, 0, FALSE), Packet(100, TRUE, 1, TRUE, 0, FALSE),
   Packet(166, TRUE, 1, TRUE, 15, TRUE), Packet(100, TRUE, 1, TRUE, 15, TRUE),
   Packet(0, TRUE, 1, TRUE, 250, FALSE)}

=============================================================================
