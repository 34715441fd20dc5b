---------------------------- MODULE MCPacketLoad ----------------------------
(***************************************************************************)
(* Files of up to three packets of the real size, 188 bytes, and up to one *)
(* byte less than a packet behind them.  Sound packets: payload only, a    *)
(* PCR, private data, an empty field, a field and no payload.  Others:     *)
(* neither field nor payload, a field that leaves a gap (of 181 and of 94  *)
(* bytes: the cursor comes back into step), flags longer than the field,   *)
(* private data past the end of the file, a field longer than the packet,  *)
(* and one longer than that with no payload.                               *)
(***************************************************************************)
EXTENDS PacketLoad

Frame(field, payload, len, fixed, private, private_size) ==
  [field |-> field, payload |-> payload, len |-> len, fixed |-> fixed,
   private |-> private, private_size |-> private_size]

MCFrames ==
  {Frame(FALSE, TRUE, 0, 1, FALSE, 0), Frame(TRUE, TRUE, 7, 7, FALSE, 0),
   Frame(TRUE, TRUE, 18, 2, TRUE, 15), Frame(TRUE, TRUE, 0, 1, FALSE, 0),
   Frame(TRUE, FALSE, 183, 1, FALSE, 0),
   Frame(FALSE, FALSE, 0, 1, FALSE, 0), Frame(TRUE, FALSE, 2, 1, FALSE, 0),
   Frame(TRUE, FALSE, 89, 1, FALSE, 0), Frame(TRUE, TRUE, 3, 7, FALSE, 0),
   Frame(TRUE, TRUE, 183, 1, TRUE, 255), Frame(TRUE, TRUE, 184, 1, FALSE, 0),
   Frame(TRUE, FALSE, 255, 1, FALSE, 0)}

=============================================================================
