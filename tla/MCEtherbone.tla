----------------------------- MODULE MCEtherbone -----------------------------
(* Small packets for Etherbone: records of writes, of reads or of both. *)
EXTENDS Etherbone

Packet(type, wcount, rcount) == [type |-> type, wcount |-> wcount, rcount |-> rcount]

\* Records of one part, up to the size that just fits, a probe and a foreign packet.
MCKinds == {Packet("record", 2, 0), Packet("record", 0, 2),
            Packet("probe", 0, 0), Packet("other", 0, 0)}

\* ... and a record with both parts.
MCMixedKinds == {Packet("record", 1, 0), Packet("record", 1, 1), Packet("record", 0, 1)}
=============================================================================
