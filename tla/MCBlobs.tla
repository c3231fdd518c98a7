-------------------------------- MODULE MCBlobs --------------------------------
(* Instances of Blobs for TLC. *)
EXTENDS Blobs

MCOneFolder == << <<"photo", "original">> >>
MCOther == <<"photo", "preview">>
=============================================================================
