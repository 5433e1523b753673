------------------------------- MODULE MCImage -------------------------------
(***************************************************************************)
(* Values for the constants of UFSImage that a .cfg cannot write.          *)
(***************************************************************************)
EXTENDS UFSImage

TwoInodes == {<<1, 0, 5, 0>>}
TwoCells  == {<<9, 2>>}

(* No call reads the record of the last one, but a fresh image is told.    *)
Image == <<image, stage, super, last = NoCall>>
=============================================================================
