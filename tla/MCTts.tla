-------------------------------- MODULE MCTts --------------------------------
(* Two or three lines with a name, and one that is not of the form asked    *)
(* for; the descriptors run out while the file is being worked on.          *)
EXTENDS Tts

MCLines == <<"a", Other, "b", "c">>
MCShort == <<"a", "b">>
=============================================================================
