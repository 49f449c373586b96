--------------------------- MODULE MCConfigStore ----------------------------
(* ConfigStore with a header and one word, and firmware of two words.      *)
EXTENDS ConfigStore

MCFirmware == <<7, 8>>
=============================================================================
