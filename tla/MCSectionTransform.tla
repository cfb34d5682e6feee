------------------------- MODULE MCSectionTransform -------------------------
(***************************************************************************)
(* Every boards.txt of at most five lines over: blank, comment, and the   *)
(* keys dev (the ESP32 Dev Module name), other (another ".name=" key) and  *)
(* up (an ordinary key) of the esp32, nuttyfi32 and other boards.  Five   *)
(* lines fit an anchor, a comment or a blank line inside the section, a    *)
(* key after it, the line that ends it and a line after the end.          *)
(***************************************************************************)
EXTENDS SectionTransform

MCKeys == {"dev", "other", "up"}
MCNameKeys == {"dev", "other"}

=============================================================================
