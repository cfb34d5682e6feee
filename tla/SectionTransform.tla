-------------------------- MODULE SectionTransform --------------------------
(***************************************************************************)
(* The boards.txt part of rename_esp32_to_nuttyfi32() in                   *)
(* src/build_nuttyfi32_complete_auto_final.py: find the "ESP32 Dev Module" *)
(* section, and insert right after it a copy in which every esp32. key is  *)
(* renamed nuttyfi32., under a banner.                                     *)
(*                                                                         *)
(* A line of boards.txt is abstracted, after strip(), to what the code     *)
(* tests of it: blank, a comment (starts with #), or a key line            *)
(* "<board>.<key>=<value>" given by its board prefix and its key; keys in  *)
(* NameKeys are the "name=" keys, DevName is "name=ESP32 Dev Module".      *)
(* Indexes are 1-based: the Python index i is i + 1 here, and len(lines)   *)
(* as an end index is Len(t) + 1.                                          *)
(***************************************************************************)
EXTENDS Naturals, Sequences, FiniteSets

CONSTANTS
    Keys,       \* keys after the board prefix (menu.*, upload.*, name=...)
    NameKeys,   \* the keys that contain ".name="
    DevName,    \* the key of the anchor: "name=ESP32 Dev Module"
    MaxLines    \* longest boards.txt the runs enumerate

ASSUME SectionAssumption ==
    /\ NameKeys \subseteq Keys
    /\ DevName \in NameKeys
    /\ MaxLines \in Nat

Boards == {"esp32", "nuttyfi32", "other"}
KeyLines == [board : Boards, key : Keys]
Blank == [board |-> "", key |-> "blank"]
Comment == [board |-> "#", key |-> "comment"]
Lines == KeyLines \cup {Blank, Comment}

(* "esp32.name=ESP32 Dev Module"                                           *)
Anchor == [board |-> "esp32", key |-> DevName]
(* line.strip().startswith('esp32.')                                       *)
StartsOld(l) == l.board = "esp32"
(* '.name=' in line                                                        *)
HasNameMarker(l) == l \in KeyLines /\ l.key \in NameKeys

MinOf(S) == CHOOSE i \in S : \A j \in S : i <= j

(* The first loop: esp32_start is the first anchor line.  0 if none.       *)
SectionStart(t) ==
    LET A == {i \in DOMAIN t : t[i] = Anchor}
    IN  IF A = {} THEN 0 ELSE MinOf(A)

(* The first loop, elif branch: the first line after the anchor that is    *)
(* not blank, not an esp32. line (esp32.menu. included) and not a comment. *)
(* 0 if there is none.                                                     *)
EndsSectionAtComment(l) == l # Blank /\ ~StartsOld(l)
EndsSection(l) == l # Blank /\ ~StartsOld(l) /\ l # Comment
ScanEnd(t, s) ==
    LET E == {i \in s + 1 .. Len(t) : EndsSection(t[i])}
    IN  IF E = {} THEN 0 ELSE MinOf(E)

(* When the first loop found no end: the next line with ".name=" that is   *)
(* neither an esp32. line nor a comment, else the end of the file.         *)
FallbackEnd(t, s) ==
    LET E == {i \in s + 1 .. Len(t) :
                 HasNameMarker(t[i]) /\ ~StartsOld(t[i]) /\ t[i] # Comment}
    IN  IF E = {} THEN Len(t) + 1 ELSE MinOf(E)

SectionEnd(t, s) ==
    IF ScanEnd(t, s) # 0 THEN ScanEnd(t, s) ELSE FallbackEnd(t, s)

(* The copy loop: esp32. lines renamed (first occurrence of the prefix),   *)
(* blank lines and comments copied, any other line dropped.                *)
RenamedMalformed(l) ==
    IF StartsOld(l) THEN [l EXCEPT !.board = "nuttyfi32."] ELSE l
RenamedForgotten(l) == l
Renamed(l) == IF StartsOld(l) THEN [l EXCEPT !.board = "nuttyfi32"] ELSE l
Copied(l) == StartsOld(l) \/ l = Blank \/ l = Comment
Banner == <<Blank, Comment, Comment, Comment, Blank>>
(* The indexes of the section lines the loop appends, and the rank of one  *)
(* of them: how many appended lines come up to it.  The k-th line the loop *)
(* appends is the one of rank k, so the copy keeps the section's order.    *)
CopiedAt(sec) == {i \in DOMAIN sec : Copied(sec[i])}
Rank(I, i) == Cardinality({j \in I : j <= i})
NewSection(sec) ==
    LET I == CopiedAt(sec)
    IN  Banner \o [k \in 1 .. Cardinality(I) |->
                      Renamed(sec[CHOOSE i \in I : Rank(I, i) = k])]

DuplicateSectionOverwrite(t) ==
    LET s == SectionStart(t)
    IN  IF s = 0 THEN t
        ELSE LET e == SectionEnd(t, s)
             IN  SubSeq(t, 1, s - 1) \o NewSection(SubSeq(t, s, e - 1))
                   \o SubSeq(t, e, Len(t))

(* The whole boards.txt edit: no anchor, no change; otherwise the new      *)
(* section is spliced in at the end index (lines[end:end] = ...).          *)
DuplicateSection(t) ==
    LET s == SectionStart(t)
    IN  IF s = 0 THEN t
        ELSE LET e == SectionEnd(t, s)
             IN  SubSeq(t, 1, e - 1) \o NewSection(SubSeq(t, s, e - 1))
                   \o SubSeq(t, e, Len(t))

-----------------------------------------------------------------------------
(* One call of the transformation on one boards.txt.                       *)
VARIABLES text, out, done

vars == <<text, out, done>>

(* Sequences over S of length at most n.                                   *)
SeqUpTo(S, n) == UNION {[1 .. m -> S] : m \in 0 .. n}

TypeOK ==
    /\ text \in Seq(Lines)
    /\ out \in Seq(Lines)
    /\ done \in BOOLEAN

Init ==
    /\ text \in SeqUpTo(Lines, MaxLines)
    /\ out = <<>>
    /\ done = FALSE

Duplicate ==
    /\ ~done
    /\ out' = DuplicateSection(text)
    /\ done' = TRUE
    /\ UNCHANGED text

Next == Duplicate

Spec == Init /\ [][Next]_vars

-----------------------------------------------------------------------------
(* The section as the spec defines it: the anchor and the lines after it   *)
(* up to the first one that is neither blank, a comment nor an esp32. key. *)
SectionLine(l) == l = Blank \/ l = Comment \/ StartsOld(l)
SpecEnd(t, s) ==
    CHOOSE e \in s + 1 .. Len(t) + 1 :
        /\ \A i \in s + 1 .. e - 1 : SectionLine(t[i])
        /\ e <= Len(t) => ~SectionLine(t[e])

(* Every key line of a boards.txt occurs once.                             *)
UniqueKeys(t) ==
    \A i, j \in DOMAIN t : i # j /\ t[i] \in KeyLines => t[i] # t[j]

(* The two loops that look for the end of the ESP32 Dev Module section     *)
(* (the scan, and the ".name=" fallback when the scan finds nothing) end   *)
(* it exactly where the spec's definition of the section ends, for every   *)
(* boards.txt with the anchor: no esp32. key after a comment or a blank    *)
(* line is left out, and no other board's key is taken in.                 *)
SectionEndAgrees ==
    SectionStart(text) # 0 =>
        SectionEnd(text, SectionStart(text)) = SpecEnd(text, SectionStart(text))

(* The edit only inserts: the original boards.txt survives line for line,  *)
(* with one contiguous block inserted at a point after the anchor.  The    *)
(* esp32 board stays installable next to nuttyfi32.                        *)
OriginalPreserved ==
    done =>
        \E a \in SectionStart(text) .. Len(text) :
            LET ins == Len(out) - Len(text)
            IN  /\ ins >= 0
                /\ SubSeq(out, 1, a) = SubSeq(text, 1, a)
                /\ SubSeq(out, a + ins + 1, Len(out)) = SubSeq(text, a + 1, Len(text))

(* Applied once to a boards.txt with unique keys and no nuttyfi32 board,   *)
(* the edit leaves every key unique: the copied section defines only       *)
(* nuttyfi32. keys, and the Arduino IDE sees no key defined twice.         *)
KeysUniqueAfterOnce ==
    (done /\ UniqueKeys(text) /\ \A i \in DOMAIN text : text[i].board # "nuttyfi32")
        => UniqueKeys(out)

=============================================================================
