------------------------------ MODULE IniFile ------------------------------
(***************************************************************************)
(* ini_file.h, ini_file.cpp: a file of sections and key=value lines, read  *)
(* into a multimap of multimaps.  Both keep what has the same name in the  *)
(* order newest first, as insert() gets the place that find() gave.        *)
(*                                                                         *)
(* A line is what its text before a comment says: the name between the     *)
(* first '[' and the last ']', wherever they stand, and the key and the    *)
(* value around the first '='; NONE where there is none.                   *)
(***************************************************************************)
EXTENDS Integers, Sequences, FiniteSetsExt

CONSTANTS Sections, Keys, Values, NONE

ASSUME IniFileAssumption == NONE \notin Sections \cup Keys \cup Values

Lines == [sect : Sections \cup {NONE}, key : Keys \cup {NONE}, value : Values \cup {NONE}]

\* dupSection, dupKey: the policies; cur, skip: where do_open() is.
NewIni(dupSection, dupKey) ==
    [dupSection |-> dupSection, dupKey |-> dupKey, skip |-> TRUE, cur |-> NONE,
     map |-> [s \in Sections |-> <<>>]]

\* do_open() of a file that can be opened; what was read before stays.
Open(ini) == [ini EXCEPT !.skip = TRUE, !.cur = NONE]

\* Fault: a section of the same name goes behind the others.
WithSectionLast(ini, s) ==
    [ini EXCEPT !.map[s] = Append(@, [k \in Keys |-> <<>>]), !.cur = s, !.skip = FALSE]

WithSection(ini, s) ==
    [ini EXCEPT !.map[s] = <<[k \in Keys |-> <<>>]>> \o @, !.cur = s, !.skip = FALSE]

SectionLine(ini, s) ==
    IF ~ini.dupSection /\ ini.map[s] # <<>> THEN [ini EXCEPT !.skip = TRUE]
    ELSE WithSection(ini, s)

WithPair(ini, k, v) == [ini EXCEPT !.map[ini.cur][1][k] = <<v>> \o @]

PairLine(ini, k, v) ==
    IF \/ ini.skip \/ ini.cur = NONE
       \/ k = NONE \/ v = NONE
       \/ ~ini.dupKey /\ ini.map[ini.cur][1][k] # <<>>
    THEN ini
    ELSE WithPair(ini, k, v)

\* A line with brackets is a section, even if it has a '='.
TakeLine(ini, line) ==
    IF line.sect # NONE THEN SectionLine(ini, line.sect)
    ELSE PairLine(ini, line.key, line.value)

\* What open() returns.
Opened(ini) == \E s \in Sections : ini.map[s] # <<>>

Read(ini, s, k) ==
    IF ini.map[s] = <<>> THEN NONE
    ELSE IF ini.map[s][1][k] = <<>> THEN NONE
    ELSE ini.map[s][1][k][1]

Count(ini, s) == Len(ini.map[s])

-----------------------------------------------------------------------------
OPEN == [open |-> TRUE]         \* in the history: another file begins

IsSection(entry) == entry # OPEN /\ entry.sect # NONE

(***************************************************************************)
(* read() gives, of the lines so far, the value of the first line with the *)
(* key (the last, if keys may be repeated) in the first block of the       *)
(* section (the last, if sections may be repeated): the lines from the one *)
(* with the name up to the next with brackets, or the end of the file.  A  *)
(* key that only an earlier block of a repeated section has is not found.  *)
(***************************************************************************)
Expected(ini, lines, s, k) ==
    LET OneOf(S, last) == IF last THEN Max(S) ELSE Min(S)
        starts == {i \in DOMAIN lines : IsSection(lines[i]) /\ lines[i].sect = s}
        start == OneOf(starts, ini.dupSection)
        end == Min({i \in start + 1 .. Len(lines) : lines[i] = OPEN \/ IsSection(lines[i])}
                       \cup {Len(lines) + 1})
        hits == {i \in start + 1 .. end - 1 : lines[i].key = k /\ lines[i].value # NONE}
    IN IF starts = {} THEN NONE
       ELSE IF hits = {} THEN NONE ELSE lines[OneOf(hits, ini.dupKey)].value

\* count() is the number of blocks, which is at most one if they may not be repeated.
ReadsExact(ini, lines) ==
    \A s \in Sections :
        LET blocks == Cardinality({i \in DOMAIN lines : IsSection(lines[i]) /\ lines[i].sect = s})
        IN /\ Count(ini, s) = IF ini.dupSection THEN blocks ELSE IF blocks = 0 THEN 0 ELSE 1
           /\ blocks > 0 => Opened(ini)
           /\ \A k \in Keys : Read(ini, s, k) = Expected(ini, lines, s, k)
=============================================================================
