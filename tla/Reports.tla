-------------------------------- MODULE Reports --------------------------------
(***************************************************************************)
(* What a result is written as: src/fapolicyd/emit.rs (the shell lines),   *)
(* json.rs (the documents) and the row of check.rs.  No state.             *)
(*                                                                         *)
(* Bytes are decoded as UTF-8 to code points, of one and of two bytes;     *)
(* any other byte is one that is not UTF-8.  A document is the text of its *)
(* entry's fields, those that are null being left out of it.               *)
(***************************************************************************)
EXTENDS LogText

Apostrophe == 39
Replacement == 65533  \* U+FFFD

--------------------------------------------------------------------------------
(* Text                                                                    *)

\* String::from_utf8_lossy
Chars(bytes) ==
    LET pair(i) == i < Len(bytes) /\ bytes[i] \in 194..223 /\ bytes[i + 1] \in 128..191
        from[i \in 1..Len(bytes) + 1] ==
          IF i > Len(bytes) THEN << >>
          ELSE IF pair(i) THEN <<(bytes[i] - 192) * 64 + bytes[i + 1] - 128>> \o from[i + 2]
          ELSE <<IF bytes[i] < 128 THEN bytes[i] ELSE Replacement>> \o from[i + 1]
    IN  from[1]

IsUtf8(bytes) == Replacement \notin ToSet(Chars(bytes))

HexDigit(n) == IF n < 10 THEN 48 + n ELSE 87 + n
HexOf(byte) == <<HexDigit(byte \div 16), HexDigit(byte % 16)>>

\* lossy_hex: the text, and the bytes beside it when it is not all of them.
LossyHex(bytes) ==
    [text |-> Chars(bytes), hex |-> IF IsUtf8(bytes) THEN Absent ELSE Spelled(bytes, HexOf)]

IsControl(char) == char < 32 \/ char \in 127..159

\* check::shown, one character of it.
ShownChar(char) ==
    IF IsControl(char)
    THEN <<Backslash, Zero + (char \div 64), Zero + ((char \div 8) % 8), Zero + (char % 8)>>
    ELSE <<char>>

Shown(bytes) == Spelled(Chars(bytes), ShownChar)

\* check::line: the fields the record carried, and the end of the line.
CheckLine(key) ==
    LET Column(name, value) ==
          IF value = Absent THEN << >> ELSE name \o <<Equals>> \o Shown(value) \o <<Space>>
    IN  Column(Perm, key.perm) \o Column(Exe, key.exe) \o Column(Path, key.path) \o <<Newline>>

--------------------------------------------------------------------------------
(* emit::render                                                            *)

\* A quote closes, is escaped and opens again.
Quoted(byte) ==
    IF byte = Apostrophe THEN <<Apostrophe, Backslash, Apostrophe, Apostrophe>> ELSE <<byte>>

ShellQuote(bytes) == <<Apostrophe>> \o Spelled(bytes, Quoted) \o <<Apostrophe>>

\* The commands stand for themselves by one letter.
FileAdd == <<97>>
Update == <<117>>
Allow == <<97>>
All == <<108>>

\* The two lines of a trust entry, the one line of a rule.
RenderTrust(path) ==
    FileAdd \o <<Space>> \o ShellQuote(path) \o <<Newline>> \o Update \o <<Newline>>

RenderRule(perm, exe, path) ==
    Allow \o <<Space>> \o Perm \o <<Equals>> \o perm \o <<Space>>
    \o (IF exe = Absent THEN All ELSE Exe \o <<Equals>> \o exe)
    \o Separator \o Path \o <<Equals>> \o path \o <<Newline>>

--------------------------------------------------------------------------------
(* The documents                                                           *)

\* json::rendered: the lines of a rendering, Absent if they are not UTF-8.
Rendered(bytes) ==
    IF ~IsUtf8(bytes) THEN Absent
    ELSE Front(SplitAt(Chars(bytes), At(Chars(bytes), {Newline})))

\* What serde_json writes for a character of a string.  The newline stands for
\* the five control characters with a short form.
JsonChar(char) ==
    IF char = Quote \/ char = Backslash THEN <<Backslash, char>>
    ELSE IF char = Newline THEN <<Backslash, 110>>
    ELSE IF char < 32 THEN <<Backslash, 117, Zero, Zero>> \o HexOf(char)
    ELSE <<char>>

\* escaped: DEL and the C1 controls, over the whole document.
EscapedChar(char) ==
    IF char \in 127..159 THEN <<Backslash, 117, Zero, Zero>> \o HexOf(char) ELSE <<char>>

JsonString(chars) == <<Quote>> \o Spelled(chars, JsonChar) \o <<Quote>>

\* document: fields are [name, chars], a field that is Absent is not written.
Document(fields) ==
    LET Member(f) ==
          IF f.chars = Absent THEN << >> ELSE JsonString(f.name) \o Colon \o JsonString(f.chars)
    IN  Spelled(Spelled(fields, Member), EscapedChar) \o <<Newline>>

\* with_hex: a field and its sibling.  A sibling has the name in capitals.
WithHex(name, value) ==
    LET shown == IF value = Absent THEN [text |-> Absent, hex |-> Absent] ELSE LossyHex(value)
    IN  <<[name |-> name, chars |-> shown.text], [name |-> <<name[1] - 32>>, chars |-> shown.hex]>>

\* The lines of a rendering, as text or as commands.
LineFields(name, lines) ==
    IF lines = Absent THEN << >> ELSE [i \in DOMAIN lines |-> [name |-> name, chars |-> lines[i]]]

Text == <<120>>
Commands == <<99>>

RulesEntry(perm, exe, path) ==
    <<[name |-> Perm, chars |-> Chars(perm)]>> \o WithHex(Exe, exe) \o WithHex(Path, path)
    \o LineFields(Text, Rendered(RenderRule(perm, exe, path)))

TrustEntry(path) == WithHex(Path, path) \o LineFields(Commands, Rendered(RenderTrust(path)))

\* check::entries: of a row, the fields that hold what a record held.
CheckEntry(key) ==
    <<[name |-> Perm, chars |-> IF key.perm = Absent THEN Absent ELSE Chars(key.perm)]>>
    \o WithHex(Exe, key.exe) \o WithHex(Path, key.path)
================================================================================
