-------------------------------- MODULE LogLine --------------------------------
(***************************************************************************)
(* One denial from the event to what the reader of the result acts on: the *)
(* daemon or auditd writes it as a line, src/fapolicyd takes the line      *)
(* apart, judges whether it is a whole record, decides, and writes the     *)
(* rule, the trust entry or the check row as text or as a document.  Is    *)
(* what comes out about the file that was denied, byte for byte?           *)
(*                                                                         *)
(* The text is module LogText's and Reports', the decision Policy's.  The  *)
(* daemon, auditd and the reader (a shell, the rule parser of the daemon,  *)
(* a JSON parser) are external.                                            *)
(***************************************************************************)
EXTENDS Reports

CONSTANTS
    Formats,     \* what syslog_format may be for the daemon: sequences of names
    Confs,       \* and what the conf may hold by the time it is read
    Events,      \* the events the daemon logs: [dec, perm, exe, path, trust]
    AuditEvents, \* the events auditd logs
    Frames,      \* what stands ahead of a record
    Garbage,     \* the names a daemon without rules may write
    Chatter,     \* other lines
    Enrichments  \* what ENRICHED adds to an audit record

VARIABLES
    format,  \* the daemon's
    about,   \* the event the line is of, how it was written, and if it is whole
    line,    \* the line, or the three of an audit event
    tool     \* the run

vars == <<format, about, line, tool>>

\* A byte at fault rules a path or an exe out of a rule.
Holding(faults) == {s \in Seq(0..255) : At(s, faults) # {}}

P == INSTANCE Policy WITH None <- Absent, Control <- Holding(0..31), Split <- Holding({Space, 58}),
         Unencoded <- <<63, 63>>, SetNames <- {}, Under <- << >>, Keywords <- {}, Escaped <- {}

\* The two permissions, by one letter.
Mode == [open |-> <<111>>, execute |-> <<120>>]

\* "(null)", which stands for no name.
Null == <<40, 110, 117, 108, 108, 41>>

\* auditd logs denials, of any path, and ENRICHED sets what it adds apart.
ASSUME AuditAssumption ==
    /\ \A ev \in AuditEvents :
          /\ ev # Absent /\ IsPrefix(Deny, ev.dec) /\ ev.perm \in {Mode["open"], Mode["execute"]}
          /\ ev.exe \in Seq(0..255) /\ ev.path \in Seq(0..255) \ {Null} /\ ev.trust \in Seq(48..57)
    /\ \A suffix \in Enrichments :
          suffix \in Seq(0..255) /\ (suffix # << >> => suffix[1] = GroupSeparator)

NoEvent == [event |-> Absent, route |-> Absent, frame |-> << >>, whole |-> FALSE]

Init ==
    /\ format \in Formats
    /\ about = NoEvent /\ line = Absent
    /\ tool = [pc |-> "conf", known |-> Absent, decided |-> Absent, key |-> Absent, out |-> Absent]

--------------------------------------------------------------------------------
(* The daemon and auditd                                                   *)

ShellSet == {Quote, Apostrophe, 96, 36, Backslash, 33, 40, 41, 124, Space}

EscapeByte(byte) ==
    IF byte < 32 THEN <<Backslash, Zero, Zero + (byte \div 8), Zero + (byte % 8)>>
    ELSE IF byte \in ShellSet THEN <<Backslash, byte>> ELSE <<byte>>

ValueOf(ev, name) ==
    CASE name = Dec -> ev.dec [] name = Perm -> ev.perm [] name = Exe -> ev.exe
      [] name = Path -> ev.path [] name = Trust -> ev.trust [] OTHER -> <<49>>

Tokens(ev, named) ==
    [i \in DOMAIN Counted(format) |->
        IF format[i] = Colon THEN Colon
        ELSE named[i] \o <<Equals>> \o Spelled(ValueOf(ev, format[i]), EscapeByte)]

Joined(tokens) ==
    LET text == Spelled(tokens, LAMBDA t : <<Space>> \o t) IN SubSeq(text, 2, Len(text))

\* What log_it leaves of a record that does not fit: cut at the cap, or short
\* of the first field that does not fit.
Cuts(tokens, record) ==
    LET fits == {n \in 0..Len(tokens) : Len(Joined(SubSeq(tokens, 1, n))) <= MaxPayload}
        most == CHOOSE n \in fits : \A k \in fits : k <= n
    IN  IF Len(record) <= MaxPayload THEN {record}
        ELSE {SubSeq(record, 1, MaxPayload), Joined(SubSeq(tokens, 1, most))}

\* Nothing is logged yet and the run is about to read.
Quiet == tool.pc = "line" /\ line = Absent

Written(text, of) ==
    /\ line' = text /\ about' = of
    /\ UNCHANGED <<format, tool>>

LogRecord(ev, frame) ==
    LET tokens == Tokens(ev, format)
        record == Joined(tokens)
    IN  \E payload \in Cuts(tokens, record) :
           Written(frame \o payload,
                   [event |-> ev, route |-> "daemon", frame |-> frame, whole |-> payload = record])

\* After a failed reload the names are freed memory, the values survive.
LogFreed(ev, name) ==
    Written(Joined(Tokens(ev, [i \in DOMAIN format |-> name])), NoEvent)

LogOther(text) == Written(text, NoEvent)

\* auditd: a string is quoted, and hex when it holds what a quote cannot.
Upper(digit) == IF digit > 96 THEN digit - 32 ELSE digit
HexByte(byte) == <<Upper(HexOf(byte)[1]), Upper(HexOf(byte)[2])>>
Encoded(value) ==
    IF \E k \in DOMAIN value : value[k] = Quote \/ value[k] < 33 \/ value[k] > 126
    THEN Spelled(value, HexByte) ELSE <<Quote>> \o value \o <<Quote>>

Name == <<110>>
Items == <<105>>
Item == <<106>>
ObjTrust == <<111>>
Syscall == <<99>>
Exec == <<53>>
Serial == <<97, 40, 49, 41, 58>>

\* The fields of a record of one type, as [name, value] pairs.
AuditLine(type, fields, suffix) ==
    Joined(<<Type \o <<Equals>> \o type, Msg \o <<Equals>> \o Serial>>
           \o [i \in DOMAIN fields |-> fields[i][1] \o <<Equals>> \o fields[i][2]]) \o suffix

\* FANOTIFY, SYSCALL and PATH; an exec names the loader as well.
AuditLines(ev, suffix) ==
    LET exec == ev.perm = Mode["execute"]
    IN  <<AuditLine(<<70>>, <<<<ObjTrust, ev.trust>>>>, suffix),
          AuditLine(<<83>>, <<<<Syscall, IF exec THEN Exec ELSE <<50>>>>,
                              <<Items, IF exec THEN <<50>> ELSE <<49>>>>,
                              <<Exe, Encoded(ev.exe)>>>>, suffix),
          AuditLine(<<80>>, <<<<Item, <<48>>>>, <<Name, Encoded(ev.path)>>>>, suffix)>>

LogAudit(ev, suffix) ==
    Written(AuditLines(ev, suffix),
            [event |-> ev, route |-> "audit", frame |-> << >>, whole |-> TRUE])

--------------------------------------------------------------------------------
(* The run                                                                 *)

\* read_syslog_format; one that fails or is not asked for leaves the cap.
ReadConf(conf) ==
    /\ tool.pc = "conf"
    /\ tool' = [tool EXCEPT !.pc = "line", !.known = SyslogFormat(conf)]
    /\ UNCHANGED <<format, about, line>>

ConfFails ==
    /\ tool.pc = "conf"
    /\ tool' = [tool EXCEPT !.pc = "line"]
    /\ UNCHANGED <<format, about, line>>

\* A record as the policy reads it: the words its decision is made by.
PermOf(bytes) ==
    IF bytes = Mode["open"] THEN "open" ELSE IF bytes = Mode["execute"] THEN "execute" ELSE "other"
TrustOf(bytes) ==
    IF bytes = Absent THEN Absent
    ELSE IF bytes = <<48>> THEN "0" ELSE IF bytes = <<49>> THEN "1" ELSE "9"
Fact(key) ==
    [perm |-> PermOf(key.perm), exe |-> key.exe, path |-> key.path, trust |-> TrustOf(key.trust)]

KeyOf(record) ==
    [perm |-> Get(record.subject, Perm), exe |-> Get(record.subject, Exe),
     path |-> Get(record.object, Path), trust |-> Get(record.object, Trust)]

\* Steps 4 to 10 of the pass on one record, the rules file aside.
Decided(record, known, length) ==
    IF record = Absent THEN [kind |-> "skipped"]
    ELSE IF FieldNames(record) = {} THEN [kind |-> "prose"]
    ELSE IF \E name \in FieldNames(record) : IsCorruptFieldName(name) THEN [kind |-> "corrupt"]
    ELSE IF ~IsDenial(record) THEN [kind |-> "no denial"]
    ELSE IF Truncated(record, known, length) THEN [kind |-> "truncated"]
    ELSE P!Decide(Fact(KeyOf(record)), Absent)

\* What Assembler!Close makes of the three lines, of an enforcing denial; the
\* rule number and the ids, which are copied as they are, are left out.
Assembled(lines) ==
    LET fan  == AuditFields(lines[1])
        sys  == AuditFields(lines[2])
        file == AuditFields(lines[3])
        exec == Value(sys, Syscall) = Exec
        name == Decode(Value(file, Name))
        path == IF /\ Value(sys, Items) = (IF exec THEN <<50>> ELSE <<49>>)
                   /\ Value(file, Item) = <<48>> /\ Key(file) = Key(sys)
                   /\ name # Null
                THEN name ELSE Absent
    IN  [subject |-> <<<<Dec, Deny>>, <<Perm, Mode[IF exec THEN "execute" ELSE "open"]>>,
                       <<Exe, Decode(Value(sys, Exe))>>>>,
         object |-> IF path = Absent THEN Absent
                    ELSE <<<<Path, path>>, <<Trust, Value(fan, ObjTrust)>>>>]

\* An audit record has neither a format nor a length to be judged by.
Take ==
    LET record == IF about.route = "audit" THEN Assembled(line) ELSE DaemonRecord(line)
        length == IF about.route = "audit" THEN 0 ELSE Len(StripPrefix(line))
        known  == IF about.route = "audit" THEN Absent ELSE tool.known
    IN  /\ tool.pc = "line" /\ line # Absent
        /\ tool' = [tool EXCEPT !.pc = "write", !.decided = Decided(record, known, length),
                                !.key = IF record = Absent THEN Absent ELSE KeyOf(record)]
        /\ UNCHANGED <<format, about, line>>

Suggested == tool.decided.kind \in {"rule", "trust"}

Writes(form, text) ==
    /\ tool.pc = "write"
    /\ tool' = [tool EXCEPT !.pc = "done", !.out = [form |-> form, text |-> text]]
    /\ UNCHANGED <<format, about, line>>

WriteText ==
    /\ tool.pc = "write" /\ Suggested
    /\ Writes("text", IF tool.decided.kind = "trust" THEN RenderTrust(tool.decided.path)
                      ELSE RenderRule(Mode[tool.decided.perm], tool.decided.exe, tool.decided.path))

WriteDocument ==
    /\ tool.pc = "write" /\ Suggested
    /\ Writes("document",
              Document(IF tool.decided.kind = "trust" THEN TrustEntry(tool.decided.path)
                       ELSE RulesEntry(Mode[tool.decided.perm], tool.decided.exe, tool.decided.path)))

\* check has a row for every denial that is not cut, whatever is decided.
Rowed == tool.decided.kind \in {"rule", "trust", "explain"}

WriteRow ==
    /\ tool.pc = "write" /\ Rowed
    /\ Writes("row", CheckLine(tool.key))

WriteRowDocument ==
    /\ tool.pc = "write" /\ Rowed
    /\ Writes("row document", Document(CheckEntry(tool.key)))

Next ==
    \/ \E conf \in Confs : ReadConf(conf)
    \/ ConfFails
    \/ /\ Quiet
       /\ \/ \E ev \in Events, frame \in Frames : LogRecord(ev, frame)
          \/ \E ev \in Events, name \in Garbage : LogFreed(ev, name)
          \/ \E text \in Chatter : LogOther(text)
          \/ \E ev \in AuditEvents, suffix \in Enrichments : LogAudit(ev, suffix)
    \/ Take \/ WriteText \/ WriteDocument \/ WriteRow \/ WriteRowDocument

Spec == Init /\ [][Next]_vars

--------------------------------------------------------------------------------
(* The readers                                                             *)

\* The words of a shell's input, line by line, by its three ways to quote.
ShellTake(s, byte) ==
    IF s.mode = "quoted"
    THEN IF byte = Apostrophe THEN [s EXCEPT !.mode = "bare"]
         ELSE [s EXCEPT !.word = Append(@, byte)]
    ELSE IF s.mode = "escaped"
    THEN [s EXCEPT !.mode = "bare", !.word = Append(@, byte)]
    ELSE IF byte = Apostrophe THEN [s EXCEPT !.mode = "quoted"]
    ELSE IF byte = Backslash THEN [s EXCEPT !.mode = "escaped"]
    ELSE IF byte = Space
    THEN [s EXCEPT !.word = << >>, !.words = Append(@, s.word)]
    ELSE IF byte = Newline
    THEN [s EXCEPT !.word = << >>, !.words = << >>, !.lines = Append(@, Append(s.words, s.word))]
    ELSE [s EXCEPT !.word = Append(@, byte)]

ShellStart == [mode |-> "bare", word |-> << >>, words |-> << >>, lines |-> << >>]
ShellLines(text) == Scan(ShellTake, ShellStart, text).lines

\* The words of a rules file, whose grammar has no quoting.
RuleLines(text) ==
    LET lines == SplitAt(text, At(text, {Newline}))
    IN  [i \in 1..Len(lines) - 1 |-> SplitAt(lines[i], At(lines[i], {Space}))]

\* The strings of a document in order, its escapes undone.
HexValue(digit) == IF digit < 58 THEN digit - 48 ELSE digit - 87
Strings(text) ==
    LET Take1(s, char) ==
          IF s.mode = "out"
          THEN IF char = Quote THEN [s EXCEPT !.mode = "in"] ELSE s
          ELSE IF s.mode = "escape"
          THEN IF char = 117 THEN [s EXCEPT !.mode = "hex", !.code = 0, !.left = 4]
               ELSE [s EXCEPT !.mode = "in", !.str = Append(@, IF char = 110 THEN Newline ELSE char)]
          ELSE IF s.mode = "hex"
          THEN LET code == s.code * 16 + HexValue(char)
               IN  IF s.left = 1 THEN [s EXCEPT !.mode = "in", !.str = Append(@, code)]
                   ELSE [s EXCEPT !.code = code, !.left = @ - 1]
          ELSE IF char = Backslash THEN [s EXCEPT !.mode = "escape"]
          ELSE IF char = Quote
          THEN [s EXCEPT !.mode = "out", !.str = << >>, !.all = Append(@, s.str)]
          ELSE [s EXCEPT !.str = Append(@, char)]
    IN  Scan(Take1, [mode |-> "out", str |-> << >>, code |-> 0, left |-> 0, all |-> << >>], text).all

\* The values of a key of a document.
Listed(text, key) ==
    LET all == Strings(text)
    IN  {all[i + 1] : i \in {i \in DOMAIN all : i % 2 = 1 /\ all[i] = key}}

\* The bytes a field of a document stands for, by its sibling if it has one.
Encode(chars) ==
    Spelled(chars, LAMBDA c : IF c < 128 THEN <<c>> ELSE <<192 + c \div 64, 128 + (c % 64)>>)
Unhex(digits) ==
    [k \in 1..Len(digits) \div 2 |-> HexValue(digits[2 * k - 1]) * 16 + HexValue(digits[2 * k])]
FieldIn(text, name) ==
    LET hex == Listed(text, <<name[1] - 32>>)
    IN  IF hex # {} THEN {Unhex(h) : h \in hex} ELSE {Encode(c) : c \in Listed(text, name)}

--------------------------------------------------------------------------------
(* Properties                                                              *)

\* The conf names what the daemon writes.  An edit may have added to it.
Understood ==
    \/ about.route = "audit" \/ tool.known = Absent
    \/ /\ SubjectNames(format) \subseteq SubjectNames(tool.known)
       /\ ObjectNames(format) \subseteq ObjectNames(tool.known)

\* On a line without a frame a value that ends in `]:` is taken for one.
Mistaken == about.route = "daemon" /\ about.frame = << >> /\ Occurrences(line, Anchor) # {}

Field(name, value) == name \o <<Equals>> \o value

\* The lines of the artifact say what was denied and nothing else.
Names(ev, lines) ==
    IF tool.decided.kind = "trust" THEN lines = <<<<FileAdd, ev.path>>, <<Update>>>>
    ELSE \E exe \in {All, Field(Exe, ev.exe)} :
            lines = <<<<Allow, Field(Perm, ev.perm), exe, Colon, Field(Path, ev.path)>>>>

ReadAs(ev, text) ==
    Names(ev, IF tool.decided.kind = "trust" THEN ShellLines(text) ELSE RuleLines(text))

\* What is written is one line of printable characters.
OneLine(text) == {k \in DOMAIN text : IsControl(text[k])} = {Len(text)}

Plain(bytes) == IsUtf8(bytes) /\ ~\E k \in DOMAIN Chars(bytes) : IsControl(Chars(bytes)[k])

\* What is acted on is what was denied.  However the record was framed, cut
\* or encoded, whatever the path and the program hold and whatever else is in
\* the log: the reader of the result gets the bytes of the denied file and of
\* its program back, from the artifact, from the document and the lines in
\* it, and from a check row, or gets nothing.
ActedIsReal ==
    tool.pc = "done" /\ Understood /\ ~Mistaken =>
       LET ev   == about.event
           text == tool.out.text
       IN  /\ ev # Absent /\ IsPrefix(Deny, ev.dec)
           /\ tool.out.form = "text" => ReadAs(ev, text)
           /\ tool.out.form # "text" => OneLine(text)
           /\ tool.out.form \in {"document", "row document"} =>
                 FieldIn(text, Path) \subseteq {ev.path} /\ FieldIn(text, Exe) \subseteq {ev.exe}
           /\ tool.out.form = "document" =>
                 /\ FieldIn(text, Path) = {ev.path}
                 /\ LET lines == Listed(text, Text) \cup Listed(text, Commands)
                    IN  \/ lines = {} /\ ~(IsUtf8(ev.path) /\ IsUtf8(ev.exe))
                        \/ \E order \in SetToSeqs(lines) :
                              ReadAs(ev, Spelled(order, LAMBDA l : Encode(l) \o <<Newline>>))
           /\ tool.out.form = "row" /\ Plain(ev.path) /\ tool.key.path # Absent =>
                 Occurrences(text, Field(Path, Chars(ev.path)) \o <<Space>>) # {}

\* A denial that was written whole is decided by its own fields: no path, no
\* program, no frame and no other field makes it a comment, noise, prose or
\* a record that was cut, or reads as a path it does not have.
Carried(name) == about.route = "audit" \/ name \in SubjectNames(format) \cup ObjectNames(format)
IfCarried(name, value) == IF Carried(name) THEN value ELSE Absent

WholeIsActed ==
    /\ tool.pc = "write" /\ about.whole /\ IsPrefix(Deny, about.event.dec) /\ ~Mistaken
    /\ \/ about.route = "audit"
       \/ tool.known = Absent /\ Len(line) - Len(about.frame) < MaxPayload
       \/ /\ tool.known # Absent
          /\ SubjectNames(tool.known) \subseteq SubjectNames(format)
          /\ ObjectNames(tool.known) \subseteq ObjectNames(format)
    => LET ev == about.event
       IN  /\ tool.decided = P!Decide(Fact([perm  |-> IfCarried(Perm, ev.perm),
                                            exe   |-> IfCarried(Exe, ev.exe),
                                            path  |-> IfCarried(Path, ev.path),
                                            trust |-> IfCarried(Trust, ev.trust)]), Absent)
           /\ tool.key.path = IfCarried(Path, ev.path) /\ tool.key.exe = IfCarried(Exe, ev.exe)
================================================================================
