-------------------------------- MODULE LogText --------------------------------
(***************************************************************************)
(* A log line as bytes: src/fapolicyd/parse.rs and the text half of        *)
(* audit.rs, with the first steps of the pass in analyze.rs, which decide  *)
(* whether a line is a record that may be acted on.  No state.             *)
(***************************************************************************)
EXTENDS Bytes

CONSTANTS
    Absent,     \* a field, a side or a format that is not there
    MaxPayload, \* MAX_PAYLOAD: the bytes of a record
    MaxFields,  \* MAX_SYSLOG_FIELDS: the names of a format that count
    NoiseWords  \* the two words that together mark the deprecation notice

ASSUME BoundsAssumption == MaxPayload \in Nat \ {0} /\ MaxFields \in Nat \ {0}

\* Absent is none of the things that it stands in for.
Sides == Seq(Seq(Nat) \X Seq(Nat))
ASSUME AbsentAssumption ==
    Absent \notin Seq(Nat) \cup Sides \cup [subject : Sides, object : Sides \cup {Absent}]
                  \cup {"daemon", "audit"}

Backslash == 92
Equals == 61
Hash == 35
Quote == 34
Zero == 48
Newline == 10
GroupSeparator == 29
Anchor == <<93, 58, 32>>    \* "]: "
Separator == <<32, 58, 32>> \* " : "
Colon == <<58>>

\* A field name stands for its bytes by its first letter.
Rule == <<114>>
Dec == <<100>>
Perm == <<109>>
Exe == <<101>>
Path == <<112>>
Trust == <<116>>
Deny == <<110>>             \* what the decision of a denial starts with
Type == <<121>>
Msg == <<103>>

--------------------------------------------------------------------------------
(* The daemon's record                                                     *)

\* MUTANT: a byte after a backslash is escaped, whatever is ahead of that.
EscapedOnce(buf, i) == i > 1 /\ buf[i - 1] = Backslash

\* Preceded by an odd run of backslashes.
IsEscaped(buf, i) ==
    LET run[k \in 0..i - 1] == IF k = 0 \/ buf[k] # Backslash THEN 0 ELSE 1 + run[k - 1]
    IN  run[i - 1] % 2 = 1

SplitUnescaped(buf, sep) == SplitAt(buf, {k \in At(buf, {sep}) : ~IsEscaped(buf, k)})

FindUnescaped(buf, needle) == {k \in Occurrences(buf, needle) : ~IsEscaped(buf, k)}

\* strip_prefix: through the first anchor, whatever is ahead of it.
StripPrefix(line) ==
    LET at == Occurrences(line, Anchor)
    IN  IF at = {} THEN line ELSE SubSeq(line, Smallest(at) + Len(Anchor), Len(line))

IsNoise(payload) ==
    payload = << >> \/ \A word \in NoiseWords : Occurrences(payload, word) # {}

\* A token splits on its first `=`; one without, or with no name, is dropped.
FieldOf(token) ==
    LET eq == Smallest(At(token, {Equals}))
    IN  IF At(token, {Equals}) = {} \/ eq = 1 THEN << >>
        ELSE <<<<SubSeq(token, 1, eq - 1), SubSeq(token, eq + 1, Len(token))>>>>
Fields(tokens) == Spelled(tokens, FieldOf)

\* parse: the two sides of the first separator that is not escaped.
Parse(payload) ==
    LET at       == FindUnescaped(payload, Separator)
        Side(s)  == Fields(SplitUnescaped(s, Space))
    IN  IF at = {} THEN [subject |-> Side(payload), object |-> Absent]
        ELSE [subject |-> Side(SubSeq(payload, 1, Smallest(at) - 1)),
              object  |-> Side(SubSeq(payload, Smallest(at) + Len(Separator), Len(payload)))]

\* unescape: \000 to \037 are the control bytes, any other byte after a
\* backslash is itself, and a backslash at the end stays.
Unescape(value) ==
    LET octal(i) ==
          /\ i + 3 <= Len(value) /\ value[i + 1] = Zero
          /\ value[i + 2] - Zero \in 0..3 /\ value[i + 3] - Zero \in 0..7
        from[i \in 1..Len(value) + 1] ==
          IF i > Len(value) THEN << >>
          ELSE IF value[i] # Backslash \/ i = Len(value) THEN <<value[i]>> \o from[i + 1]
          ELSE IF octal(i)
          THEN <<(value[i + 2] - Zero) * 8 + value[i + 3] - Zero>> \o from[i + 4]
          ELSE <<value[i + 1]>> \o from[i + 2]
    IN  from[1]

\* The first field of the name, as it is written.
Value(side, name) ==
    LET at == IF side = Absent THEN {} ELSE {i \in DOMAIN side : side[i][1] = name}
    IN  IF at = {} THEN Absent ELSE side[Smallest(at)][2]

\* model::get: the same, unescaped.
Get(side, name) == IF Value(side, name) = Absent THEN Absent ELSE Unescape(Value(side, name))

--------------------------------------------------------------------------------
(* Whether a record may be acted on                                        *)

\* daemon_record: a comment is one on the raw line, whatever it quotes.
IsComment(raw) ==
    LET text == {k \in DOMAIN raw : raw[k] # Space}
    IN  text = {} \/ raw[Smallest(text)] = Hash

DaemonRecord(raw) ==
    IF IsComment(raw) \/ IsNoise(StripPrefix(raw)) THEN Absent ELSE Parse(StripPrefix(raw))

FieldNames(record) ==
    {record.subject[i][1] : i \in DOMAIN record.subject} \cup
    (IF record.object = Absent THEN {} ELSE {record.object[i][1] : i \in DOMAIN record.object})

IsCorruptFieldName(name) == \E k \in DOMAIN name : name[k] < Space \/ name[k] >= 127

IsDenial(record) ==
    LET dec == Get(record.subject, Dec) IN dec # Absent /\ IsPrefix(Deny, dec)

\* The names of a format that count, and those on either side of its colon.
Counted(format) == SubSeq(format, 1, IF Len(format) < MaxFields THEN Len(format) ELSE MaxFields)
ColonAt(format) == Smallest({k \in DOMAIN Counted(format) : format[k] = Colon} \cup {Len(Counted(format)) + 1})
SubjectNames(format) == ToSet(SubSeq(Counted(format), 1, ColonAt(format) - 1))
ObjectNames(format) == ToSet(SubSeq(Counted(format), ColonAt(format) + 1, Len(Counted(format))))

\* MUTANT: a record without the separator lacks nothing of its object side.
TruncatedSubject(record, format, length) ==
    IF format = Absent THEN length >= MaxPayload
    ELSE \/ \E name \in SubjectNames(format) : Value(record.subject, name) = Absent
         \/ record.object # Absent
            /\ \E name \in ObjectNames(format) : Value(record.object, name) = Absent

\* truncated: a name of the format the record lacks on that side, or without a
\* format the cap.
Truncated(record, format, length) ==
    IF format = Absent THEN length >= MaxPayload
    ELSE \/ \E name \in SubjectNames(format) : Value(record.subject, name) = Absent
         \/ \E name \in ObjectNames(format) : Value(record.object, name) = Absent

\* conf::syslog_format: the first line of that key decides, and an empty list
\* is none.  A line of the conf is [key, names], a comment's key is Absent.
SyslogFormat(conf) ==
    LET lines == SelectSeq(conf, LAMBDA l : l.key = "syslog_format")
        names == SelectSeq(lines[1].names, LAMBDA name : name # << >>)
    IN  IF lines = << >> \/ names = << >> THEN Absent ELSE names

--------------------------------------------------------------------------------
(* The audit record                                                        *)

\* enriched: the suffix that decodes the raw fields is cut off.
Enriched(line) == SplitAt(line, At(line, {GroupSeparator}))[1]

\* fields: nothing is escaped here.
AuditFields(line) == Fields(SplitAt(Enriched(line), At(Enriched(line), {Space})))

\* key: what stands between the parentheses of msg=.
Key(fields) ==
    LET msg   == Value(fields, Msg)
        open  == At(msg, {40})
        shut  == {k \in At(msg, {41}) : k > Smallest(open)}
    IN  IF msg = Absent \/ open = {} \/ shut = {} THEN Absent
        ELSE SubSeq(msg, Smallest(open) + 1, Smallest(shut) - 1)

Nibble(byte) ==
    IF byte \in 48..57 THEN byte - 48
    ELSE IF byte \in 65..70 THEN byte - 55 ELSE IF byte \in 97..102 THEN byte - 87 ELSE 16

\* decode: quoted, an even number of hex digits, or as it is.
Decode(value) ==
    IF Len(value) >= 2 /\ value[1] = Quote /\ value[Len(value)] = Quote
    THEN SubSeq(value, 2, Len(value) - 1)
    ELSE IF Len(value) % 2 = 0 /\ \A k \in DOMAIN value : Nibble(value[k]) < 16
    THEN [k \in 1..Len(value) \div 2 |-> Nibble(value[2 * k - 1]) * 16 + Nibble(value[2 * k])]
    ELSE value
================================================================================
