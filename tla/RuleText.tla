-------------------------------- MODULE RuleText --------------------------------
(***************************************************************************)
(* src/fapolicyd/rules.rs and emit.rs: a rules file as the lines and words *)
(* it is written in, what the parser makes of them, and the line a         *)
(* suggestion is written as.  No state.                                    *)
(*                                                                         *)
(* A line is [kind, words]: "rule", "set" or "skip" (blank, or a comment). *)
(* A word is [name, value], its name None without an `=`.  A value is an   *)
(* atom; Spelling gives its bytes where it holds any the grammar reads.    *)
(* A parsed rule is module Verdict's with its text beside it.              *)
(***************************************************************************)
EXTENDS Verdict

CONSTANT Spelling  \* the bytes of the paths, directories and lists in play

BytesOf(value) == IF value \in DOMAIN Spelling THEN Spelling[value] ELSE << >>
Spelt(bytes) == CHOOSE value \in DOMAIN Spelling : Spelling[value] = bytes

ASSUME SpellingAssumption ==
    /\ \A v \in DOMAIN Spelling : Spelling[v] \in Seq(Nat)
    /\ \A v, w \in DOMAIN Spelling : Spelling[v] = Spelling[w] => v = w

\* A dir= member is a byte prefix, with no slash logic of its own.
ASSUME PrefixAssumption ==
    \A d \in DOMAIN Under \ Keywords :
       Under[d] = {v \in DOMAIN Spelling : IsPrefix(Spelling[d], Spelling[v])}

\* A set's name begins with %: it is no path, and a perm is neither.  None is
\* no attribute.
ASSUME WordAssumption ==
    /\ SetNames \cap DOMAIN Spelling = {}
    /\ {"open", "execute"} \cap (SetNames \cup DOMAIN Spelling) = {}
    /\ None \notin {"perm", "exe", "path", "dir"}

Word(name, value) == [name |-> name, value |-> value]
Bare(value) == Word(None, value)

\* The members a value lists, itself when it holds no comma.
Members(value) ==
    LET parts == SplitAt(BytesOf(value), At(BytesOf(value), {Comma}))
    IN  IF Len(parts) = 1 THEN {value} ELSE {Spelt(part) : part \in ToSet(parts)}

--------------------------------------------------------------------------------
(* Attr::new                                                               *)

SubjectOnly == {"perm", "exe"}
ObjectOnly == {"path", "ftype", "trust"}

\* The field a name constrains on a side.  One no record answers for, or one
\* written on the other side, is a field of its own, which no record carries.
FieldOn(side, name) ==
    IF name \in (IF side = "subject" THEN ObjectOnly \cup {"dir"} ELSE SubjectOnly)
    THEN "misplaced" ELSE name

Undecidable(field) == [how |-> "is", field |-> field, tokens |-> {None}]

\* A word with no `=` matches nothing; a dir= value lists prefixes, and a %set
\* beside something else in any other value is a shape nothing measured.
AttrOf(side, w) ==
    LET members == Members(w.value)
        listed  == Cardinality(members) > 1
    IN  IF w.name = None THEN [how |-> "never", field |-> "none", tokens |-> {}]
        ELSE IF w.name = "dir" /\ side = "object"
        THEN [how |-> "under", field |-> "path", tokens |-> members]
        ELSE IF listed /\ IsPrefix(<<Percent>>, BytesOf(w.value)) THEN Undecidable("list")
        ELSE [how |-> "is", field |-> FieldOn(side, w.name), tokens |-> {w.value}]

Attrs(side, words) == {AttrOf(side, w) : w \in ToSet(words) \ {Bare("all")}}

\* Rule::new and Rule::attrs: the decision, and the words on either side of
\* the bare colon.  A rule without one is in the older format.
RuleOf(words) ==
    LET colons  == {k \in DOMAIN words : words[k] = Bare(":")}
        colon   == IF colons = {} THEN Len(words) + 1 ELSE Smallest(colons)
        subject == Attrs("subject", SubSeq(words, 2, colon - 1))
        object  == IF colons = {} THEN {Undecidable("original")}
                   ELSE Attrs("object", SubSeq(words, colon + 1, Len(words)))
    IN  [dec |-> words[1].value, attrs |-> subject \cup object, text |-> words]

--------------------------------------------------------------------------------
(* A file                                                                  *)

\* parse: every line that is not blank, a comment or a %set is a rule.
Parse(lines) ==
    FlattenSeq([i \in DOMAIN lines |->
        IF lines[i].kind = "rule" THEN <<RuleOf(lines[i].words)>> ELSE << >>])

\* sets: the definitions, each with the number of rules ahead of it.  The
\* members end with the line's first word, and a name alone defines nothing.
SetOf(w, before) ==
    IF w.name = None THEN [name |-> w.value, members |-> {}, before |-> before]
    ELSE [name |-> w.name, members |-> Members(w.value), before |-> before]

Sets(lines) ==
    FlattenSeq([i \in DOMAIN lines |->
        IF lines[i].kind = "set"
        THEN <<SetOf(lines[i].words[1], Len(Parse(SubSeq(lines, 1, i - 1))))>> ELSE << >>])

FileOf(name, lines) == [name |-> name, rules |-> Parse(lines), sets |-> Sets(lines)]

--------------------------------------------------------------------------------
(* emit::render                                                            *)

\* The grammar has no quoting: a space in a value ends its word there.
Written(name, value) ==
    LET parts == SplitAt(BytesOf(value), At(BytesOf(value), {Space}))
    IN  IF Len(parts) = 1 THEN <<Word(name, value)>>
        ELSE <<Word(name, Spelt(parts[1]))>> \o [i \in 1..Len(parts) - 1 |-> Bare(None)]

\* One rule, in colon format; an exe the record could not supply is `all`.
Render(s) ==
    [kind |-> "rule",
     words |-> <<Bare("allow"), Word("perm", s.perm)>>
               \o (IF s.exe = None THEN <<Bare("all")>> ELSE Written("exe", s.exe))
               \o <<Bare(":")>>
               \o Written(IF s.kind = "dir" THEN "dir" ELSE "path", s.path)]
================================================================================
