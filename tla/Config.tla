-------------------------------- MODULE Config --------------------------------
(***************************************************************************)
(* The parser of src/core/acore_context.c and the look-ups in what it      *)
(* makes: contexts, [name], with values for keys; a context declared as    *)
(* [name](!) is a pattern, one declared as [name](pattern) looks up in the *)
(* pattern what it does not have itself.                                   *)
(*                                                                         *)
(* A step is an iteration of the loop of acore_conf_prase2, on a line that *)
(* the file happens to have next; text is what has been read so far.       *)
(* Blank lines are skipped everywhere and are not in the text.  A line     *)
(* that begins with any other sign, and an unclosed bracket, is left out:  *)
(* the loop stays on it for ever.                                          *)
(***************************************************************************)
EXTENDS Naturals, Sequences, SequencesExt, FiniteSets

CONSTANTS
    Context,    \* names of contexts
    Core,       \* the context that is there from the start
    Key, Value,
    None, Bang, \* [name] and [name](!)
    MaxLines    \* bound: the lines of the file

ASSUME ConfigAssumption ==
    /\ Core \in Context
    /\ None \notin Context /\ Bang \notin Context /\ None # Bang

(* [name], [name](!), [name](mark); key = value; a comment; a key alone on *)
(* its line, with a = or without; and one that a comment follows there.    *)
Header  == [kind : {"header"}, name : Context, mark : Context \cup {None, Bang}]
Setting == [kind : {"setting"}, key : Key, value : Value]
Comment == [kind : {"comment"}]
Alone   == [kind : {"key", "key ="}, key : Key]
Noted   == [kind : {"key ;", "key = ;"}, key : Key]
Line    == Header \cup Setting \cup Comment \cup Alone \cup Noted

(* A value is a word of the file, or the text of a whole line. *)
Text == Value \cup Line

VARIABLES
    text,       \* the lines read so far
    declared,   \* the contexts in conf->tree
    isPattern,  \* those with is_pattern
    pattern,    \* the pattern of each context, or None
    values,     \* child_list: the values of each key, in order
    current

vars == <<text, declared, isPattern, pattern, values, current>>

Init ==
    /\ text = <<>>
    /\ declared = {Core}
    /\ isPattern = {}
    /\ pattern = [c \in Context |-> None]
    /\ values = [c \in Context |-> [k \in Key |-> <<>>]]
    /\ current = Core

-----------------------------------------------------------------------------
(* Faulty variants. *)

AddContextAnyPattern(l) ==
    /\ l.name \notin declared
    /\ declared' = declared \cup {l.name}
    /\ isPattern' = IF l.mark = Bang THEN isPattern \cup {l.name} ELSE isPattern
    /\ pattern' = [pattern EXCEPT ![l.name] =
                      IF l.mark \in declared' THEN l.mark ELSE None]
    /\ current' = l.name
    /\ UNCHANGED values

GetStrLast(c, k) ==
    LET get[x \in Context] ==
          IF values[x][k] # <<>> THEN Last(values[x][k])
          ELSE IF pattern[x] # None THEN get[pattern[x]] ELSE None
    IN  get[c]

-----------------------------------------------------------------------------
Read(s) == Len(text) + Len(s) <= MaxLines /\ text' = text \o s

(* add_ele: a second value turns the string into an array of both. *)
AddEle(c, k, v) == values' = [values EXCEPT ![c][k] = Append(@, v)]

(* add_context for a new name.  The context is in the tree before its      *)
(* pattern is looked up, and is not a pattern then.                        *)
AddContext(l) ==
    /\ l.name \notin declared
    /\ declared' = declared \cup {l.name}
    /\ isPattern' = IF l.mark = Bang THEN isPattern \cup {l.name} ELSE isPattern
    /\ pattern' = [pattern EXCEPT ![l.name] =
                      IF l.mark \in isPattern THEN l.mark ELSE None]
    /\ current' = l.name
    /\ UNCHANGED values

(* add_context for a name that is there: the mark is not looked at. *)
ReopenContext(l) ==
    /\ l.name \in declared
    /\ current' = l.name
    /\ UNCHANGED <<declared, isPattern, pattern, values>>

ReadHeader ==
    \E l \in Header : Read(<<l>>) /\ (AddContext(l) \/ ReopenContext(l))

ReadSetting ==
    \E l \in Setting :
        /\ Read(<<l>>)
        /\ AddEle(current, l.key, l.value)
        /\ UNCHANGED <<declared, isPattern, pattern, current>>

(* sc_callback skips a comment, on a line of its own or where a value is   *)
(* looked for.                                                             *)
SkipLine ==
    \E l \in Comment \cup Noted :
        /\ Read(<<l>>)
        /\ UNCHANGED <<declared, isPattern, pattern, values, current>>

(* The scanner skips newlines behind the name, and again behind the = sign *)
(* that it steps over: the next line, whatever it says, is the value of a  *)
(* key that stands alone, ...                                              *)
ReadAlone ==
    \E l \in Alone, n \in Line \ Comment :
        /\ Read(<<l, n>>)
        /\ AddEle(current, l.key, n)
        /\ UNCHANGED <<declared, isPattern, pattern, current>>

(* ... unless it is a comment, which is skipped.  Nor does a key get one   *)
(* at the end of the file, where nothing is left to read.                  *)
ReadAloneComment ==
    \E l \in Alone, n \in Comment :
        /\ Read(<<l, n>>)
        /\ UNCHANGED <<declared, isPattern, pattern, values, current>>

Next == ReadHeader \/ ReadSetting \/ SkipLine \/ ReadAlone \/ ReadAloneComment

Spec == Init /\ [][Next]_vars

-----------------------------------------------------------------------------
(* acore_context_get_str: the first value, of the context or its pattern.  *)
GetStr(c, k) ==
    LET get[x \in Context] ==
          IF values[x][k] # <<>> THEN Head(values[x][k])
          ELSE IF pattern[x] # None THEN get[pattern[x]] ELSE None
    IN  get[c]

(* acore_context_list_value: all values, of the context only.              *)
ListValue(c, k) == values[c][k]

-----------------------------------------------------------------------------
(* What a file t says, read off its lines without parsing them.  A line is *)
(* taken as a value when the keys that stand alone right before it are odd *)
(* in number: the first takes the second, the third takes the line.        *)
Taken(t, i) ==
    LET from == {j \in 0..i-1 : \A n \in j+1..i-1 : t[n] \in Alone}
    IN  (i - 1 - Min(from)) % 2 = 1

Opens(t, i) == t[i] \in Header /\ ~Taken(t, i)
Headers(t, c) == {i \in DOMAIN t : Opens(t, i) /\ t[i].name = c}

(* The context line i stands in. *)
Around(t, i) ==
    LET above == {j \in 1..i : Opens(t, j)}
    IN  IF above = {} THEN Core ELSE t[Max(above)].name

Says(t, i, c, k) ==
    /\ ~Taken(t, i)
    /\ Around(t, i) = c
    /\ \/ t[i] \in Setting /\ t[i].key = k
       \/ t[i] \in Alone /\ i < Len(t) /\ t[i].key = k /\ t[i + 1] \notin Comment

(* The lines that give k a value in c; the j-th of them is the one with j  *)
(* of them up to it.                                                       *)
Saying(t, c, k) == {i \in DOMAIN t : Says(t, i, c, k)}

Nth(lines, j) == CHOOSE i \in lines : Cardinality(lines \cap 1..i) = j

Said(t, i) == IF t[i] \in Setting THEN t[i].value ELSE t[i + 1]

Written(t, c, k) ==
    LET lines == Saying(t, c, k)
    IN  [j \in 1..Cardinality(lines) |-> Said(t, Nth(lines, j))]

Mark(t, c) ==
    IF c = Core \/ Headers(t, c) = {} THEN None ELSE t[Min(Headers(t, c))].mark

Inherits(t, c, p) ==
    /\ Mark(t, c) = p
    /\ p \in Context
    /\ Mark(t, p) = Bang
    /\ Min(Headers(t, p)) < Min(Headers(t, c))

Expected(t, c, k) ==
    LET own == Written(t, c, k)
        inherited == {p \in Context : Inherits(t, c, p) /\ Written(t, p, k) # <<>>}
    IN  IF own # <<>> THEN Head(own)
        ELSE IF inherited # {} THEN Head(Written(t, CHOOSE p \in inherited : TRUE, k))
        ELSE None

(* The shape of the state. *)
TypeOK ==
    /\ text \in Seq(Line)
    /\ declared \in SUBSET Context
    /\ isPattern \in SUBSET declared
    /\ pattern \in [Context -> Context \cup {None}]
    /\ values \in [Context -> [Key -> Seq(Text)]]
    /\ current \in declared

(* However sections are reopened, marked again, or swallowed by a key that *)
(* stands alone: a list has the values of all sections of its context in   *)
(* the order of the file, and a look-up yields the first of them, or the   *)
(* first of the pattern that was declared above the context.               *)
ReadsAsWritten ==
    \A c \in Context, k \in Key :
        /\ c \in declared <=> c = Core \/ Headers(text, c) # {}
        /\ ListValue(c, k) = Written(text, c, k)
        /\ GetStr(c, k) = Expected(text, c, k)

(* The recursion of acore_context_get_str ends after one level: only       *)
(* patterns are inherited from, and a pattern inherits from nothing, not   *)
(* even from itself.                                                       *)
PatternsAreFlat ==
    /\ TypeOK
    /\ \A c \in Context :
         pattern[c] # None =>
             /\ pattern[c] \in isPattern
             /\ c \notin isPattern
             /\ pattern[pattern[c]] = None
=============================================================================
