------------------------------- MODULE V7kParse -------------------------------
(***************************************************************************)
(* The IBM V7000 plugin's readers of CLI output (src/plugin/v7k/          *)
(* ibmv7k.py): _execute_command_and_parse_detailed, for `ls<obj> <id>`    *)
(* (one "name!value" line per attribute), and                             *)
(* _execute_command_and_parse_concise, for `ls<obj>` listings (a header   *)
(* line of names, then one line of values per object).  Both run with     *)
(* -delim !.                                                               *)
(*                                                                         *)
(* A Python str is a sequence of one-character strings here, over a small *)
(* alphabet holding the delimiter and the newline.  The state is the      *)
(* object(s) the array describes, the text the CLI prints for them, and   *)
(* what the reader makes of it; one step parses.                          *)
(***************************************************************************)
EXTENDS Naturals, Sequences, SequencesExt

CONSTANTS
  Names,     \* attribute names (non-empty, without "!" or newline)
  Values,    \* attribute values without "!" or newline
  BangVals,  \* values a detailed line may also carry: with a "!"
  MaxRows,   \* bound on objects in a listing
  MaxLines   \* bound on attribute lines of a detailed view

D  == "!"
NL == "\n"

(***************************************************************************)
(* The str methods the readers call.                                      *)
(***************************************************************************)

\* `len(s.strip()) == 0`: nothing but whitespace.
IsBlank(s) == \A i \in DOMAIN s : s[i] \in {" ", NL}

Index(s, c) == SelectInSeq(s, LAMBDA x : x = c)

\* Mutant: the pieces keep the separator that ends them.
RECURSIVE SplitKeepSep(_, _)
SplitKeepSep(s, c) ==
  IF Index(s, c) = 0 THEN << s >>
  ELSE << SubSeq(s, 1, Index(s, c)) >> \o SplitKeepSep(SubSeq(s, Index(s, c) + 1, Len(s)), c)

\* s.split(c): "a!".split("!") is ["a", ""], "".split("!") is [""].
RECURSIVE Split(_, _)
Split(s, c) ==
  IF Index(s, c) = 0 THEN << s >>
  ELSE << SubSeq(s, 1, Index(s, c) - 1) >> \o Split(SubSeq(s, Index(s, c) + 1, Len(s)), c)

\* Mutant: s.rpartition(c), at the last separator.
PartitionLast(s, c) ==
  LET i == SelectLastInSeq(s, LAMBDA x : x = c)
  IN  IF i = 0 THEN << << >>, << >>, s >>
      ELSE << SubSeq(s, 1, i - 1), << c >>, SubSeq(s, i + 1, Len(s)) >>

\* s.partition(c): head, separator, tail, at the first separator.
Partition(s, c) ==
  IF Index(s, c) = 0 THEN << s, << >>, << >> >>
  ELSE << SubSeq(s, 1, Index(s, c) - 1), << c >>, SubSeq(s, Index(s, c) + 1, Len(s)) >>

\* cmd_output[name] = value: a later assignment of a name wins.
Put(dict, k, v) == (k :> v) @@ dict

(***************************************************************************)
(* The readers.  A dict is a function; the concise reader's dict keyed by *)
(* lineindex is a sequence.  A row with fewer values than the header      *)
(* raises IndexError, an exception the plugin runner reports as a bug.    *)
(* A result is the exception raised ("none" if none) and cmd_output.      *)
(***************************************************************************)
Result(exc, o) == [exc |-> exc, cmd_output |-> o]

ParseDetailed(s) ==
  IF IsBlank(s) THEN Result("none", << >>)
  ELSE Result("none", FoldLeft(LAMBDA acc, line :
                  IF IsBlank(Partition(line, D)[1]) THEN acc
                  ELSE Put(acc, Partition(line, D)[1], Partition(line, D)[3]),
                << >>, Split(s, NL)))

\* attributes[key] = valuelist[valueindex] for each key of the header.
Attributes(keys, vals) ==
  FoldLeft(LAMBDA acc, j : Put(acc, keys[j], vals[j]), << >>,
           [j \in 1..Len(keys) |-> j])

\* Mutant: every line after the header is a row, the last one included.
ParseConciseAll(s) ==
  IF IsBlank(s) THEN Result("none", << >>)
  ELSE LET lines == Split(s, NL)
           keys  == Split(lines[1], D)
           rows  == [r \in 1..(Len(lines) - 1) |-> Split(lines[r + 1], D)]
       IN  IF \E r \in DOMAIN rows : Len(rows[r]) < Len(keys) THEN Result("IndexError", << >>)
           ELSE Result("none", [r \in DOMAIN rows |-> Attributes(keys, rows[r])])

\* The header, then output_lines[1:-1]: the last line is the empty one
\* after the final newline.
ParseConcise(s) ==
  IF IsBlank(s) THEN Result("none", << >>)
  ELSE LET lines == Split(s, NL)
           keys  == Split(lines[1], D)
           rows  == [r \in 1..(Len(lines) - 2) |-> Split(lines[r + 1], D)]
       IN  IF \E r \in DOMAIN rows : Len(rows[r]) < Len(keys) THEN Result("IndexError", << >>)
           ELSE Result("none", [r \in DOMAIN rows |-> Attributes(keys, rows[r])])

(***************************************************************************)
(* What the array describes, and the text the CLI prints for it: each     *)
(* line ends with a newline, fields are joined by the delimiter.          *)
(***************************************************************************)
Join(parts) ==
  IF parts = << >> THEN << >>
  ELSE FoldLeft(LAMBDA acc, p : acc \o << D >> \o p, Head(parts), Tail(parts))

Line(s) == s \o << NL >>

Concise(keys, rows) ==
  Line(Join(keys)) \o FlattenSeq([r \in DOMAIN rows |-> Line(Join(rows[r]))])

Detailed(lines) ==
  FlattenSeq([i \in DOMAIN lines |-> Line(lines[i][1] \o << D >> \o lines[i][2])])

\* Listings: distinct column names, each row a value per column.
Tables ==
  UNION { {[kind |-> "concise", keys |-> k, rows |-> rs] :
             rs \in BoundedSeq([1..Len(k) -> Values], MaxRows)} :
          k \in {k \in BoundedSeq(Names, 2) : k # << >> /\ IsInjective(k)} }

\* Detailed views: attribute lines; a name may repeat (a host with two
\* WWPNs has a WWPN line for each).
Views ==
  {[kind |-> "detailed", lines |-> ls] :
     ls \in BoundedSeq(Names \X (Values \cup BangVals), MaxLines)}

Text(obj) == IF obj.kind = "concise" THEN Concise(obj.keys, obj.rows)
             ELSE Detailed(obj.lines)

NotYet == Result("notyet", << >>)

VARIABLES obj, stdout, out

vars == <<obj, stdout, out>>

Init ==
  /\ obj \in Tables \cup Views
  /\ stdout = Text(obj)
  /\ out = NotYet

ReadDetailed ==
  /\ out = NotYet /\ obj.kind = "detailed"
  /\ out' = ParseDetailed(stdout)
  /\ UNCHANGED <<obj, stdout>>

ReadConcise ==
  /\ out = NotYet /\ obj.kind = "concise"
  /\ out' = ParseConcise(stdout)
  /\ UNCHANGED <<obj, stdout>>

Next == ReadDetailed \/ ReadConcise

Spec == Init /\ [][Next]_vars

(***************************************************************************)
(* Properties.                                                            *)
(***************************************************************************)

Strs == Values \cup BangVals
Dicts == UNION {[K -> Strs] : K \in SUBSET Names}

TypeOK ==
  /\ obj \in Tables \cup Views
  /\ out.exc \in {"notyet", "none", "IndexError"}
  /\ out.exc # "none" => out.cmd_output = << >>
  /\ obj.kind = "detailed" => out.cmd_output \in Dicts
  /\ obj.kind = "concise" =>
       /\ DOMAIN out.cmd_output = 1..Len(out.cmd_output)
       /\ \A r \in DOMAIN out.cmd_output : out.cmd_output[r] \in Dicts

\* _execute_command_and_parse_concise gives back exactly the objects the
\* listing printed: one dict per object, in order, each mapping every
\* column name to that object's value, although it takes the rows
\* between the header and the blank line that follows the last newline.
ConciseRoundTrip ==
  out # NotYet /\ obj.kind = "concise" =>
     out = Result("none", [r \in DOMAIN obj.rows |->
              [k \in ToSet(obj.keys) |-> obj.rows[r][Index(obj.keys, k)]]])

\* _execute_command_and_parse_detailed maps every attribute name printed
\* to the text after the first delimiter of its line, delimiters in the
\* value included; of a name printed on several lines (the WWPNs of a
\* multi-port host) only the last line's value survives.
DetailedRoundTrip ==
  out # NotYet /\ obj.kind = "detailed" =>
     out = Result("none", [n \in {obj.lines[i][1] : i \in DOMAIN obj.lines} |->
              obj.lines[SelectLastInSeq(obj.lines, LAMBDA l : l[1] = n)][2]])

=============================================================================
