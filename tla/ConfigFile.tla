----------------------------- MODULE ConfigFile -----------------------------
(***************************************************************************)
(* Reading a configuration file (base/config_file.cc): config_parse, one   *)
(* character after the other, with its token buffer.  The table is the     *)
(* search tree of ConfigBst, by what it promises: a key has one pair, and  *)
(* bst_probe keeps the pair that is there.                                 *)
(***************************************************************************)
EXTENDS Integers, SequencesExt

CONSTANTS
  FileLines,       \* sequences of characters a line may consist of
  MaxLines,        \* lines of a file
  CONFIG_TOKSIZE   \* first size of the token buffer, 32 in the code

ASSUME ConfigAssumption == CONFIG_TOKSIZE \in Nat \ {0}

VARIABLES
  parser,  \* the variables of config_parse, and data->table
  file     \* the complete lines read so far

Undefined == <<"undefined">>  \* config_get: 0
NoPair == <<"no pair">>

\* config_parse up to its loop; token is the buffer, t the place to write at
ConfigStart ==
  [state |-> "INITIAL", token |-> <<>>, t |-> 0, got_tok |-> FALSE, pair |-> NoPair,
   cap |-> CONFIG_TOKSIZE, overrun |-> 0, open |-> TRUE, table |-> [key \in {} |-> <<>>]]

ConfigFileInit == parser = ConfigStart /\ file = <<>>

\* *t = c, wherever t is
PutAt(p, c) ==
  [p EXCEPT !.token = IF p.t < Len(@) THEN [@ EXCEPT ![p.t + 1] = c] ELSE Append(@, c),
            !.overrun = IF p.t - p.cap + 1 > @ THEN p.t - p.cap + 1 ELSE @]

\* The buffer is enlarged when t is past its end, not when it is at it.
PutChar(p, c) ==
  LET roomy == IF p.t > p.cap THEN [p EXCEPT !.cap = 2 * @] ELSE p
  IN  [PutAt(roomy, c) EXCEPT !.t = @ + 1]

EndToken(p) == [PutAt(p, "nul") EXCEPT !.got_tok = TRUE]

\* strdup: up to the first terminator.  An unterminated string may have written
\* over it; the byte after what was written is then taken to be one.
Text(p) == SubSeq(p.token, 1, SelectInSeq(Append(p.token, "nul"), LAMBDA c : c = "nul") - 1)

config_get(p, key) == IF key \in DOMAIN p.table THEN p.table[key] ELSE Undefined

\* Mutant of HandleSep: the key is still there as a token when the value is read.
HandleSepKeepsToken(p) ==
  [p EXCEPT !.pair = IF ~p.got_tok \/ config_get(p, Text(p)) # Undefined THEN NoPair ELSE Text(p),
            !.state = "INITIAL"]

\* CONFIG_HANDLE_SEP: the token read last is a key, if it is a new one
HandleSep(p) ==
  [p EXCEPT !.pair = IF ~p.got_tok \/ config_get(p, Text(p)) # Undefined THEN NoPair ELSE Text(p),
            !.got_tok = FALSE, !.state = "INITIAL"]

\* CONFIG_HANDLE_NEWLINE: the pair gets its value and enters the table
HandleNewline(p) ==
  [p EXCEPT !.table = IF p.pair = NoPair THEN @
                      ELSE [key \in DOMAIN @ \cup {p.pair} |->
                              IF key = p.pair /\ key \notin DOMAIN p.table
                              THEN IF p.got_tok THEN Text(p) ELSE <<>>
                              ELSE p.table[key]],
            !.got_tok = FALSE, !.pair = NoPair, !.state = "INITIAL"]

Goto(p, state) == [p EXCEPT !.state = state]

ParseInitial(p, c) ==
  CASE c = "#" -> Goto(p, "COMMENT")
    [] c = "quote" -> [Goto(p, "QUOTED") EXCEPT !.t = 0]
    [] c = "newline" -> HandleNewline(p)
    [] c = "=" -> Goto(p, "HANDLE_SEP")
    [] c = "space" -> p
    [] OTHER -> PutChar([Goto(p, "UNQUOTED") EXCEPT !.t = 0], c)

ParseQuoted(p, c) ==
  CASE c = "quote" -> Goto(EndToken(p), "INITIAL")
    [] c = "newline" -> HandleNewline(p)
    [] OTHER -> PutChar(p, c)

ParseUnquoted(p, c) ==
  CASE c = "#" -> Goto(EndToken(p), "COMMENT")
    [] c = "newline" -> HandleNewline(EndToken(p))
    [] c = "=" -> Goto(EndToken(p), "HANDLE_SEP")
    [] c = "space" -> Goto(EndToken(p), "INITIAL")
    [] OTHER -> PutChar(p, c)

\* one character; a separator is dealt with before the character after it
ParseChar(q, c) ==
  LET p == IF q.state = "HANDLE_SEP" THEN HandleSep(q) ELSE q
  IN  CASE p.state = "INITIAL" -> ParseInitial(p, c)
        [] p.state = "COMMENT" -> IF c = "newline" THEN HandleNewline(p) ELSE p
        [] p.state = "QUOTED" -> ParseQuoted(p, c)
        [] p.state = "UNQUOTED" -> ParseUnquoted(p, c)

ReadLine(line) ==
  /\ parser.open
  /\ Len(file) < MaxLines
  /\ parser' = FoldLeft(ParseChar, parser, Append(line, "newline"))
  /\ file' = Append(file, line)

\* the end of the file, perhaps after characters without a newline: cleanup
\* frees the pair that has not entered the table, and config_parse returns
ReadEnd(line) ==
  /\ parser.open
  /\ Len(file) < MaxLines
  /\ LET p == FoldLeft(ParseChar, parser, line)
     IN  parser' = [ConfigStart EXCEPT !.table = p.table, !.overrun = p.overrun, !.open = FALSE]
  /\ file' = file

ConfigFileNext == \E line \in FileLines : ReadLine(line) \/ ReadEnd(line)

-----------------------------------------------------------------------------
(* Properties *)

Word(line) == SelectSeq(line, LAMBDA c : c # "space")
\* a single word, spaces around it apart
IsWord(line) ==
  /\ \A c \in ToSet(line) : c \notin {"=", "#", "quote"}
  /\ \A i, j \in 1 .. Len(line) : i < j /\ line[i] # "space" /\ line[j] # "space" =>
       \A k \in i .. j : line[k] # "space"

\* "key = value" as the configuration files in conf/ have it
IsDefinition(line) ==
  \E i \in 1 .. Len(line) :
    /\ line[i] = "="
    /\ IsWord(SubSeq(line, 1, i - 1)) /\ Word(SubSeq(line, 1, i - 1)) # <<>>
    /\ IsWord(SubSeq(line, i + 1, Len(line)))
Split(line) == CHOOSE i \in 1 .. Len(line) : line[i] = "="
KeyIn(line) == Word(SubSeq(line, 1, Split(line) - 1))
ValueIn(line) == Word(SubSeq(line, Split(line) + 1, Len(line)))

\* config_parse and config_get: when every complete line with a separator reads
\* "key = value", a key has the value of the first line that names it and no
\* other key has one, whatever comments, words and unfinished line come between;
\* the token buffer is never overrun by more than the two bytes that malloc's
\* rounding leaves behind it.
FirstDefinitionHolds ==
  /\ parser.overrun <= 2
  /\ LET separated == SelectSeq(file, LAMBDA line : "=" \in ToSet(line))
     IN  (\A line \in ToSet(separated) : IsDefinition(line)) =>
           /\ DOMAIN parser.table = {KeyIn(line) : line \in ToSet(separated)}
           /\ \A i \in 1 .. Len(separated) :
                (\A j \in 1 .. i - 1 : KeyIn(separated[j]) # KeyIn(separated[i])) =>
                  config_get(parser, KeyIn(separated[i])) = ValueIn(separated[i])
=============================================================================
