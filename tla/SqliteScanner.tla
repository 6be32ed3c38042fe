---------------------------- MODULE SqliteScanner ----------------------------
(***************************************************************************)
(* pdo_sqlite_scanner (src/thirdparty/php84/pdo_sqlite/sqlite_sql_parser.c) *)
(* the re2c-generated DFA that PDO's pdo_parse_params calls to split a      *)
(* query into text, named placeholders (:name) and positional ones (?).    *)
(*                                                                         *)
(* A query is a sequence of character classes; the scanner's input is the  *)
(* query followed by its NUL terminator (pdo_parse_params sets s.end one   *)
(* past it).  Each labelled block of the DFA is an operator over the input *)
(* and the cursor; a block that loops is RECURSIVE.  The scan returns the  *)
(* token kind and the new s->cur.                                          *)
(*                                                                         *)
(* The reference is SQL's lexical structure: a '...', "...", `...` literal  *)
(* ends at the first closing quote that is not doubled, [...] at the first *)
(* ], -- comments at the end of the line and block comments at the first   *)
(* star-slash.                                                             *)
(***************************************************************************)
EXTENDS Integers, Sequences, SequencesExt

CONSTANTS
  Chars,       \* character classes a query is made of (no embedded NUL)
  MaxLen,      \* bound on the query length
  NotScanned   \* tokens before pdo_parse_params has run

\* Character classes: "word" is [a-zA-Z0-9_], "space" any other character
\* the DFA does not single out.
AllChars == {"dquote", "squote", "backtick", "lbracket", "rbracket", "dash",
             "slash", "star", "colon", "question", "word", "newline", "space"}

ASSUME Chars \subseteq AllChars /\ MaxLen \in Nat

\* The characters that end a run of plain text (yy2).
Specials == {"nul", "dquote", "squote", "dash", "slash", "colon", "question",
             "lbracket", "backtick"}

\* The closing character of each quoted form.
Closer == [dquote |-> "dquote", squote |-> "squote", backtick |-> "backtick",
           lbracket |-> "rbracket"]

-----------------------------------------------------------------------------
(* pdo_sqlite_scanner                                                      *)

\* RET(kind): s->cur = cursor.
Ret(kind, c) == [kind |-> kind, cur |-> c]

\* `if (YYLIMIT <= YYCURSOR) YYFILL(1)`: YYFILL returns PDO_PARSER_EOI.
AtLimit(s, c) == Len(s) + 1 <= c

\* yy5, SKIP_ONE(PDO_PARSER_TEXT): s->cur = s->tok + 1.
SkipOne(tok) == Ret("TEXT", tok + 1)

\* yy1: the cursor returns to YYMARKER and yyaccept picks the rule; 0 is
\* the SKIP_ONE rule, which ignores the cursor.
Backtrack(tok, mark, accepted) == IF accepted THEN Ret("TEXT", mark) ELSE SkipOne(tok)

\* yy2-yy3: a run of plain text ends before the next special character.
RECURSIVE TextRun(_, _)
TextRun(s, c) ==
  IF AtLimit(s, c + 1) THEN Ret("EOI", c + 1)
  ELSE IF s[c + 1] \in Specials THEN Ret("TEXT", c + 1)
  ELSE TextRun(s, c + 1)

\* yy14-yy15 (and their copies yy18-19, yy30-31, yy34-35): inside a quoted
\* form, a NUL backtracks and the closer goes to QuotedClose.
\* yy16-yy17 (and yy20-21, yy32-33, yy36-37): after a closer the token is
\* accepted up to here; another closer stays here, NUL ends the token and
\* anything else goes back into the body.
RECURSIVE QuotedBody(_, _, _, _, _, _), QuotedClose(_, _, _, _)
QuotedBody(s, tok, c, close, mark, accepted) ==
  IF AtLimit(s, c + 1) THEN Ret("EOI", c + 1)
  ELSE IF s[c + 1] = "nul" THEN Backtrack(tok, mark, accepted)
  ELSE IF s[c + 1] = close THEN QuotedClose(s, tok, c + 1, close)
  ELSE QuotedBody(s, tok, c + 1, close, mark, accepted)
QuotedClose(s, tok, c, close) ==
  IF AtLimit(s, c + 1) THEN Ret("EOI", c + 1)
  ELSE IF s[c + 1] = "nul" THEN Ret("TEXT", c + 1)
  ELSE IF s[c + 1] = close THEN QuotedClose(s, tok, c + 1, close)
  ELSE QuotedBody(s, tok, c + 1, close, c + 1, TRUE)

\* yy4, yy6, yy12, yy13: an opening quote or bracket; yyaccept = 0 and the
\* marker is set past it; a NUL next makes it a one-character token.
Quoted(s, tok) ==
  LET close == Closer[s[tok]] IN
  IF s[tok + 1] = "nul" THEN SkipOne(tok)
  ELSE IF s[tok + 1] = close THEN QuotedClose(s, tok, tok + 1, close)
  ELSE QuotedBody(s, tok, tok + 1, close, tok + 1, FALSE)

\* yy22-yy23: a -- comment runs up to, not including, the newline.
RECURSIVE LineComment(_, _)
LineComment(s, c) ==
  IF AtLimit(s, c + 1) THEN Ret("EOI", c + 1)
  ELSE IF s[c + 1] = "newline" THEN Ret("TEXT", c + 1)
  ELSE LineComment(s, c + 1)

\* yy7: a dash starts a comment only when another follows.
Dash(s, tok) == IF s[tok + 1] = "dash" THEN LineComment(s, tok + 1) ELSE SkipOne(tok)

\* yy24 and yy38-yy39: a block comment ends after the first star-slash.
RECURSIVE CommentBody(_, _), CommentStar(_, _)
CommentBody(s, c) ==
  IF AtLimit(s, c + 1) THEN Ret("EOI", c + 1)
  ELSE IF s[c + 1] = "star" THEN CommentStar(s, c + 1)
  ELSE CommentBody(s, c + 1)
CommentStar(s, c) ==
  IF AtLimit(s, c + 1) THEN Ret("EOI", c + 1)
  ELSE IF s[c + 1] = "star" THEN CommentStar(s, c + 1)
  ELSE IF s[c + 1] = "slash" THEN Ret("TEXT", c + 2)
  ELSE CommentBody(s, c + 1)

\* yy8: a slash starts a comment only when a star follows.
Slash(s, tok) == IF s[tok + 1] = "star" THEN CommentBody(s, tok + 1) ELSE SkipOne(tok)

\* yy25-yy26: a named placeholder runs over [a-zA-Z0-9_].
RECURSIVE BindName(_, _)
BindName(s, c) ==
  IF AtLimit(s, c + 1) THEN Ret("EOI", c + 1)
  ELSE IF s[c + 1] = "word" THEN BindName(s, c + 1)
  ELSE Ret("BIND", c + 1)

\* yy27-yy28 and yy29: a run of two or more colons, or of two or more
\* question marks, is text.
RECURSIVE Repeat(_, _, _)
Repeat(s, c, ch) ==
  IF AtLimit(s, c + 1) THEN Ret("EOI", c + 1)
  ELSE IF s[c + 1] = ch THEN Repeat(s, c + 1, ch)
  ELSE Ret("TEXT", c + 1)

\* yy9: a colon followed by a name character, by a colon, or by neither.
Colon(s, tok) ==
  CASE s[tok + 1] = "word"  -> BindName(s, tok + 1)
    [] s[tok + 1] = "colon" -> Repeat(s, tok + 1, "colon")
    [] OTHER                -> SkipOne(tok)

\* yy10-yy11: a lone question mark is a positional placeholder.
Question(s, tok) ==
  IF s[tok + 1] = "question" THEN Repeat(s, tok + 1, "question")
  ELSE Ret("BIND_POS", tok + 1)

\* pdo_sqlite_scanner: s->tok = s->cur; fewer than two characters left is
\* the end of input; otherwise dispatch on the first character.  A NUL
\* goes to yy1 with yyaccept = 0, that is SKIP_ONE.
Scan(s, tok) ==
  IF (Len(s) + 1) - tok < 2 THEN Ret("EOI", tok)
  ELSE CASE s[tok] = "nul"             -> SkipOne(tok)
         [] s[tok] \in DOMAIN Closer    -> Quoted(s, tok)
         [] s[tok] = "dash"             -> Dash(s, tok)
         [] s[tok] = "slash"            -> Slash(s, tok)
         [] s[tok] = "colon"            -> Colon(s, tok)
         [] s[tok] = "question"         -> Question(s, tok)
         [] OTHER                       -> TextRun(s, tok)

\* pdo_parse_params: `while ((t = scan(&s)) != PDO_PARSER_EOI)`, each token
\* running from s->tok to s->cur - 1.
RECURSIVE Tokens(_, _)
Tokens(s, tok) ==
  LET r == Scan(s, tok) IN
  IF r.kind = "EOI" THEN <<>>
  ELSE <<[kind |-> r.kind, from |-> tok]>> \o Tokens(s, r.cur)

-----------------------------------------------------------------------------
(* Reference: SQL's lexical structure                                      *)

\* The end of a literal opened before i by q: the first closer that is not
\* doubled ([...] has no escape); 0 if the input ends first.
RECURSIVE LiteralEnd(_, _, _)
LiteralEnd(s, i, q) ==
  IF i >= Len(s) THEN 0
  ELSE IF s[i] # Closer[q] THEN LiteralEnd(s, i + 1, q)
  ELSE IF q # "lbracket" /\ s[i + 1] = Closer[q] THEN LiteralEnd(s, i + 2, q)
  ELSE i

\* The last position of a -- comment whose text continues at i.
RECURSIVE LineEnd(_, _)
LineEnd(s, i) == IF i >= Len(s) \/ s[i] = "newline" THEN i - 1 ELSE LineEnd(s, i + 1)

\* The slash closing a block comment whose body starts at i; 0 if none.
RECURSIVE BlockEnd(_, _)
BlockEnd(s, i) ==
  IF i + 1 >= Len(s) THEN 0
  ELSE IF s[i] = "star" /\ s[i + 1] = "slash" THEN i + 1
  ELSE BlockEnd(s, i + 1)

\* The last position of the lexeme starting at i (0: never closed); a
\* character outside literals and comments is a lexeme of its own.
LexemeEnd(s, i) ==
  CASE s[i] \in DOMAIN Closer                -> LiteralEnd(s, i + 1, s[i])
    [] s[i] = "dash" /\ s[i + 1] = "dash"    -> LineEnd(s, i + 2)
    [] s[i] = "slash" /\ s[i + 1] = "star"   -> BlockEnd(s, i + 2)
    [] OTHER                                 -> i

\* The positions from i on that lie outside literals and comments, and
\* whether every literal and block comment is closed.
RECURSIVE Lex(_, _)
Lex(s, i) ==
  IF i >= Len(s) THEN [code |-> {}, closed |-> TRUE]
  ELSE LET e == LexemeEnd(s, i) IN
       IF e = 0 THEN [code |-> {}, closed |-> FALSE]
       ELSE LET rest == Lex(s, e + 1) IN
            [code |-> IF e = i THEN rest.code \cup {i} ELSE rest.code,
             closed |-> rest.closed]

\* The placeholders of a query: outside literals and comments, a lone
\* question mark, or a colon that follows no colon and precedes a name.
RefPlaceholders(s) ==
  LET L == Lex(s, 1)
      CodeIs(i, ch) == i \in L.code /\ s[i] = ch
  IN { i \in L.code :
         \/ s[i] = "question" /\ ~CodeIs(i - 1, "question") /\ ~CodeIs(i + 1, "question")
         \/ s[i] = "colon" /\ s[i + 1] = "word" /\ ~CodeIs(i - 1, "colon") }

-----------------------------------------------------------------------------
(* A query prepared through PDO                                            *)

VARIABLES
  query,   \* the query text so far
  tokens   \* the tokens pdo_parse_params received, NotScanned before

vars == <<query, tokens>>

\* The scanner's buffer: the query and its terminator.
Input == query \o <<"nul">>

\* The placeholders the scanner reported.
Reported == { tokens[k].from : k \in {j \in DOMAIN tokens : tokens[j].kind \in {"BIND", "BIND_POS"}} }

Init == query = <<>> /\ tokens = NotScanned

\* The script builds the query.
Type(ch) ==
  /\ tokens = NotScanned /\ Len(query) < MaxLen
  /\ query' = Append(query, ch)
  /\ UNCHANGED tokens

\* PDO::prepare: pdo_parse_params scans the whole query.
Prepare ==
  /\ tokens = NotScanned
  /\ tokens' = Tokens(Input, 1)
  /\ UNCHANGED query

\* The statement is prepared.
Prepared == tokens # NotScanned /\ UNCHANGED vars

Next == (\E ch \in Chars : Type(ch)) \/ Prepare \/ Prepared

Spec == Init /\ [][Next]_vars

-----------------------------------------------------------------------------
(* Properties                                                              *)

\* pdo_parse_params finds every placeholder: in a query whose literals and
\* comments are all closed, pdo_sqlite_scanner reports each lone ? and each
\* :name that SQL sees outside literals and comments.
EveryPlaceholderReported ==
  tokens # NotScanned /\ Lex(Input, 1).closed => RefPlaceholders(Input) \subseteq Reported

=============================================================================
