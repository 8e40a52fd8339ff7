--------------------------- MODULE SchemaGrammar ---------------------------
(***************************************************************************)
(* The language of schemas: the lexical rules and the productions that     *)
(* SchemaParser adds.  Characters stand for themselves; letters, digits    *)
(* and control characters that no rule tells apart have one                *)
(* representative, and the word "delimiters" is spelled by two letters.    *)
(***************************************************************************)
EXTENDS Lalr1Tables

LowerCase == {"d", "e", "f", "n", "r", "s", "t", "v", "w"}
UpperCase == {"D", "E", "S", "W"}
Digits == {"0"}
Controls == {"tab", "nl", "vt", "ff", "cr"}

special_regex_characters ==
  << <<"(", "Lparen">>, <<")", "Rparen">>, <<"*", "Star">>, <<"+", "Plus">>, <<"-", "Dash">>,
     <<".", "Dot">>, <<"[", "Lbracket">>, <<"]", "Rbracket">>, <<"backslash", "Backslash">>,
     <<"^", "Hat">>, <<"{", "Lbrace">>, <<"}", "Rbrace">>, <<"|", "Vbar">>, <<"<", "Langle">>,
     <<">", "Rangle">>, <<"?", "QuestionMark">> >>

\* The characters that are a Literal as they are.
literal_characters ==
  << <<" ", "Space">>, <<"!", "Bang">>, <<"quote", "Quotation">>, <<"#", "Hash">>,
     <<"$", "DollarSign">>, <<"%", "Percent">>, <<"&", "Ampersand">>, <<"apostrophe", "Apostrophe">>,
     <<",", "Comma">>, <<"/", "ForwardSlash">>, <<":", "Colon">>, <<";", "SemiColon">>,
     <<"=", "Equal">>, <<"@", "At">>, <<"_", "Underscore">>, <<"backtick", "Backtick">>,
     <<"~", "Tilde">> >>

letter_tokens == <<"d", "f", "n", "r", "s", "t", "v", "w", "D", "S", "W">>

Named(pairs) == [i \in DOMAIN pairs |-> [name |-> pairs[i][2], words |-> {<<pairs[i][1]>>}]]
Group(name, chars) == [name |-> name, words |-> {<<c>> : c \in chars}]

Printable == {special_regex_characters[i][1] : i \in DOMAIN special_regex_characters}
             \cup {literal_characters[i][1] : i \in DOMAIN literal_characters}
             \cup LowerCase \cup UpperCase \cup Digits

\* add_lexical_rules: the rules by the ids of their names.
lexical_rules ==
  Named(special_regex_characters)
  \o Named(<< <<"tab", "Tab">>, <<"nl", "NewLine">>, <<"vt", "VerticalTab">>,
              <<"ff", "FormFeed">>, <<"cr", "CarriageReturn">> >>)
  \o Named(literal_characters)
  \o << Group("Numeric", Digits), Group("AlphaNumeric", LowerCase \cup UpperCase \cup Digits) >>
  \o Named([i \in DOMAIN letter_tokens |-> <<letter_tokens[i], letter_tokens[i]>>])
  \o << [name |-> "Delimiters", words |-> {<<"d", "e">>}],
        Group("CommentCharacters", (Printable \cup Controls) \ {"nl", "cr"}),
        Group("IdentifierCharacters", LowerCase \cup UpperCase \cup Digits \cup {"_"}),
        Group("DelimiterCharacters", Printable) >>

\* What the lexer finds a word to be: all the rules that it matches, by id.
token_types(word) ==
  LET matching == SelectSeq(lexical_rules, LAMBDA r : word \in r.words)
  IN [i \in DOMAIN matching |-> matching[i].name]

P(head, body, rule) == Production(head, body, rule)
\* Productions that differ in one token only.
PerToken(pairs, head, before, rule) ==
  [i \in DOMAIN pairs |-> P(head, before \o <<pairs[i][2]>>, rule)]
Letters(s) == [i \in DOMAIN s |-> <<s[i], s[i]>>]

\* add_productions.  Of a semantic rule the places of the tokens whose text it
\* reads are kept.
schema_productions ==
  << P("Schema", <<"Comment">>, {}),
     P("Schema", <<"SchemaVar">>, {}),
     P("Schema", <<"Delimiters", "Colon", "DelimiterString">>, {}),
     P("Schema", <<"Schema", "PortableNewLine">>, {}),
     P("Schema", <<"Schema", "PortableNewLine", "Comment">>, {}),
     P("Schema", <<"Schema", "PortableNewLine", "SchemaVar">>, {}),
     P("Schema", <<"Schema", "PortableNewLine", "Delimiters", "Colon", "DelimiterString">>, {}),
     P("DelimiterString", <<"DelimiterString", "DelimiterCharacter">>, {}),
     P("DelimiterString", <<"DelimiterString", "WhiteSpaceCharacter">>, {}),
     P("DelimiterString", <<"DelimiterCharacter">>, {}),
     P("DelimiterString", <<"WhiteSpaceCharacter">>, {}),
     P("DelimiterCharacter", <<"DelimiterCharacters">>, {1}),
     P("PortableNewLine", <<"CarriageReturn", "NewLine">>, None),
     P("PortableNewLine", <<"NewLine">>, None),
     P("Comment", <<"ForwardSlash", "ForwardSlash", "Text">>, None),
     P("Text", <<"Text", "CommentCharacters">>, None),
     P("Text", <<"CommentCharacters">>, None),
     P("Text", <<"Text", "Delimiters">>, None),
     P("Text", <<"Delimiters">>, None),
     P("SchemaVar", <<"WhitespaceStar", "Identifier", "Colon", "Regex">>, {}),
     P("Identifier", <<"Identifier", "IdentifierCharacters">>, {2}),
     P("Identifier", <<"IdentifierCharacters">>, {1}),
     P("WhitespaceStar", <<"WhitespaceStar", "Space">>, None),
     P("WhitespaceStar", <<>>, None),
     P("Regex", <<"Or">>, {}),
     P("Or", <<"Or", "Vbar", "Concat">>, {}),
     P("Or", <<"Concat">>, {}),
     P("Concat", <<"Concat", "Quantity">>, {}),
     P("Concat", <<"Concat", "CompleteGroup">>, {}),
     P("Concat", <<"Quantity">>, {}),
     P("Concat", <<"CompleteGroup">>, {}),
     P("Quantity", <<"CompleteGroup", "Star">>, {}),
     P("Quantity", <<"CompleteGroup", "Plus">>, {}),
     P("Quantity", <<"CompleteGroup", "QuestionMark">>, {}),
     P("Quantity", <<"CompleteGroup", "Lbrace", "Integer", "Rbrace">>, {}),
     P("Quantity", <<"CompleteGroup", "Lbrace", "Integer", "Comma", "Integer", "Rbrace">>, {}),
     P("CompleteGroup", <<"IncompleteGroup", "Rbracket">>, {}),
     P("CompleteGroup", <<"Wildcard">>, {}),
     P("CompleteGroup", <<"Shorthand">>, {}),
     P("CompleteGroup", <<"Literal">>, {}),
     P("CompleteGroup", <<"Dash">>, {1}),
     P("IncompleteGroup", <<"IncompleteGroup", "LiteralRange">>, {}),
     P("IncompleteGroup", <<"IncompleteGroup", "Shorthand">>, {}),
     P("IncompleteGroup", <<"IncompleteGroup", "Literal">>, {}),
     P("IncompleteGroup", <<"Lbracket", "LiteralRange">>, {}),
     P("IncompleteGroup", <<"Lbracket", "Shorthand">>, {}),
     P("IncompleteGroup", <<"Lbracket", "Literal">>, {}),
     P("IncompleteGroup", <<"Lbracket", "Hat">>, {}),
     P("LiteralRange", <<"Literal", "Dash", "Literal">>, {}) >>
  \o PerToken(literal_characters, "Literal", <<>>, {1})
  \o << P("Literal", <<"AlphaNumeric">>, {1}),
        P("Literal", <<"Lparen", "QuestionMark", "Langle", "Identifier", "Rangle", "Regex",
                       "Rparen">>, {}),
        P("Literal", <<"Lparen", "Regex", "Rparen">>, {}) >>
  \o PerToken(special_regex_characters, "Literal", <<"Backslash">>, {2})
  \o << P("Literal", <<"WhiteSpaceCharacter">>, {}) >>
  \o PerToken(Letters(<<"t", "n", "v", "f", "r">>), "WhiteSpaceCharacter", <<"Backslash">>, {})
  \o << P("Integer", <<"Integer", "Numeric">>, {2}),
        P("Integer", <<"Numeric">>, {1}),
        P("Wildcard", <<"Dot">>, {}) >>
  \o PerToken(Letters(<<"d", "D", "s", "S", "w", "W">>), "Shorthand", <<"Backslash">>, {})
=============================================================================
