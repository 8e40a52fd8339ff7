# log-surgeon in TLA+

log-surgeon is a C++ library that parses logs with a user's schema of regular
expressions. It runs in one thread; what makes it hard is not concurrency but
*interruption*: a scan stops in the middle of a token when the bytes in memory
run out, the buffer is refilled or replaced while the lexer, the parser and the
tokens hold positions in it, and the work goes on as if nothing had happened.
This directory models that core and what surrounds it: the automata and their
registers, the parser of the schemas, the log events and the wildcard queries. It
model-checks them on small instances and proves, for every size, that the input
buffer and the registers keep their promise and that the events which both parsers
return are the log; for `ReaderParser` also that they end where the reference says,
that their copies are true and that their multiline flag is right; that the
interpretations of a query spell it and ask for the right variables; and that the
parser of the schemas, for any grammar without conflicts, finds on its stack what it
reduces and returns a parse tree.

Paths below are relative to `src/src/log_surgeon/`.

## The system's parts

| Component | State | Operations | Works with |
|---|---|---|---|
| Input buffer (`Buffer`, `ParserInputBuffer`) | storage in two halves, position, last position read, which half was read last, end flags, consumed position | `reset`, `set_storage`, `read_if_safe`, `increase_capacity`, `get_next_character`, setters | filled from a `Reader`; moved through by the lexer; told by the log parser what is consumed |
| Lexer (`Lexer`) | automaton state, match and its position, start of the scan, end of the last match, first delimiter, "asked for more data" | `scan`, `reset`, `prepend_start_of_file_char`, `increase_buffer_capacity`, `flip_states`; `scan_with_wildcard`, `generate` | reads characters, goes back in the buffer, runs the DFA, makes tokens |
| Log parser (`LogParser`, `LogParserOutputBuffer`, `Token`) | the event's tokens, the token kept for the next event | `parse`, `reset` | calls `scan`; groups tokens to events |
| `ReaderParser` | `m_done`, the reader | `parse_next_event`, `reset_and_set_reader` | calls `parse`, reads, grows the buffer |
| `BufferParser` | `m_done` | `parse_next_event`, `reset` | calls `parse` on the caller's array |
| Log events (`LogEvent`, `LogEventView`) | tokens by type, header and multiline flags | `to_string`, deep copy, log type, captures | filled by the log parser |
| Automata (`finite_automata/`) | regex AST, tagged NFA, DFA with register operations, tree of positions | construction, determinization, simulation, product | built by `Lexer::generate`, run by `scan` |
| Wildcard query parser | expression, views, interpretations | `Query::get_all_multi_token_interpretations` | asks the lexer which variables a piece of the query may be |
| LALR(1) parser, schema parser | grammar, item sets, action table, parse stack | `add_production`, `generate`, `parse` | parses schema files to ASTs |
| File reader, helpers | file handle; counters | I/O | |

What is hard to test in these parts is listed, line by line, under `hazards` in
`PROJECT.json`, with the properties that would notice it going wrong.

What makes each part correct:

* input buffer: a half is overwritten only when nothing in it is needed; bytes
  come in the order of the log over reads, wraps and growth; the end is
  announced at the end;
* lexer and log parser: the tokens, variables and events of a log do not depend
  on where the buffer happened to end; every call returns;
* `ReaderParser`, `BufferParser`: an application gets each event once, complete,
  and the parser is done at the end of the log; a reset forgets the old log;
* log events: a copy has the text, types and captures of the view;
* automata: the DFA accepts what the regular expression means and its registers
  hold the positions that the tags of the NFA path would have;
* query parser: every way in which a matching text could be tokenized is among
  the interpretations;
* LALR(1): the table drives the parser to accept the language of the grammar.

## The modules

| Module | What it is |
|---|---|
| `InputBufferOps` | the methods of `ParserInputBuffer` as operators on a record of its fields |
| `ParserInputBuffer` | the buffer and a caller that uses it by the rules: state machine, invariants, inductive invariant |
| `LogCursor` | the abstract specification: a cursor on the log |
| `ParserInputBufferProofs` | theorems about `ParserInputBuffer`, for every buffer size |
| `LexerOps` | the methods of `Lexer`, and the parts of `scan`, as operators on a record of its fields; the schema's automaton is a parameter |
| `LogParser` | `Lexer::scan` and `LogParser::parse` as actions, one per branch; the deep copy and the multiline flag of an event; what the events and variables of a log are, without buffers |
| `ReaderParser` | `LogParser` with a reader, growth and reader errors; the inductive invariants behind its `TypeOK`, `EventIsNextText`, `CopyIsEvent`, `EventIsReference` and `MultilineIsReference` |
| `ReaderParserProofs` | type correctness of `ReaderParser`, and that it returns the log piece by piece, for every schema, log, buffer size and number of growths |
| `ReaderEventProofs` | lemmas on the recursively defined operators of `LogParser` (concatenation, copies, runs of the automaton); that the copies of an event are the event, for the same; that events end where the reference says and are marked multiline when they are, for every schema whose rules begin as `add_rules` makes them begin and every log none of whose tokens goes on behind a newline |
| `BufferParser` | `LogParser` with the caller's array and the caller of `examples/buffer-parser.cpp`; its inductive invariant |
| `BufferParserProofs` | theorems about `BufferParser`, for every schema, log and array size |
| `Regex` | the expressions of a schema, the `RegexAST` that is built for each, and, as the reference, the ways to match a text |
| `Nfa` | `add_to_nfa`: the tagged NFA of a schema |
| `Dfa` | `Dfa::generate`, one action per move and per transition, then the lexer's use of the automaton and of its registers, the capture matches of a token in their order, and the log type |
| `RegisterLists` | the abstract specification of registers: one list of positions each |
| `Registers` | `RegisterHandler` and `PrefixTree`, from the generation of the automaton to the token that reads them: state machine, invariants |
| `RegistersProofs` | theorems about `Registers`, for every number of registers, nodes and positions |
| `Lalr1Tables` | `add_production` and `generate` of `Lalr1Parser` as functions of a grammar |
| `Lalr1Parser` | `parse`, `report_error` and the reader of a schema, over `InputBufferOps` and `Lalr1Tables`, as actions |
| `Lalr1Reference` | what the parses of a text are, by recursion, and the properties that compare `Lalr1Parser` with them |
| `Lalr1ParserProofs` | theorems about `Lalr1Parser` and the tables it uses, for every grammar and every schema |
| `SchemaGrammar` | `SchemaParser`'s lexical rules and productions |
| `Expression` | `Expression` and `ExpressionView`: a query's characters, its views and their regular expressions |
| `Query` | the loop over the views that makes all interpretations, and the product of two automata; what texts a query matches |
| `QueryProofs` | theorems about `Query`, for every lexer and every query |
| `Induction` | lemmas for the proofs: induction and recursion over the naturals, loops that stop when they find nothing new |
| `MC*` | instances for TLC |

**Data.** A byte in storage is the *offset in the log* it was read from, or
`Unset`. So "the bytes are right" is a statement about numbers, and a token's
text is the sequence of offsets it covers. Characters exist only where the code
looks at them: `log[offset]`. A byte that belongs to no input may be read as any
character. Line numbers are left out; type ids are the four that the code treats
specially and one for variables. `LogParser` has the positions and no captures;
`Dfa` has the captures and a text that is simply there. `Lalr1Parser` has the
same bytes as offsets; what a semantic rule does is the set of places in the
production whose tokens' text it reads, because that is where a buffer that was
read into meanwhile would show.

**Control.** `pc` names the place in `scan` and `parse`; each action is one
branch from one such place to the next, and each iteration of a loop is an
action. `ScanMatch`, `ScanLastText`, `ScanEnd`, `ScanUncaught` and `ScanSkip`
are the five ways out of "the automaton is stuck or the log has ended"; the
`Skip...` actions are the inner loop that looks for a delimiter;
`FirstToken...` and `NextToken...` are the two parts of `parse`. An event that
was returned stays in the view (`out`) until the next call resets it, and the
properties look at it there, after all the steps that could have damaged it.

**Storages.** `retired` holds the storages that were active before the buffer
grew, because tokens keep pointing into them.

**History.** `from` is the offset behind the text of the events returned so far.
`intact` records what is still claimed: a step of the code that is known to
misplace something (next section) removes "text" or "variables" from it until
the next log, and the passing runs check what remains. The conditions are
sharp: they name the one state in which the step goes wrong
(`misplaced_by_growth`), not the step. `path` in `Registers` is the list that was
appended on the way to each node.

**Log events.** The event in the view is copied (`deep_copy`) and read back as
the code reads it, slot by slot. For an event without a header the copy lacks its
first token (run `deep_copy`); `CopyIsEvent` claims the rest.

**Automata.** A schema is a sequence of rules over written expressions. `Ast`
is what the semantic rules of `SchemaParser` build, `rule_ast` what
`LogParser::add_rules` makes of it, `nfa_of` the NFA with the state ids of the
code. `Dfa` keeps the configurations of each DFA state, so that the order in
which `std::set` and `std::map` iterate, by which registers are numbered and
mappings found, is that of the code; the order of `std::unordered_map` in
`reassign_transition_reg_ops` is left open. A register is the list of its
positions. The lexer part takes any text of one line; where the next attempt
begins after a failed one is left open (`LogParser` has the rule). The reference
(`Parses`) yields, for a text, where each capture could lie.

**Registers.** An action is one operation of the handler: a register is added
during generation, appended to or copied during a scan; the handler is handed to
the token (`ReleaseRegHandler`); each turn of the loop in which a token's read
follows the parents of a node is an action. Appends, copies and reads come in any
order, those of a token's lists also while the automaton scans the next one.
Indices count from 1. `RegisterLists` is what `Dfa` computes with.

**LALR(1).** The worklists of `generate` (closures, item sets, lookaheads and their
propagation) are one operator, `worklist`: all that is found from a start; an item set is named by its kernel, as
in the code's map from kernels to item sets. The one place where the order of a
loop could matter is kept as the code has it: the passes over the nullable
symbols, where `changed || insert(...)` skips insertions. `pc` names the place in
`parse`, `scan`, `parse_advance` and `report_error`; the module's head lists
them. Each scanned character, shift, reduction and popped symbol is an action.
After a parse, accepted or not, the same parser parses another schema. The
grammar is a parameter, and so are the words of the lexer with their token types
in the order of ids.

**Queries.** One action is one view of the query, in the order of the two loops;
`query_interpretations` is the table that the loops fill. The automaton of a
view's regular expression is the sets of places in it; the product with the
lexer's automaton is that of `get_intersect`. A log matches an interpretation
when it can be cut into the interpretation's tokens the way the lexer cuts it.

## The runs

| Run | Shows |
|---|---|
| `input_buffer` | all invariants of the buffer, and that it implements `LogCursor` |
| `reader_parser` | events and variables equal the reference for every log and every buffer boundary, copies have the event's text and types, the multiline flag is right; every call returns |
| `buffer_parser` | the same through the caller's array, which is refilled at every possible place; each event is the next piece of the log, token by token; the bytes the caller is told to keep are those it needs; every log is finished; no deadlock |
| `automata` | for 18 schemas: a DFA state accepts exactly the rules that match what was read, a variable is the longest match and has the first of its rules, its captures are those of a parse, the log type names the innermost captures, no two DFA states differ in registers only |
| `registers` | registers that share a tree are independent lists (`RegisterLists`), also for a token that took the tree with it; every read ends |
| `schema_parser` | for the grammar of schemas and two small ones: `parse` accepts exactly the language, the stack always spells the input, an error is at the first token that cannot go on, rules read the text of their own tokens, the line of an error is shown, "error scanning" only for long text, every parse ends |
| `query` | for every short query: each interpretation spells the query, each text that matches the query is found by an interpretation in the way the lexer tokenizes it, and the product of automata has exactly the types of common texts |
| `growth_loses_text` | violated: growth misplaces the end of a matched newline |
| `stale_offset` | violated: the offset after a partial event without header is that of an older token |
| `alternation` | violated: `(a+)\|b` matches `ba`, because the repetition loops on the end state that both operands share |
| `deep_copy` | violated: the copy of an event without header lacks its first token |
| `schema_string` | violated: a schema string longer than half the buffer is read from its beginning again |

The violations are disagreements between a comment or the documentation and what
the code does; `findings` in `PROJECT.json` quotes both.

Other disagreements that were met have no run of their own. Where a model has the
behaviour, its properties say where they stop claiming; the rest is under "not
modelled":

* a short read is taken for the end of the log (`ShortReads`);
* with a consumed position of 0, after an event of one newline at the start of
  the buffer, there is no read after growth and the buffer is doubled again;
* `reset_and_set_reader` keeps the header token of the old log;
* a deep copy has no registers, and copying the empty last event throws;
* a last line of one token does not make an event multiline;
* a token of several lines (a variable or a header that matches newlines) is one
  token to the search for the next event and to the multiline flag, which look for
  newlines in front of tokens only (`LinesApart`);
* a capture of a variable that wraps in the ring buffer is ordered by its wrapped
  position; a repeated timestamp capture yields the last timestamp;
* a schema that ends exactly with the buffer, and any text of half a buffer that
  no rule consumes (a long comment), ends in a scan error; `report_error` does
  not read on, so the end of the line may be missing;
* the reader of a schema file takes a read error for the end of the file;
* lookaheads are propagated between item sets coarser than those of LALR(1):
  `S -> A a | b A c | d c | b d a`, `A -> d` is refused;
* a query that ends with a lone backslash has no interpretation.

**Bounds.** The static buffer has 6 bytes (48000 in the code) and may double
twice. With three bytes per half, tokens begin, end and lie across every
boundary, events are shorter and longer than a half and than the buffer, and
halves are read first-second-first. `input_buffer` takes inputs of up to 10
bytes and buffers of up to 12. `reader_parser` takes all logs of up to 5
characters over newline, another delimiter, `h` and `v`, those of up to 7
without the delimiter and those of up to 10 with newline and `v` only; between
any two calls another reader with one of two logs may be set. Its schema has a header `h` and
a variable `v+`, so that a header, a variable and the newline rule compete for
the byte after a newline. `buffer_parser` starts with an array of 2 bytes and
takes logs of up to 5 and 7 characters. `CHECK_DEADLOCK FALSE` is used for the
`ReaderParser` runs because a buffer at `MaxSize` may not grow further; in the
code it could. `automata` uses five characters (start of file, newline, a space
and two letters), texts of up to six and two failed attempts in a row. `registers`
has two registers, trees of three nodes with the root, and two positions, one of
them that of a negated tag; the theorems are for every number. `schema_parser` has a buffer of 8 bytes and the productions of
the schema grammar that 16 characters can reach; its schemas are short ones with
every kind of error, and longer ones, of up to 20 bytes, that put each token at
each side of the buffer's middle and end. The other two grammars have symbols
that are nullable through others, a production added twice, and a conflict.
`query` takes every query of up to 4 characters over a letter, a digit, a space,
`*`, `?` and `\`, those of 5 with digits, spaces and `*`, and a lexer with three
variables, one of which holds a delimiter. Both runs have `CHECK_DEADLOCK FALSE`
because a call that has returned, or a grammar refused, is the end. The
expressions of `automata` use every operator, with up to three captures: in
sequence, in both or one operand of an alternation, nested, optional, repeated, around a repetition, and
across a delimiter. They leave out what is known to fail:

* an unbounded repetition as the last part of an operand of an alternation that
  also has another way to its end (`alternation`; `R*` with a capture in `R` is
  such an alternation of the empty expression and `R+`);
* an alternation with a capture in one operand under a repetition: the negation
  in one turn hides the position set in the next (`get_tag_history` returns the
  first operation);
* two rules that accept the same text, of which the second is not the one with
  captures: the accepting operations of both write the same final registers;
* `{0}`, which becomes an infinite repetition;
* captures that may begin at unboundedly many places, such as
  `.*=(?<equals>.*[a-zA-Z0-9].*)` of `docs/schema.md`, where every further `=`
  adds a configuration to the DFA state, and captures with possibly empty content
  under an unbounded repetition, for which `spontaneous_closure` itself does not
  end.

**Fairness.** The code is sequential, so a call that has been made runs on:
`ReaderParser!LiveSpec` has weak fairness of the steps inside a call and none of
the application's. `BufferParser!LiveSpec` has weak fairness of `Next`, because
its question is about an application that keeps calling: does it get to the
end of the log? `Registers!LiveSpec` has weak fairness of the turns of a read,
`Lalr1Parser!LiveSpec` of the steps inside `parse`. None promises that a reader
succeeds.

## What is proved

`ParserInputBufferProofs` proves, for every even static size of at least 4,
every input length and every sequence of operations:

* `InductiveInvariant`: `Spec => []IInv`;
* `TypeCorrect`, `NothingNeededIsLost`, `FullyConsumedTruth`: `TypeOK`,
  `UnconsumedResident` and `FullyConsumedIsTruthful` are invariants;
* `GrowthIsForLongEvents`: `GrowthOnlyForLongEvents` is an invariant;
* `EndTruth`, `ImplementsCursor`: without short reads, the end is announced at
  the end and the buffer implements `LogCursor`.

The argument. `UnconsumedResident` alone is not inductive: whether a read
destroys a needed byte depends on how the *consumed position*, an index that
wraps, relates to the offset of the first byte still needed. `IInv` therefore
says which offset each position stands for (`OffsetAt`, `LayoutInv`), where
reads end (`EndInv`), that the first needed byte is behind the first position of
the oldest half (`OldestInv`), that a consumed position which makes a read safe
lies in the half read last together with the first needed byte
(`ConsumedInv`), and how the current position relates to the cursor, including
the wrapped position at the end of the buffer (`CursorInv`). Each operation has
a lemma that it preserves `IInv`; the two long ones are the read (which fills
one half) and growth (which makes the halves change places). The refinement is
proved step by step from `IInv`: reads and growth stutter up to the last answer,
the byte delivered is the cursor's. `GrowthOnlyForLongEvents` needs the converse
of `ConsumedInv`, `HeldInv`: a consumed position that makes a read *unsafe* is
that of a byte half a buffer back.

`BufferParserProofs` proves, for every automaton, every log and every sequence
of calls and refills of arrays of any size:

* `TypeCorrect`: `TypeOK` is an invariant, so that neither the lexer nor the
  offset handed back leaves the caller's array;
* `OffsetIsPartialEvent`: `OffsetAtPartialEvent` is an invariant;
* `EventsAreTheLog`: `EventIsNextText` is an invariant: each event is the next
  piece of the log, token by token, every call gets ahead, and the parser is done
  at the end of the log.

The argument. The text of an event is right if its tokens follow each other and
the first one begins where the last event ended. Neither can be seen from the
tokens alone: the lexer has always scanned ahead. `TextInv` therefore names, at
each point of a call, the end of the text that the lexer has returned
(`Pending`: the beginning of a match that it has ready, or else the end of the
last one) and the place where the next token begins (`Seam`: also a token kept
from the last call, or one that `scan` has just returned). `RestInv`, `MainInv`
and `SkipInv` say how the lexer's positions, the flags and the buffer's position
lie around `Pending` between two scans and in the two loops; `TokenInv` and
`KeptInv` that a token begins at `Seam`; `ViewInv` that the tokens of the view
follow each other from `from` on; `SeamInv` that they end at `Seam`; `OffsetInv`
that the array's offset is that of the first byte behind the last event. Each
step of `scan` and `parse` and each call has a lemma. The automaton is only a
parameter: what it accepts decides where tokens end and what they are, never
whether text is lost.

`ReaderParserProofs` proves, for every automaton, every log, every even static size and
every sequence of calls, growths, resets and reader errors:

* `TypeCorrect`: `TypeOK` is an invariant: no position that the input buffer or the
  lexer keeps lies outside the active storage, those included that `flip_states`
  leaves behind or moves to the wrong half.

The argument is `TypeInv`: a position of the lexer is always one that the input
buffer was at, and growth moves a position by at most half of the old size into a
storage twice as large. That the automaton stays in its states needs that each
byte it is given is one of the log, so `StorageOf` says that the storage holds
only what was read; the skip loop goes back to a position that it was at.

The module also proves, under the same assumptions and the two about the schema:

* `EventsAreTheLog`: `EventIsNextText` is an invariant: as long as nothing has put
  the text in doubt (`intact`), each event is the next piece of the log, token by
  token, whichever half of the ring buffer or retired storage a token is in and
  whether it wraps; every call gets ahead, and the parser is done at the end of the
  log.

The argument has the shape of `BufferParser`'s, but positions wrap, halves are
overwritten and growth moves them, so that `TextInv` of `ReaderParser` cannot speak
of positions. `OffsetOf` gives each position the offset in the log that it stands
for; between the first byte still needed (`Needed`) and the last one read this is
one to one and in the order of the text, and all of `RestInv`, `MainInv`, `SkipInv`,
`TokenInv`, `KeptInv` and `SeamInv` are about offsets. `BufferInv` says what
makes that sound: which half was read last and how far (`RingOf`), that every
byte from `Needed` on is in its place and that a read that `read_is_safe` permits
will not touch it (`KeepsFrom`). A read changes no offset of a byte that is still
needed; growth changes the position of each but not its offset, which is where
`flip_states` and the lexer's own positions have to agree. Tokens of the view
outlive their storage: `Spells` gives the text of a token out of the retired
storages and the active one, and each step that replaces the active storage has
to hand it on (`Chain`, in the proofs). After a growth that misplaces a position (`misplaced_by_growth`), a read error
right after growth, or a reader set while a token is kept for the next event,
`intact` no longer holds "text"; the run `growth_loses_text` shows an event that
has lost text so.

`ReaderEventProofs` begins with what the three following results need to know of
operators that are defined recursively (with the lemmas of `Induction`): that `Concat` of copied tokens is the text of the
tokens, that `deep_copy` puts each token where the one before it ends, what the
automaton's state after a piece of text is (`After`). The library's induction
theorem cannot be used, because it takes a predicate as a parameter. `SetInduction`
has a *set* in its place: a set of naturals that has 0 and with each number the next
one is all of them. If it were not, the naturals up to the one that is missing,
without those of the set below it, would be a finite set that y |-> y - 1 maps into
itself, one to one but not onto. The values of `LET f[k \in ...]` follow from it by
taking for the set the lengths for which the function is what it is defined to be.

It then proves, for every automaton, every log, every even static size
and every sequence of calls:

* `CopiesAreEvents`: `CopyIsEvent` is an invariant: the copy of an event has the
  text and the variables of the event, whether a token was in the active storage or
  a retired one, wrapped or not; and only the end of the log is an event without
  text.

The argument is `ViewTypeInv`: each token of the view has a storage that is still
there and lies inside it, wrapped or not. From it the length of a token's text is
what `deep_copy` allocates, so the copy's tokens tile the copy's buffer.

Under the assumptions of `EventsAreTheLog` and `LineRules`, it proves further of every
log of which `LinesApart` holds:

* `EventsAreReference`: `EventIsReference` is an invariant: an event ends in front of
  the next line that begins with a header, or with its line if it has no header
  itself, and it has one exactly if the reference finds one, which reads the log and
  knows no buffer;
* `MultilineIsRight`: `MultilineIsReference` is an invariant.

`LineRules` says what `LogParser::add_rules` makes of a schema that does not itself
have a variable of the name `newLine`: it puts the start of the file or '\n' in front
of a header and a delimiter in front of a variable, so that nothing leads back to the
automaton's first state and a header begins the log or a line; the rule `newLine` is
'\n' alone and no other rule reaches its state. It is a hypothesis of the theorems rather
than an assumption of the module; for the schema of the run, `MCReaderParser` has TLC
evaluate it.

`LinesApart` is about the log: no match of a rule goes on behind a '\n' that is not its
first character. `add_rules` does not see to that. A variable may include delimiters
(`docs/schema.md:5-6`), and a literal '\n', `[^..]`, `\D` or `\W` in a rule matches a
newline. Where a token is of several lines, the code and the reference differ: `parse`
ends an event, and `is_multiline` finds a line, by the first characters of tokens only,
so that a header on a line inside a token ends no event, and an event with such a
token may not be marked. The
hypothesis is needed: for a schema with a rule that goes on behind a newline TLC finds
both properties violated without `LinesApart`, and neither with it. The rules of the
run's schema contain no '\n' behind their first character, so that it holds of all its
logs. What `LinesApart` leaves to the lexer is every *attempt*: a rule may go over
any number of newlines and be interrupted there before it fails.

The argument. Where an event ends depends on what the lexer finds at the beginning
of each line, and the lexer may be interrupted there in any state. `LineInv` says of
the lexer, at each point of `scan`, that it is in the state which the automaton
reaches from the beginning of the match attempt (`MainLine`; `Tries` for an attempt that
began at a delimiter), that it has noted the last end of a rule that it passed
(`Noted`), that an attempt which has gone over a '\n' has not taken it for the first
delimiter, to which it goes back (`CleanUpTo`), and that there is no '\n' in what it has
skipped (`SkipLine`). A match that `scan` returns has no '\n' inside, by `LinesApart`; so a
token has a '\n' at most in front, and then it is a header exactly if the reference finds
one there (`LineToken`). What is
between two scans is `RestLine`, `TokenLine` and `NextEventLine`; `EventLine` says of the view's
text that no line in it but the first begins with a header. For the multiline flag,
`HeaderLines` says that the lines of an event begin with its tokens, and that an event
with a header that is not the last one ends with a token which is only the '\n'; the code compares the
number of tokens and finds the same as the reference, which looks at characters.

`RegistersProofs` proves, for every number of registers and nodes and every set
of positions:

* `TypesPreserved`, `TreesStayIntact`, `WalksStayOnPath`: `TypeOK`, `TreesIntact`
  and `WalkOnPath` are invariants;
* `RegistersKeepTheirPromise`: the registers implement `RegisterLists`.

The argument. That a register's list survives what is done to the others is not
a statement about one register: they share nodes. `TreesIntact` says of the
automaton's tree and of the token's that each node but the root has an earlier
parent (so there is no cycle) and that its list is its own position before its
parent's list; `insert` only adds nodes at the end, so no node's list ever
changes. `WalkOnPath` says that what a read has collected, followed by the list of
the node it is at, is the list of the register, which makes the result right when
the walk is at the root. The conjunction of the three is inductive, and the
refinement maps a register to the list of its node.

`QueryProofs` proves, for every lexer, every set of queries and every delimiters:

* `TypeCorrect`: `TypeOK` is an invariant: the loops stay within the query;
* `IntersectionsAreExact`: `IntersectIsExact` is an invariant: the types that
  `get_intersect` finds for a view are exactly those of the variables that the view's
  regular expression matches. The theorem's hypothesis, `Texts = Seq(Characters)`,
  says that variables of every length count; the run has those up to a bound;
* `InterpretationsAreTheQuery`: `InterpretationsSpellQuery` is an invariant: the
  tokens of each interpretation, joined and with repeated `*` made one, are the part
  of the query up to its end, and no two static tokens meet.

The argument for the intersection. What is visited is the least set of pairs that
has the first one and is closed under `get_reachable_pairs`, whatever the order of the
loop; a pair is in it exactly if a text leads to it in both automata. The lexer's
state is then the one of `TypesOf`, and the places in the regular expression are
those whose beginnings match the text (`Matches`), so the last place is reached
exactly if all of it matches. `visited_pairs` and `Matches` are recursive functions, of
which TLA+ only says what they *could* be: that a function with the recursive
equation exists is a lemma about functions on the naturals (`Recursion`), applied to
the number of pairs that are still missing.

The argument for the interpretations. That two joined texts spell their part of the
query is not an invariant by itself, because views overlap: a view is extended to the
`*` on either side, so that a `*` may be in two tokens or at the end of one whose
part of the query ends in front of it. `SpellInv` says of each interpretation of the first k
characters that it spells the query up to `k`, or up to `k + 1` if that is a `*`,
*after* repeated wildcards are made one, and that the query itself has no repeated
ones. What a string collapses to determines what its continuations collapse to
(`CollapsedOver`), so a further view can be joined whether it is a lone `*`, begins
behind a `*` or begins behind a character (`SpelledView`). Escapes are why
this needs care: a `*` behind a backslash is no wildcard, and whether a backslash is an
escape depends on all that is before it, in the interpretation's text as in the query.

`Lalr1ParserProofs` proves, for every grammar that `generate` finds no conflict in,
every set of words with their token types, every schema, the schemas parsed after it,
and every even buffer size of at least 4:

* `TypeCorrect`: `TypeOK` is an invariant: at the head of the loop of `parse` there is one
  item set more on its stack than there are matches, and each is in the tables;
* `ReductionsAreRight`: whenever `parse_advance` reduces, the symbols of the
  production's body are on the top of the stack, in order, so that its pops never find
  an empty stack and a semantic rule gets the symbols its production names; and the
  action of the item set below for the production's head is an item set, as
  `std::get<ItemSet*>` requires;
* `AcceptedIsATree`: what `parse` returns is a tree each of whose nodes is an instance
  of its production, whose root stands for the start symbol, and nothing else is on the
  stack, as `parse` asserts.

The argument has two parts. The first is about the tables. `worklist` is a recursive
function, of which TLA+ only says what it would be if it existed; that it does, and is the
least set that the loop can end with, is `LoopsExist` and `LoopsFindAll` of
`Induction`, for which the items have to be finitely many. The first sets are found in
passes that end because each changes something (`PassesExist`). The item sets are those
that `go_to` leads to from the root's (`Lr0Kernels`). The LR(1) items of an item
set are its LR(0) items with lookaheads (`Lr1ItemsAre`); that each of them has one needs
that something follows every symbol (`SomethingFollows`), and this is where
`GrammarAssumption` is used. So without a conflict each entry is the shift to the next item
set, or the reduction by a production whose item is complete there, or the acceptance,
and there is a shift for each symbol after a dot (`IsTable`).

The second is about the stack. That a reduction finds its body is no statement about
the top of the stack: what is below the symbols popped must lead on by the head, and what
is below that by the next head. `StackInv` says that each symbol on the stack leads from
the item set below it to the one above (`Stacked`), and that it is a token or an instance
of its production (`IsForest`). If an item with its dot behind n symbols is in the top
item set, the same item with the dot in front is in the item set n below, and the n
symbols above that are those of its body (`BodyOnStack`, by following the dot down with
`OneDown`); at the bottom only the root's production can be behind its first symbol
(`RootOnStack`). The rest of `IInv` says that the token at hand has types, that `scan`
returns to where it was called from, and that the buffer keeps its fields.

The assumptions: `QueryAssumption` (queries are strings), `LexerAssumption` (the lexer's
automaton is one, with finitely many states), `SchemaAssumption` (the automaton is one, and its rule for '\n'
comes first, as `add_rules` puts it), `RulesAssumption` (no rule is called
`$end`, none matches the empty text or just the start of the file: a header
`a*` would, and then a log that begins with '\n' is cut at the wrong place),
`InputAssumption` and `ReaderAssumption` (logs are made of characters, the static
buffer is not empty and its size is even, as `cStaticByteBuffSize` is: the code divides it
into halves), `PositionsAssumption` (positions are integers), `SizeAssumption`, `TokenAssumption` and
(of `Lalr1Parser`) `InputAssumption` (the buffer is even and at least 4, words, types
and schemas are sequences), `GrammarAssumption` (a production is added; a body has
tokens and symbols with productions; each symbol derives nothing or something that
begins with a token, as in the grammar of schemas: a production that could never
be completed would leave an item without lookaheads, and so without its shift),
`BoundsAssumption` (both bounds are naturals), `StaticSizeAssumption` (even, at least 4: below that the first
read is not considered safe) and `BoundAssumption` (types of the bounds).

Only model-checked: which variables an event of `ReaderParser` has
(`VariablesFound`: it has the longest match to follow through interrupted scans, as
`LineInv` does for '\n' only); where an event of `BufferParser` ends (the same
argument as in `ReaderEventProofs`, but at an array's base in place of the start of
the log); that every match of a query is found (`EveryMatchIsFound`: `Finds` is a
function of two arguments, which the prover does not support, and the proof is an
induction over how the lexer takes a log apart); of the LALR(1) parser, that it accepts and
rejects the right texts and shows the right lines, of which `ErrorLineShown` and
`RuleReadsItsText` need the argument about the buffer's halves of `ReaderParserProofs`
and the others a reference (the words of a text, the sentences of a grammar) that is
built from RECURSIVE operators, as are the modules of the automata: the prover can say
nothing about those. Liveness under fairness is beyond it, too.

## What is not modelled

Listed with reasons under `components` in `PROJECT.json`. In the modelled parts:
line numbers, timestamps, `scan_with_wildcard` (nothing calls it), the UTF-8 states
and the Unicode interval tree (nothing instantiates them), `PrefixTree::set`
(no caller), `serialize`, `m_multi_valued` (only `serialize` reads it), the
wording of messages; `Schema`'s list of variables; captures of a variable that
wraps in the ring buffer; a caller of `BufferParser` that appends to its array
instead of moving the partial event to the front; a caller's array of size 0 in
`ParserInputBuffer` (it is there in `BufferParser`).

## Plan

1. Proofs: where an event of `BufferParser` ends and `VariablesFound`, with the lemmas of
   `ReaderEventProofs`; that the leaves of the parse stack of `Lalr1Parser` are the
   words of the schema.
2. Captures of wrapped variables, by giving `LogParser` the registers of
   `RegisterLists`.
3. Timestamps of headers, on top of 2.
4. `Schema`'s list of variables and its priorities.
