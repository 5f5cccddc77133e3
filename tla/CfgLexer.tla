------------------------------ MODULE CfgLexer ------------------------------
(***************************************************************************)
(* The cfgscript lexer (lexer.hpp, lexer.cpp), and the serializer's        *)
(* escape_string that it has to read back (serializer.cpp).                *)
(*                                                                         *)
(* A text is a sequence of ASCII codes, positions count from 1.  A token   *)
(* is its kind, its payload, and where it starts and ends; a float's       *)
(* payload is its lexeme, as std::stod is not modelled (nor the range      *)
(* error it may throw).  Line and column only decorate messages.           *)
(***************************************************************************)
EXTENDS Utf8

CONSTANT kIntBits    \* 64 in the code

ASSUME CfgLexerAssumption == kIntBits \in Nat \ {0}

Newline   == 10
Quote     == 34
Hash      == 35
Star      == 42
Dot       == 46
Slash     == 47
BackSlash == 92
LowerU    == 117
LowerX    == 120
UpperX    == 88
LBrace    == 123
RBrace    == 125

Digits      == 48 .. 57
HexDigits   == Digits \cup 97 .. 102 \cup 65 .. 70
IdentStart  == 65 .. 90 \cup 97 .. 122 \cup {95}
IdentPart   == IdentStart \cup Digits
ExponentE   == {101, 69}
PlusMinus   == {43, 45}
Space       == {32, 9, 13, Newline, 12, 11}

hex_value(c) == CASE c \in Digits -> c - 48
                  [] c \in 97 .. 102 -> c - 87
                  [] c \in 65 .. 70 -> c - 55

(* true, false, null, include.                                             *)
Keywords == { << 116, 114, 117, 101 >>, << 102, 97, 108, 115, 101 >>,
              << 110, 117, 108, 108 >>, << 105, 110, 99, 108, 117, 100, 101 >> }

(* { } [ ] ( ) ; , . ? : + - * / % ^ ~ = ! < > & |                         *)
Punctuators1 == {123, 125, 91, 93, 40, 41, 59, 44, 46, 63, 58, 43, 45, 42, 47,
                 37, 94, 126, 61, 33, 60, 62, 38, 124}

(* == != << <= >> >= && ||                                                 *)
Punctuators2 == { << 61, 61 >>, << 33, 61 >>, << 60, 60 >>, << 60, 61 >>,
                  << 62, 62 >>, << 62, 61 >>, << 38, 38 >>, << 124, 124 >> }

peek(s, i) == IF i <= Len(s) THEN s[i] ELSE 0

(* The first position from i on whose byte is not in the set.              *)
SpanEnd(s, i, set) ==
  CHOOSE n \in i .. (Len(s) + 1) :
    (n = Len(s) + 1 \/ s[n] \notin set) /\ \A k \in i .. (n - 1) : s[k] \in set

(* The position behind the next newline-free stretch.                      *)
LineEnd(s, i) ==
  CHOOSE n \in i .. (Len(s) + 1) :
    (n = Len(s) + 1 \/ s[n] = Newline) /\ \A k \in i .. (n - 1) : s[k] # Newline

At(p, e) == [pos |-> p, error |-> e]

(* Where a block comment whose body starts at i ends, or 0.                *)
CommentEnd(s, i) ==
  LET closes == {k \in i .. Len(s) : s[k] = Star /\ peek(s, k + 1) = Slash}
  IN  IF closes = {} THEN 0 ELSE Min(closes) + 2

(* Mutation of TriviaEnd: the star that opens a comment may close it.      *)
TriviaEnd_eager(s, i) ==
  IF peek(s, i) \in Space THEN i + 1
  ELSE IF peek(s, i) = Hash \/ (peek(s, i) = Slash /\ peek(s, i + 1) = Slash)
    THEN LineEnd(s, i)
  ELSE IF peek(s, i) = Slash /\ peek(s, i + 1) = Star THEN CommentEnd(s, i + 1)
  ELSE i

(* Where the space or the comment that starts at i ends: at i itself when  *)
(* there is none, 0 when a block comment is not closed.                    *)
TriviaEnd(s, i) ==
  IF peek(s, i) \in Space THEN i + 1
  ELSE IF peek(s, i) = Hash \/ (peek(s, i) = Slash /\ peek(s, i + 1) = Slash)
    THEN LineEnd(s, i)
  ELSE IF peek(s, i) = Slash /\ peek(s, i + 1) = Star THEN CommentEnd(s, i + 2)
  ELSE i

RECURSIVE skip_trivia(_, _)
skip_trivia(s, i) ==
  LET Past(end) == IF end = i THEN At(i, "none")
                   ELSE IF end = 0 THEN At(i, "BadType")
                   ELSE skip_trivia(s, end)
  IN  Past(TriviaEnd(s, i))

Token(kind_, value_, start, end) ==
  [kind |-> kind_, value |-> value_, start |-> start, end |-> end, error |-> "none"]

LexError(code, at) ==
  [kind |-> "error", value |-> << >>, start |-> at, end |-> at, error |-> code]

lex_ident_or_keyword(s, i) ==
  LET end  == SpanEnd(s, i, IdentPart)
      word == SubSeq(s, i, end - 1)
  IN  Token(IF word \in Keywords THEN "keyword" ELSE "kIdent", word, i, end)

IntOf(n) == LET u == n % 2 ^ kIntBits IN
            IF u >= 2 ^ (kIntBits - 1) THEN u - 2 ^ kIntBits ELSE u

Number(s, from, to, base) ==
  FoldLeft(LAMBDA acc, c : acc * base + hex_value(c), 0, SubSeq(s, from, to - 1))

(* A hex literal wraps; a decimal that does not fit is an error.           *)
lex_number(s, i) ==
  LET hexEnd  == SpanEnd(s, i + 2, HexDigits)
      whole   == SpanEnd(s, i, Digits)
      decimal == IF peek(s, whole) = Dot /\ peek(s, whole + 1) \in Digits
                   THEN SpanEnd(s, whole + 1, Digits) ELSE whole
      look    == IF peek(s, decimal + 1) \in PlusMinus THEN 2 ELSE 1
      end     == IF peek(s, decimal) \in ExponentE
                    /\ peek(s, decimal + look) \in Digits
                   THEN SpanEnd(s, decimal + look, Digits) ELSE decimal
  IN  IF s[i] = 48 /\ peek(s, i + 1) \in {LowerX, UpperX}
        THEN IF hexEnd = i + 2 THEN LexError("BadType", i)
             ELSE Token("kInt", IntOf(Number(s, i + 2, hexEnd, 16)), i, hexEnd)
      ELSE IF end > whole THEN Token("kFloat", SubSeq(s, i, end - 1), i, end)
      ELSE IF Number(s, i, end, 10) >= 2 ^ (kIntBits - 1) THEN LexError("BadLength", i)
      ELSE Token("kInt", Number(s, i, end, 10), i, end)

(* append_utf8; << >> when it throws.                                      *)
append_utf8(cp) ==
  LET Cont(k) == 128 + ((cp \div 64 ^ k) % 64) IN
  IF cp > kMaxCodepoint \/ cp \in Surrogates THEN << >>
  ELSE IF cp <= 127 THEN << cp >>
  ELSE IF cp <= 2047 THEN << 192 + (cp \div 64), Cont(0) >>
  ELSE IF cp <= 65535 THEN << 224 + (cp \div 4096), Cont(1), Cont(0) >>
  ELSE << 240 + (cp \div 262144), Cont(2), Cont(1), Cont(0) >>

(* n t r 0 \ " and what each stands for.                                   *)
SimpleEscapes == {110, 116, 114, 48, 92, 34}
SimpleValue(e) == CASE e = 110 -> 10 [] e = 116 -> 9 [] e = 114 -> 13
                    [] e = 48 -> 0 [] e = 92 -> 92 [] e = 34 -> 34

(* One escape, its backslash at i: the bytes it stands for and where it    *)
(* ends; << >> for a malformed one.                                        *)
Escape(s, i) ==
  LET e    == peek(s, i + 1)
      dend == SpanEnd(s, i + 3, HexDigits)
      cp   == append_utf8(Number(s, i + 3, dend, 16))
      Is(bytes, end) == [bytes |-> bytes, end |-> end]
      bad  == Is(<< >>, i)
  IN  IF i + 1 > Len(s) THEN bad
      ELSE IF e \in SimpleEscapes THEN Is(<< SimpleValue(e) >>, i + 2)
      ELSE IF e = LowerX
        THEN IF {peek(s, i + 2), peek(s, i + 3)} \subseteq HexDigits
               THEN Is(<< Number(s, i + 2, i + 4, 16) >>, i + 4) ELSE bad
      ELSE IF e = LowerU
        THEN IF peek(s, i + 2) # LBrace \/ dend - (i + 3) \notin 1 .. 6
                \/ peek(s, dend) # RBrace
               THEN bad ELSE Is(cp, dend + 1)
      ELSE bad

(* The next item of a string: a plain byte or an escape.                   *)
StringItem(s, i) == IF s[i] = BackSlash THEN Escape(s, i)
                    ELSE [bytes |-> << s[i] >>, end |-> i + 1]

(* The loop of lex_string, at i with `out' decoded.                        *)
RECURSIVE StringFrom(_, _, _, _)
StringFrom(s, open, i, out) ==
  LET Add(item) == IF item.bytes = << >> THEN LexError("BadType", i)
                   ELSE StringFrom(s, open, item.end, out \o item.bytes)
  IN  IF i > Len(s) THEN LexError("BadType", open)
      ELSE IF s[i] = Quote THEN Token("kString", out, open, i + 1)
      ELSE IF s[i] = Newline THEN LexError("BadType", i)
      ELSE Add(StringItem(s, i))

lex_string(s, i) == StringFrom(s, i, i + 1, << >>)

(* next_token, behind the trivia.                                          *)
TokenAt(s, at) ==
  LET p == at.pos
      c == peek(s, p)
  IN  IF at.error # "none" THEN LexError(at.error, p)
      ELSE IF p > Len(s) THEN Token("kEof", << >>, p, p)
      ELSE IF c \in IdentStart THEN lex_ident_or_keyword(s, p)
      ELSE IF c \in Digits THEN lex_number(s, p)
      ELSE IF c = Quote THEN lex_string(s, p)
      ELSE IF << c, peek(s, p + 1) >> \in Punctuators2
        THEN Token("punct", SubSeq(s, p, p + 1), p, p + 2)
      ELSE IF c \in Punctuators1 THEN Token("punct", << c >>, p, p + 1)
      ELSE LexError("BadType", p)

next_token(s, i) == TokenAt(s, skip_trivia(s, i))

(* The tokens of a text, the last one kEof or the error.                   *)
RECURSIVE Tokens(_, _)
Tokens(s, i) ==
  LET With(t) == IF t.kind \in {"kEof", "error"} THEN << t >>
                 ELSE << t >> \o Tokens(s, t.end)
  IN  With(next_token(s, i))

(* escape_string; \x and two lower-case hex digits for the rest.           *)
HexChar(n) == IF n < 10 THEN 48 + n ELSE 87 + n

EscapeByte(c) ==
  CASE c = 92 -> << 92, 92 >>  [] c = 34 -> << 92, 34 >>
    [] c = 10 -> << 92, 110 >> [] c = 13 -> << 92, 114 >>
    [] c = 9  -> << 92, 116 >>
    [] c \notin {92, 34, 10, 13, 9} /\ (c < 32 \/ c >= 127) ->
         << 92, LowerX, HexChar(c \div 16), HexChar(c % 16) >>
    [] OTHER -> << c >>

escape_string(s) == FlattenSeq([i \in DOMAIN s |-> EscapeByte(s[i])])

-----------------------------------------------------------------------------
(* The token language, as a reader of the grammar would write it down.     *)
All(w, set) == w # << >> /\ \A i \in DOMAIN w : w[i] \in set

IsHexLiteral(w) ==
  /\ Len(w) > 2 /\ w[1] = 48 /\ w[2] \in {LowerX, UpperX}
  /\ All(SubSeq(w, 3, Len(w)), HexDigits)

IsFraction(w) == \E k \in 2 .. (Len(w) - 1) :
  /\ w[k] = Dot
  /\ All(SubSeq(w, 1, k - 1), Digits) /\ All(SubSeq(w, k + 1, Len(w)), Digits)

IsScientific(w) == \E k \in 2 .. (Len(w) - 1) :
  LET mantissa == SubSeq(w, 1, k - 1)
      exponent == SubSeq(w, k + 1, Len(w))
  IN  /\ w[k] \in ExponentE
      /\ All(mantissa, Digits) \/ IsFraction(mantissa)
      /\ \/ All(exponent, Digits)
         \/ exponent[1] \in PlusMinus /\ All(Tail(exponent), Digits)

(* A plain byte of a string, or an escape.                                 *)
IsStringItem(w) ==
  \/ Len(w) = 1 /\ w[1] \notin {Quote, BackSlash, Newline}
  \/ Len(w) = 2 /\ w[1] = BackSlash /\ w[2] \in SimpleEscapes
  \/ Len(w) = 4 /\ SubSeq(w, 1, 2) = << BackSlash, LowerX >>
                /\ All(SubSeq(w, 3, 4), HexDigits)
  \/ /\ Len(w) \in 5 .. 10
     /\ SubSeq(w, 1, 3) = << BackSlash, LowerU, LBrace >> /\ Last(w) = RBrace
     /\ All(SubSeq(w, 4, Len(w) - 1), HexDigits)
     /\ encode(Number(w, 4, Len(w), 16)) # << >>

RECURSIVE IsStringBody(_)
IsStringBody(w) ==
  \/ w = << >>
  \/ \E k \in 1 .. Len(w) : /\ IsStringItem(SubSeq(w, 1, k))
                            /\ IsStringBody(SubSeq(w, k + 1, Len(w)))

IsLexeme(w, kind) ==
  CASE kind = "name"    -> All(w, IdentPart) /\ w[1] \in IdentStart
    [] kind = "kInt"    -> All(w, Digits) \/ IsHexLiteral(w)
    [] kind = "kFloat"  -> IsFraction(w) \/ IsScientific(w)
    [] kind = "kString" -> /\ Len(w) >= 2 /\ w[1] = Quote /\ Last(w) = Quote
                           /\ IsStringBody(SubSeq(w, 2, Len(w) - 1))
    [] kind = "punct"   -> \/ w \in Punctuators2
                           \/ Len(w) = 1 /\ w[1] \in Punctuators1

Lexemes(w) ==
  {kind \in {"name", "kInt", "kFloat", "kString", "punct"} : IsLexeme(w, kind)}

KindOf(t) == IF t.kind \in {"keyword", "kIdent"} THEN "name" ELSE t.kind

(* What may stand between tokens; `last' when nothing follows.  A line     *)
(* comment runs up to a newline or to the end of the text.                 *)
RECURSIVE IsTrivia(_, _)
IsTrivia(w, last) ==
  \/ w = << >>
  \/ w[1] \in Space /\ IsTrivia(Tail(w), last)
  \/ /\ w[1] = Hash \/ IsPrefix(<< Slash, Slash >>, w)
     /\ \E k \in 1 .. Len(w) :
          /\ \A i \in 1 .. k : w[i] # Newline
          /\ IF k = Len(w) THEN last ELSE w[k + 1] = Newline
          /\ IsTrivia(SubSeq(w, k + 1, Len(w)), last)
  \/ /\ IsPrefix(<< Slash, Star >>, w)
     /\ \E k \in 4 .. Len(w) :
          /\ SubSeq(w, k - 1, k) = << Star, Slash >>
          /\ \A i \in 4 .. (k - 1) : SubSeq(w, i - 1, i) # << Star, Slash >>
          /\ IsTrivia(SubSeq(w, k + 1, Len(w)), last)

(* Why a text may be refused: it starts with no lexeme, with a comment     *)
(* that never ends, with 0x and no digit, or with a decimal out of range.  *)
Refusable(w) ==
  LET lexemes == {k \in 1 .. Len(w) : Lexemes(SubSeq(w, 1, k)) # {}}
      longest == SubSeq(w, 1, Max(lexemes))
  IN  \/ lexemes = {}
      \/ /\ IsPrefix(<< Slash, Star >>, w)
         /\ \A k \in 4 .. Len(w) : SubSeq(w, k - 1, k) # << Star, Slash >>
      \/ longest = << 48 >> /\ peek(w, 2) \in {LowerX, UpperX}
      \/ All(longest, Digits) /\ Number(longest, 1, Len(longest) + 1, 10)
                                 >= 2 ^ (kIntBits - 1)

(* The text with one space in place of every gap between its tokens.       *)
Respaced(s, ts) ==
  FlattenSeq([k \in 1 .. (Len(ts) - 1) |->
    SubSeq(s, ts[k].start, ts[k].end - 1) \o << 32 >>])

(* What a parser sees of the tokens.                                       *)
Seen(ts) == [k \in DOMAIN ts |-> << ts[k].kind, ts[k].value >>]

TokensExact(s, ts) ==
  LET last    == ts[Len(ts)]
      From(k) == IF k = 1 THEN 1 ELSE ts[k - 1].end
  IN  /\ \A k \in DOMAIN ts : ts[k].kind # "error" =>
           IsTrivia(SubSeq(s, From(k), ts[k].start - 1), k = Len(ts))
      /\ \A k \in 1 .. (Len(ts) - 1) : \A e \in (ts[k].end - 1) .. Len(s) :
           LET lexemes == Lexemes(SubSeq(s, ts[k].start, e))
           IN  IF e = ts[k].end - 1 THEN KindOf(ts[k]) \in lexemes ELSE lexemes = {}
      /\ last.kind = "error" =>
           \E p \in From(Len(ts)) .. last.start :
             /\ IsTrivia(SubSeq(s, From(Len(ts)), p - 1), FALSE)
             /\ Refusable(SubSeq(s, p, Len(s)))
      /\ last.kind = "kEof" => Seen(Tokens(Respaced(s, ts), 1)) = Seen(ts)

(***************************************************************************)
(* Whatever the text, the tokens and the trivia between them cover it, in  *)
(* order; each token is the longest lexeme that starts where it starts; an *)
(* error is thrown only where the language has no token; and one space in  *)
(* place of each gap changes no token ("1e" is a number and a name, not a  *)
(* malformed number; a star cannot both open and close a comment).         *)
(***************************************************************************)
LexExact(s) == TokensExact(s, Tokens(s, 1))

(***************************************************************************)
(* What escape_string makes of any bytes is printable, stays within one    *)
(* pair of quotes, and reads back as those bytes; and \u{...} stands for   *)
(* the bytes that the UTF-8 encoder gives.                                 *)
(***************************************************************************)
StringsExact(bytes) ==
  LET text_ == << Quote >> \o escape_string(bytes) \o << Quote >>
      t     == lex_string(text_ \o bytes, 1)
  IN  /\ \A i \in DOMAIN text_ : text_[i] \in 32 .. 126
      /\ t = Token("kString", bytes, 1, Len(text_) + 1)

UnicodeEscapeExact(cp) ==
  LET hex == [i \in 1 .. 6 |-> HexChar((cp \div 16 ^ (6 - i)) % 16)]
      t   == lex_string(<< Quote, BackSlash, LowerU, LBrace >> \o hex
                          \o << RBrace, Quote >>, 1)
  IN  IF encode(cp) = << >> THEN t.kind = "error" ELSE t.value = encode(cp)
=============================================================================
