--------------------------- MODULE SupportText ---------------------------
(***************************************************************************)
(* textsplit.py: a long answer is cut into parts that Telegram takes, at   *)
(* paragraphs, then lines, then words, and within a word only if it must.  *)
(* A text is a sequence of letters; "e" is one that counts twice.          *)
(***************************************************************************)
EXTENDS Integers, Sequences, SequencesExt

CONSTANTS TELEGRAM_LIMIT,  \* 4096 in the code
          Answers          \* the texts to be sent

Letters == {"a", "e", " ", "n"}     \* "n" is the line feed
Strings == Seq(Letters)
Blank(c) == c \in {" ", "n"}

ASSUME TextAssumption == TELEGRAM_LIMIT \in Nat /\ TELEGRAM_LIMIT > 1 /\ Answers \subseteq Strings

VARIABLE text  \* the text that is cut

utf16_len(t) == Len(t) + Cardinality({i \in DOMAIN t : t[i] = "e"})
CharLen(t) == Len(t)

LetterAt(t) == {i \in DOMAIN t : ~Blank(t[i])}
Strip(t) ==
  IF LetterAt(t) = {} THEN << >> ELSE SubSeq(t, Min(LetterAt(t)), Max(LetterAt(t)))

\* str.split: the letters from the left; one that completes a separator closes a part.
EndsWith(s, sep) == Len(s) >= Len(sep) /\ SubSeq(s, Len(s) - Len(sep) + 1, Len(s)) = sep
NextLetter(got, c, sep) ==
  LET more == Append(got.open, c)
  IN IF EndsWith(more, sep)
     THEN [closed |-> Append(got.closed, SubSeq(more, 1, Len(more) - Len(sep))), open |-> << >>]
     ELSE [closed |-> got.closed, open |-> more]
SplitAt(t, sep) ==
  LET after[k \in 0..Len(t)] ==
        IF k = 0 THEN [closed |-> << >>, open |-> << >>]
        ELSE NextLetter(after[k - 1], t[k], sep)
  IN Append(after[Len(t)].closed, after[Len(t)].open)

\* _hard_split: letter by letter.
HardLetter(got, c) ==
  IF utf16_len(Append(got.buffer, c)) > TELEGRAM_LIMIT
  THEN [chunks |-> Append(got.chunks, got.buffer), buffer |-> <<c>>]
  ELSE [chunks |-> got.chunks, buffer |-> Append(got.buffer, c)]
HardSplit(t) ==
  LET after[k \in 0..Len(t)] ==
        IF k = 0 THEN [chunks |-> << >>, buffer |-> << >>]
        ELSE HardLetter(after[k - 1], t[k])
      cut == after[Len(t)]
  IN IF cut.buffer = << >> THEN cut.chunks ELSE Append(cut.chunks, cut.buffer)

\* _pack: parts that fit are joined again; one that is too long is cut further.
FitsByChars(current, sep, part) ==
  CharLen(current) + CharLen(sep) + CharLen(part) <= TELEGRAM_LIMIT
Fits(current, sep, part) ==
  utf16_len(current) + utf16_len(sep) + utf16_len(part) <= TELEGRAM_LIMIT

NoChunk == <<"none">>
Flushed(got) == IF got.current = NoChunk THEN got.chunks ELSE Append(got.chunks, got.current)

\* part is the next one, and pieces what it is cut into if it must be.
NextPart(got, part, sep, pieces) ==
  IF utf16_len(part) > TELEGRAM_LIMIT
  THEN [chunks |-> Flushed(got) \o pieces, current |-> NoChunk]
  ELSE IF got.current = NoChunk THEN [chunks |-> got.chunks, current |-> part]
  ELSE IF Fits(got.current, sep, part)
  THEN [chunks |-> got.chunks, current |-> got.current \o sep \o part]
  ELSE [chunks |-> Append(got.chunks, got.current), current |-> part]

StripAll(chunks) ==
  FlattenSeq([n \in DOMAIN chunks |-> LET s == Strip(chunks[n])
                                      IN IF s = << >> THEN << >> ELSE <<s>>])

Pack(parts, sep, pieces) ==
  LET after[k \in 0..Len(parts)] ==
        IF k = 0 THEN [chunks |-> << >>, current |-> NoChunk]
        ELSE NextPart(after[k - 1], parts[k], sep, pieces[k])
  IN StripAll(Flushed(after[Len(parts)]))

Separators == <<<<"n", "n">>, <<"n">>, <<" ">>>>
Splits(t) == {i \in DOMAIN Separators : Len(SplitAt(t, Separators[i])) > 1}
Chunks(t, cut) ==  \* cut says what shorter texts are cut into
  IF t = << >> THEN << >>
  ELSE IF utf16_len(t) <= TELEGRAM_LIMIT THEN <<t>>
  ELSE IF Splits(t) # {}
  THEN LET sep == Separators[Min(Splits(t))]
           parts == SplitAt(t, sep)
       IN Pack(parts, sep, [k \in DOMAIN parts |-> cut[parts[k]]])
  ELSE HardSplit(t)

split_text[t \in Strings] == Chunks(Strip(t), split_text)

TextSpec == text \in Answers /\ [][FALSE]_text  \* a text is cut in one call

-----------------------------------------------------------------------------
Said(t) == FlattenSeq([i \in DOMAIN t |-> IF Blank(t[i]) THEN << >> ELSE <<t[i]>>])
SaidBy(chunks) == FlattenSeq([n \in DOMAIN chunks |-> Said(chunks[n])])

(* Whatever a client is sent, Telegram takes: no part is blank or wider than it counts, and
   together the parts say what was written but for blanks, in order. *)
SplitIsSendable ==
  LET chunks == split_text[text]
  IN /\ \A n \in DOMAIN chunks :
          utf16_len(chunks[n]) <= TELEGRAM_LIMIT /\ Said(chunks[n]) # << >>
     /\ SaidBy(chunks) = Said(text)
=============================================================================
