----------------------------- MODULE SplitArgs -----------------------------
(***************************************************************************)
(* util::SplitArgString, which splits a command into its arguments, as a   *)
(* loop over the two positions of the code.  A text is a sequence of       *)
(* characters; positions are counted from 1 and npos is 0, so that npos    *)
(* + 1, which wraps to the first position in the code, does so here.       *)
(***************************************************************************)
EXTENDS Integers, SequencesExt

CONSTANTS Letters,  \* characters that mean nothing
          MaxText,  \* bounds the length of a text
          MaxWords  \* how many words fit into the memory

ASSUME SplitAssumption == MaxText \in Nat /\ MaxWords \in Nat /\ MaxText <= MaxWords

VARIABLES text, pos1, pos2, words

splitVars == <<text, pos1, pos2, words>>

Blank  == " "
Quotes == {"'", "\""}
npos   == 0

Texts == BoundedSeq(Letters \union Quotes \union {Blank}, MaxText)

(* str.find(c, from) and str.substr(from, to - from).                      *)
Find(str, c, from) == LET at == {i \in from..Len(str) : str[i] = c}
                      IN  IF at = {} THEN npos ELSE Min(at)
Slice(str, from, to) == SubSeq(str, from, IF to = npos THEN Len(str) ELSE to - 1)

TrimString(str, c) == LET kept == {i \in DOMAIN str : str[i] # c}
                      IN  IF kept = {} THEN <<>> ELSE SubSeq(str, Min(kept), Max(kept))

-----------------------------------------------------------------------------
SplitInit == text = <<>> /\ pos1 = 1 /\ pos2 = npos /\ words = <<>>

(* A text without delimiter goes straight to the end.                      *)
SplitBegins(str) == /\ text' = TrimString(str, Blank)
                    /\ pos1' = 1
                    /\ pos2' = Find(text', Blank, 1)
                    /\ words' = <<>>

(* Mutants: a quote ends the word only when it is the other one; the       *)
(* character after a word is not passed over.                              *)
AnyQuote(str, from) == LET at == {i \in from + 1..Len(str) : str[i] \in Quotes}
                       IN  IF at = {} THEN npos ELSE Min(at)
StaysAt(end) == Max({end, 1})

ClosingQuote(str, from) == Find(str, str[from], from + 1)
After(end) == end + 1

(* One turn of the loop.  pos1 wraps when the closing quote is missing, and*)
(* the words are found again.                                              *)
SplitStep ==
    /\ pos2 # npos
    /\ Len(words) < MaxWords
    /\ LET quoted == pos1 # pos2 /\ text[pos1] \in Quotes
           end    == IF quoted THEN ClosingQuote(text, pos1) ELSE pos2
           word   == Slice(text, IF quoted THEN pos1 + 1 ELSE pos1, end)
       IN /\ words' = IF pos1 = pos2 THEN words ELSE Append(words, word)
          /\ pos1' = After(end)
          /\ pos2' = Find(text, Blank, pos1')
    /\ UNCHANGED text

(* The loop is over, and what is left is the last word.                    *)
Ended == pos2 = npos
Split == IF pos1 <= Len(text) THEN Append(words, Slice(text, pos1, npos)) ELSE words

(* The words do not fit into the memory.                                   *)
Exhausted == pos2 # npos /\ Len(words) = MaxWords

-----------------------------------------------------------------------------
(* The arguments of a text, read character by character: mode is Blank     *)
(* between two words, a quote inside of a quoted word and "word" inside of *)
(* another one.  A quote that begins a word counts when there is a blank   *)
(* after it, closed or not.                                                *)
At(mode, word, done) == [mode |-> mode, word |-> word, done |-> done]

Reading == At(Blank, <<>>, <<>>)

Closing(mode) == IF mode = "word" THEN Blank ELSE mode

Closes(r) == At(Blank, <<>>, Append(r.done, r.word))

ReadChar(str, r, i) ==
    LET c == str[i] IN
    CASE r.mode = Blank /\ c = Blank -> r
      [] r.mode = Blank /\ c \in Quotes /\ Find(str, Blank, i) # npos ->
            At(c, r.word, r.done)
      [] r.mode # Blank /\ c = Closing(r.mode) -> Closes(r)
      [] OTHER -> At(IF r.mode = Blank THEN "word" ELSE r.mode, Append(r.word, c), r.done)

(* What is known after the first i characters.                             *)
Reader(str) == LET read[i \in 0..Len(str)] ==
                     IF i = 0 THEN Reading ELSE ReadChar(str, read[i - 1], i)
               IN  read

ReadAll(str) == Reader(str)[Len(str)]

Unclosed(str)  == ReadAll(str).mode \in Quotes
Arguments(str) == LET r == ReadAll(str)
                  IN  IF r.mode = "word" THEN Closes(r).done ELSE r.done
=============================================================================
