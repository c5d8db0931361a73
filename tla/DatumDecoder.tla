---------------------------- MODULE DatumDecoder -----------------------------
(***************************************************************************)
(* PutDecodedDatumInto of learneth/src/main.cpp, which decodes a line of   *)
(* test-vector data -- hex digits, quoted text, words, each perhaps with a *)
(* repeat count -- into a queue and moves it in chunks of random length to *)
(* a target.                                                               *)
(*                                                                         *)
(* Offsets matter, so the line is a sequence of characters, of an alphabet *)
(* with a few representatives of each kind; "word" stands for the six      *)
(* characters word32.  The inputs are the renderings of all short lists of *)
(* data, and what they mean is defined from the list, not from the line.   *)
(* A byte is the tuple of the characters it comes from; the words at the   *)
(* end of a line are one item.                                             *)
(***************************************************************************)
EXTENDS Integers, Sequences, SequencesExt

CONSTANTS
    Data,       \* the data that lines are made of: [kind, text, count]
    MaxData,    \* bound: data in a line
    Block       \* 4096 in the source: size of a chunk, and what may stay behind

ASSUME DecoderAssumption == MaxData \in Nat /\ Block \in Nat \ {0}

VARIABLES
    list, gap, trail,   \* what the line was made from
    s1,                 \* the rest of the line
    s2, repeat,         \* a decoded datum, and how often it is still to be put
    q,                  \* the ByteQueue
    target,             \* what the target has received
    pc                  \* "loop", "datum", "put", "transfer", "end", "done" or "thrown"

input == <<list, gap, trail>>
decoderVars == <<input, s1, s2, repeat, q, target, pc>>

Decimal == {"0", "2"}
Hex == Decimal \cup {"a"}

\* Two digits are a byte; a last single one is dropped.
Bytes(digits) == [i \in 1..Len(digits) \div 2 |-> SubSeq(digits, 2 * i - 1, 2 * i)]
Characters(text) == [i \in DOMAIN text |-> <<text[i]>>]

-----------------------------------------------------------------------------
(***************************************************************************)
(* Lines and their meaning.                                                *)
(***************************************************************************)
Spaces(n) == [i \in 1..n |-> " "]

Render(d) ==
    (CASE d.count = 0 -> <<"r", "0">> \o Spaces(gap)
       [] d.count = 1 -> <<>>
       [] d.count = 2 -> <<"r", "2">> \o Spaces(gap))
    \o (CASE d.kind = "hex"    -> d.text
          [] d.kind = "0x"     -> <<"0", "x">> \o d.text
          [] d.kind = "quoted" -> <<"'">> \o d.text \o <<"'">>
          [] d.kind = "open"   -> <<"'">> \o d.text
          [] d.kind = "word"   -> <<"word", " ">> \o d.text)

\* The data with gap spaces between them and trail spaces at the end.
Line == FlattenSeq([i \in DOMAIN list |->
            Render(list[i]) \o Spaces(IF i = Len(list) THEN trail ELSE gap)])

Meaning(d) ==
    LET once == CASE d.kind = "quoted" -> Characters(d.text)
                  [] d.kind = "word"   -> <<d.text>>
                  [] OTHER             -> Bytes(d.text)
    IN FlattenSeq([i \in 1..d.count |-> once])

Expected == FlattenSeq([i \in DOMAIN list |-> Meaning(list[i])])

\* What can be expected to be understood: whole bytes, closed quotes, one
\* space after a repeat count, and words neither repeated nor followed.
WellFormed ==
    \A i \in DOMAIN list :
        /\ list[i].kind \in {"hex", "0x"} => Len(list[i].text) % 2 = 0
        /\ list[i].kind # "open"
        /\ list[i].count # 1 => gap = 1 /\ list[i].kind # "word"

\* Data behind words would be read as words.
DecoderInit ==
    /\ list \in SeqOf(Data, MaxData)
    /\ \A i \in DOMAIN list : list[i].kind = "word" => i = Len(list)
    /\ gap \in {1, 2} /\ trail \in {0, 1}
    /\ s1 = Line
    /\ s2 = <<>> /\ repeat = 1
    /\ q = <<>> /\ target = <<>>
    /\ pc = "loop"

-----------------------------------------------------------------------------
(***************************************************************************)
(* Library functions.                                                      *)
(***************************************************************************)

\* s.find(c) + 1: the position of the first c, 0 for npos.
Find(s, c) == SelectInSeq(s, LAMBDA x : x = c)

\* s.substr(n)
From(s, n) == SubSeq(s, n + 1, Len(s))

\* HexDecoder passes over everything that is not a digit.
HexDecode(s) == Bytes(SelectSeq(s, LAMBDA c : c \in Hex))

\* find_first_not_of(" ") and erase: spaces alone are not erased.
SkipSpaces(s) ==
    LET first == SelectInSeq(s, LAMBDA c : c # " ")
    IN IF first = 0 THEN s ELSE From(s, first - 1)

\* atoi passes over spaces, too, and ends at the first other character.  No line
\* here has a sign.
atoi(s) ==
    LET t == SkipSpaces(s)
        stop == SelectInSeq(t, LAMBDA c : c \notin Decimal)
        digits == IF stop = 0 THEN t ELSE SubSeq(t, 1, stop - 1)
    IN FoldLeft(LAMBDA n, c : 10 * n + (IF c = "2" THEN 2 ELSE 0), 0, digits)

-----------------------------------------------------------------------------
(***************************************************************************)
(* PutDecodedDatumInto                                                     *)
(***************************************************************************)

StartsWith(c) == s1 # <<>> /\ s1[1] = c

\* while (!s1.empty())
TestEmpty ==
    /\ pc = "loop" /\ s1 = <<>>
    /\ pc' = "end"
    /\ UNCHANGED <<input, s1, s2, repeat, q, target>>

\* Spaces and a repeat count are taken off.  Without a space behind the count
\* nothing follows it; of two spaces only the first is taken off.
Prefix ==
    /\ pc = "loop" /\ s1 # <<>>
    /\ \E t \in {SkipSpaces(s1)} :
          IF t[1] = "r"
          THEN /\ repeat' = atoi(Tail(t))
               /\ s1' = From(t, 1 + Find(Tail(t), " "))
          ELSE /\ repeat' = 1
               /\ s1' = t
    /\ pc' = "datum"
    /\ UNCHANGED <<input, s2, q, target>>

\* Words extend to the end of the line; a repeat count is forgotten.
Word ==
    /\ pc = "datum" /\ StartsWith("word")
    /\ q' = Append(q, SelectSeq(Tail(s1), LAMBDA c : c # " "))
    /\ pc' = "end"
    /\ UNCHANGED <<input, s1, s2, repeat, target>>

\* Mutant: the closing quote stays in the line.
MutantKeepQuote ==
    /\ pc = "datum" /\ StartsWith("'")
    /\ LET close == Find(Tail(s1), "'")
       IN \/ /\ close # 0
             /\ s2' = Characters(SubSeq(s1, 2, close))
             /\ s1' = From(s1, close)
             /\ pc' = "put"
          \/ /\ close = 0
             /\ pc' = "thrown"
             /\ UNCHANGED <<s1, s2>>
    /\ UNCHANGED <<input, repeat, q, target>>

\* Quoted text; without a second quote the next substr throws.
Quoted ==
    /\ pc = "datum" /\ StartsWith("'")
    /\ LET close == Find(Tail(s1), "'")
       IN \/ /\ close # 0
             /\ s2' = Characters(SubSeq(s1, 2, close))
             /\ s1' = From(s1, close + 1)
             /\ pc' = "put"
          \/ /\ close = 0
             /\ pc' = "thrown"
             /\ UNCHANGED <<s1, s2>>
    /\ UNCHANGED <<input, repeat, q, target>>

\* s1.substr(pos, n - 1), where n = 0 is npos and what there is is enough.
Substr(pos, n) ==
    IF n = 0 \/ pos + n - 1 > Len(s1) THEN From(s1, pos) ELSE SubSeq(s1, pos + 1, pos + n - 1)

\* Mutant: the last datum of the line is not removed.
MutantKeepDatum(n) == IF n = 0 THEN s1 ELSE From(s1, n - 1)

\* s1.substr(STDMIN(n, s1.length()))
Rest(n) == IF n = 0 THEN <<>> ELSE From(s1, n - 1)

\* Mutant: n is taken from the line without 0x, to which it is applied.
MutantCutShort(n) == Substr(2, IF n = 0 THEN 0 ELSE n - 3)

\* s1.substr(2, n), where n counts from the 0: the piece extends over the
\* space and one character of the next datum.
After0x(n) == Substr(2, n)

\* Hex digits, up to the next space or the end of the line.
HexDigits ==
    /\ pc = "datum" /\ ~StartsWith("word") /\ ~StartsWith("'")
    /\ LET n == Find(s1, " ")
       IN /\ s2' = HexDecode(IF IsPrefix(<<"0", "x">>, s1) THEN After0x(n) ELSE Substr(0, n))
          /\ s1' = Rest(n)
    /\ pc' = "put"
    /\ UNCHANGED <<input, repeat, q, target>>

\* while (repeat--)
Put ==
    /\ pc = "put"
    /\ repeat' = repeat - 1
    /\ IF repeat = 0 THEN pc' = "loop" /\ UNCHANGED q
                     ELSE pc' = "transfer" /\ q' = q \o s2
    /\ UNCHANGED <<input, s1, s2, target>>

\* RandomizedTransfer leaves up to limit bytes behind.
Chunk(limit) ==
    /\ Len(q) > limit
    /\ \E n \in 1..Block :
          /\ n <= Len(q)
          /\ target' = target \o SubSeq(q, 1, n)
          /\ q' = From(q, n)
    /\ UNCHANGED <<input, s1, s2, repeat, pc>>

Transferred(limit, next) ==
    /\ Len(q) <= limit
    /\ pc' = next
    /\ UNCHANGED <<input, s1, s2, repeat, q, target>>

Transfer == pc = "transfer" /\ (Chunk(Block) \/ Transferred(Block, "put"))
Finish == pc = "end" /\ (Chunk(0) \/ Transferred(0, "done"))

DecoderNext == TestEmpty \/ Prefix \/ Word \/ Quoted \/ HexDigits \/ Put \/ Transfer \/ Finish

\* One thread that waits for nothing.
DecoderSpec == DecoderInit /\ [][DecoderNext]_decoderVars /\ WF_decoderVars(DecoderNext)
-----------------------------------------------------------------------------
\* Well-formed lines are decoded to their meaning: at any time what has left
\* the queue and what is in it are a beginning of that, in order, and at the
\* end all of it has been transferred.  In particular what 0x reads of the
\* next datum does no harm.
Decoded ==
    WellFormed =>
        /\ IsPrefix(target \o q, Expected)
        /\ pc = "done" => target = Expected
        /\ pc # "thrown"

\* Decoding gives up only where a quote is not closed: no sequence of data and
\* repeat counts, well-formed or not, leaves the rest of the line such that a
\* closing quote is taken for an opening one, or text for a quote.
ThrowsOnlyIfUnclosed ==
    pc = "thrown" => \E i \in DOMAIN list : list[i].kind = "open"

\* A line of these data that does not end in a space is decoded in finite time,
\* well-formed or not.  (One that does is not: spaces alone are neither erased nor
\* data.  Negative repeat counts, with which `while (repeat--)' would go on until
\* the count has wrapped around, are not among the data.)
Terminates == trail = 0 ~> pc \in {"done", "thrown"}
=============================================================================
