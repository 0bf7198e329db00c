-------------------------------- MODULE CxxText --------------------------------
(****************************************************************************)
(* lang/cxx: searching and editing texts.  A text is a sequence of          *)
(* characters; `index_of_first` and `index_of_last` do not try every place: *)
(* after a mismatch they look for the character that did not match, and go  *)
(* back from where it is found, at times to before the text.                *)
(****************************************************************************)
EXTENDS IndexSystem, SequencesExt

CONSTANTS
    Char,           \* numbers above 0, in the order of compare
    Needle,         \* the texts that are searched for or inserted
    MaxText         \* bound: no operation that makes a longer text

ASSUME TextAssumption == MaxText \in Nat /\ Char \subseteq Nat \ {0} /\ Needle \subseteq Seq(Char)

VARIABLES
    text,
    call            \* the last operation, its text, arguments and result

textVars == <<text, call>>

NotExist == -1                          \* uxx(-1)
Astray   == -2                          \* the search does not end
Beside   == Char \cup {0}               \* what may lie beside the text in memory

At(s, i, out) == IF i \in 0 .. Len(s) - 1 THEN s[i + 1] ELSE out
Texts(n)      == UNION {[1 .. k -> Char] : k \in 0 .. n}
Apart(v)      == Len(v) > 0 /\ IsInjective(v)   \* no character comes twice
IsAt(s, i, v) == i \in 0 .. Len(s) - Len(v) /\ SubSeq(s, i + 1, i + Len(v)) = v

(* index_of_first_char in the n characters from o, and index_of_last_char   *)
CharAfter(s, o, n, set, out) ==
    LET hit == {i \in 0 .. n - 1 : At(s, o + i, out) \in set}
    IN  IF hit = {} THEN NotExist ELSE Min(hit)
CharBefore(s, n, set) ==
    LET hit == {i \in 0 .. n - 1 : At(s, i, 0) \in set}
    IN  IF hit = {} THEN NotExist ELSE Max(hit)

(* The first character of v that differs from what stands at o              *)
Miss(s, o, v, out) ==
    LET differ == {i \in 0 .. Len(v) - 1 : At(s, o + i, out) /= v[i + 1]}
    IN  IF differ = {} THEN Len(v) ELSE Min(differ)

(* More rounds than there are places and characters repeat one of them      *)
Rounds(s, v) == 2 * (Len(s) + Len(v)) * (Len(v) + 1)

RECURSIVE FirstRound(_, _, _, _, _, _), LastRound(_, _, _, _, _, _)

(* Mistakes, named after the definitions they stand for.                    *)
FirstRound_FromMatch(s, v, out, o, miss, rounds) ==
    LET i  == CharAfter(s, o, Len(s) - o, {v[miss + 1]}, out)
        at == o + i - miss
        m  == Miss(s, at, v, out)
    IN  CASE rounds = 0 -> Astray
          [] rounds > 0 /\ (i = NotExist \/ Len(s) - at < Len(v)) -> NotExist
          [] rounds > 0 /\ i /= NotExist /\ Len(s) - at >= Len(v) /\ m = Len(v) -> at
          [] OTHER -> FirstRound(s, v, out, at + Len(v), 0, rounds - 1)

(* The rest of the text begins at o; its character v[miss] is looked for.   *)
FirstRound(s, v, out, o, miss, rounds) ==
    LET i  == CharAfter(s, o, Len(s) - o, {v[miss + 1]}, out)
        at == o + i - miss
        m  == Miss(s, at, v, out)
    IN  CASE rounds = 0 -> Astray
          [] rounds > 0 /\ (i = NotExist \/ Len(s) - at < Len(v)) -> NotExist
          [] rounds > 0 /\ i /= NotExist /\ Len(s) - at >= Len(v) /\ m = Len(v) -> at
          [] OTHER -> FirstRound(s, v, out, at + miss, m, rounds - 1)

(* From o on                                                                *)
FirstFrom(s, o, v, out) ==
    IF Len(s) - o < Len(v) \/ v = <<>> THEN NotExist
    ELSE LET at == FirstRound(s, v, out, o, 0, Rounds(s, v))
         IN  IF at < 0 THEN at ELSE at - o

(* The first n characters are left; where v does not stand, the character   *)
(* of it that differs is looked for in one more than before it.             *)
LastRound(s, v, out, n, miss, rounds) ==
    LET i == CharBefore(s, n, {v[miss + 1]})
        m == Miss(s, i - miss, v, out)
    IN  CASE rounds = 0 \/ n < 0 -> Astray     \* a length below 0 is an enormous one
          [] rounds > 0 /\ n >= 0 /\ i = NotExist -> NotExist
          [] rounds > 0 /\ n >= 0 /\ i /= NotExist /\ m = Len(v) -> i - miss
          [] OTHER -> LastRound(s, v, out, i - miss + 1, m, rounds - 1)

LastIn(s, v, out) ==
    IF Len(s) < Len(v) \/ v = <<>> THEN NotExist
    ELSE LastRound(s, v, out, Len(s) - Len(v) + 1, 0, Rounds(s, v))

(* find and find_reserve: where v stands, each match beginning after (or    *)
(* ending before) the one before it                                         *)
RECURSIVE Finds(_, _, _, _), FindsBack(_, _, _, _)
Finds(s, o, v, out) ==
    LET i == FirstFrom(s, o, v, out)
    IN  IF i < 0 THEN <<>> ELSE <<o + i>> \o Finds(s, o + i + Len(v), v, out)
FindsBack(s, n, v, out) ==
    LET i == LastIn(SubSeq(s, 1, n), v, out)
    IN  IF i < 0 THEN <<>> ELSE <<i>> \o FindsBack(s, i, v, out)

(* find_mix: the n-th match, counted from the other end where n is negative *)
FindMix(s, reserve, v, n, out) ==
    LET found == IF reserve = (n >= 0) THEN FindsBack(s, Len(s), v, out) ELSE Finds(s, 0, v, out)
        which == IF n >= 0 THEN n ELSE -n - 1
    IN  IF which < Len(found) THEN found[which + 1] ELSE NotExist

(* Where the text after the match before the k-th begins                    *)
Start_AtMatch(found, v, k) == IF k = 1 THEN 0 ELSE found[k - 1]
Start(found, v, k) == IF k = 1 THEN 0 ELSE found[k - 1] + Len(v)

(* split: the pieces [at, len] between the finds, without those of length 0 *)
(* or with an empty one at every find but one at 0; what follows the last   *)
(* find is a piece where it has two characters or more.                     *)
Piece(at, end) == [at |-> at, len |-> end - at]
Split(s, v, keep, out) ==
    LET found == Finds(s, 0, v, out)
        Before(k) == Piece(Start(found, v, k), found[k])
        Pieces(k) == IF ~keep THEN (IF Before(k).len = 0 THEN <<>> ELSE <<Before(k)>>)
                     ELSE <<Before(k)>> \o (IF found[k] = 0 THEN <<>> ELSE <<Piece(found[k], found[k])>>)
        rest == Start(found, v, Len(found) + 1)
    IN  FlattenSeq([k \in 1 .. Len(found) |-> Pieces(k)]) \o
        (IF rest + 1 < Len(s) THEN <<Piece(rest, Len(s))>> ELSE <<>>)

(* replace: the offsets between the finds are kept, and copied back with    *)
(* the new text after each                                                  *)
RECURSIVE Rebuilt(_, _, _, _)
Rebuilt(s, offsets, v, new) ==
    IF offsets = <<>> THEN s
    ELSE SubSeq(s, 1, Head(offsets)) \o new \o
         Rebuilt(SubSeq(s, Head(offsets) + Len(v) + 1, Len(s)), Tail(offsets), v, new)
Replaced(s, v, new, out) ==
    LET found == Finds(s, 0, v, out)
    IN  Rebuilt(s, [k \in 1 .. Len(found) |->
                      found[k] - Start(found, v, k)], v, new)

(* insert, slice with a buffer and reverse, clone included                  *)
Inserted(s, index, v) ==
    LET at == Rollback(Len(s), index)
    IN  SubSeq(s, 1, at) \o v \o SubSeq(s, at + 1, Len(s))
Sliced(s, i)  == [k \in 1 .. Len(Run(i)) |-> s[Run(i)[k] + 1]]
Reversed(s)   == Sliced(s, Normalized("oc", -1, 0, Len(s)))

(* strcat: room for all, then each is cloned behind the one before          *)
Concatenated(s, list) == s \o FlattenSeq(list)

(* pad_left, pad_right and pad_bends; align_* shorten where there is no     *)
(* room; trim_bends leaves a text of nothing but the given characters.      *)
Pad(n, c)           == [k \in 1 .. n |-> c]
PadBends(s, l, r, c) == Pad(l, c) \o s \o Pad(r, c)
Lacks(s, width) == IF width > Len(s) THEN width - Len(s) ELSE 0
Aligned(s, width, c, left) ==
    IF Len(s) >= width THEN SubSeq(s, 1, width)
    ELSE PadBends(s, left, Lacks(s, width) - left, c)
FirstMiss(s, set) == LET m == {i \in 0 .. Len(s) - 1 : s[i + 1] \notin set} IN IF m = {} THEN NotExist ELSE Min(m)
LastMiss(s, set)  == LET m == {i \in 0 .. Len(s) - 1 : s[i + 1] \notin set} IN IF m = {} THEN NotExist ELSE Max(m)
TrimBends(s, set) ==
    LET r == IF FirstMiss(s, set) = NotExist THEN s ELSE SubSeq(s, FirstMiss(s, set) + 1, Len(s))
    IN  IF LastMiss(r, set) = NotExist THEN r ELSE SubSeq(r, 1, LastMiss(r, set) + 1)

(* compare and compare_fastly                                               *)
Compare(a, b) ==
    LET differ == {i \in 1 .. Min({Len(a), Len(b)}) : a[i] /= b[i]}
    IN  IF differ = {} THEN Len(a) - Len(b) ELSE a[Min(differ)] - b[Min(differ)]
CompareFastly(a, b) == IF Len(a) /= Len(b) THEN Len(a) - Len(b) ELSE Compare(a, b)

(* is_starts_with and is_ends_with; index_of_prefix and index_of_suffix     *)
(* answer 0 for every text of the list, their counter is never moved.       *)
StartsWith(s, v) == v /= <<>> /\ Len(v) <= Len(s) /\ CompareFastly(SubSeq(s, 1, Len(v)), v) = 0
EndsWith(s, v)   == v /= <<>> /\ Len(v) <= Len(s) /\ CompareFastly(SubSeq(s, Len(s) - Len(v) + 1, Len(s)), v) = 0
IndexOfPrefix(s, list) == IF \E k \in DOMAIN list : StartsWith(s, list[k]) THEN 0 ELSE NotExist
IndexOfSuffix(s, list) == IF \E k \in DOMAIN list : EndsWith(s, list[k]) THEN 0 ELSE NotExist
------------------------------------------------------------------------------
Idle == [op |-> "none"]
Says(op, arg, result) ==
    call' = [op |-> op, of |-> text, arg |-> arg, result |-> result] /\ UNCHANGED text
Becomes(op, arg, new) ==
    /\ Len(new) <= MaxText
    /\ text' = new
    /\ call' = [op |-> op, of |-> text, arg |-> arg, result |-> new]

Search ==
    \E v \in Needle, out \in Beside :
        \/ Says("first", v, FirstFrom(text, 0, v, out))
        \/ Says("last", v, LastIn(text, v, out))
        \/ Apart(v) /\ Says("find", v, Finds(text, 0, v, out))
        \/ Apart(v) /\ Len(v) <= 2 /\ Says("find_reserve", v, FindsBack(text, Len(text), v, out))
        \/ \E reserve \in BOOLEAN, n \in -2 .. 1 :
             Apart(v) /\ Len(v) <= 2 /\ Says("find_mix", <<v, reserve, n>>, FindMix(text, reserve, v, n, out))

Ask ==
    \E v, w \in Needle :
        \/ Says("compare", v, <<Compare(text, v), CompareFastly(text, v)>>)
        \/ Says("prefix", <<v, w>>, IndexOfPrefix(text, <<v, w>>))
        \/ Says("suffix", <<v, w>>, IndexOfSuffix(text, <<v, w>>))

SplitBy ==
    \E v \in Needle, keep \in BOOLEAN, out \in Beside :
        Apart(v) /\ Says("split", <<v, keep>>, Split(text, v, keep, out))

Replace ==
    \E v, new \in Needle, out \in Beside :
        Apart(v) /\ Becomes("replace", <<v, new>>, Replaced(text, v, new, out))

Insert ==
    \E v \in Needle, index \in -(Len(text) + 1) .. Len(text) :
        Becomes("insert", <<v, index>>, Inserted(text, index, v))

Slice ==
    \E kind \in Interval, l, r \in -(Len(text) + 1) .. Len(text) :
        LET i == Normalized(kind, l, r, Len(text))
        IN  /\ Inside(i, Len(text))
            /\ Becomes("slice", <<kind, l, r>>, Sliced(text, i))

ReverseText == text /= <<>> /\ Becomes("reverse", <<>>, Reversed(text))

PadLeft  == \E n \in 0 .. MaxText, c \in Char : Becomes("pad", n, PadBends(text, n, 0, c))
PadRight == \E n \in 0 .. MaxText, c \in Char : Becomes("pad", n, PadBends(text, 0, n, c))
PadBoth  == \E n, m \in 1 .. MaxText, c \in Char :
                n + m + Len(text) <= MaxText /\ Becomes("pad", n + m, PadBends(text, n, m, c))

AlignLeft   == \E w \in 0 .. MaxText, c \in Char : Becomes("align", w, Aligned(text, w, c, 0))
AlignRight  == \E w \in 0 .. MaxText, c \in Char : Becomes("align", w, Aligned(text, w, c, Lacks(text, w)))
AlignCenter == \E w \in 0 .. MaxText, c \in Char : Becomes("align", w, Aligned(text, w, c, Lacks(text, w) \div 2))

Trim == \E set \in SUBSET Char \ {{}} : Becomes("trim", set, TrimBends(text, set))

Concat == \E v, w \in Needle : Becomes("strcat", <<v, w>>, Concatenated(text, <<v, w>>))

Returns == call /= Idle /\ call' = Idle /\ UNCHANGED text

TextInit == text = <<>> /\ call = Idle
TextNext ==
    \/ call = Idle /\ \/ Search \/ Ask \/ SplitBy \/ Replace \/ Insert
                      \/ Slice \/ ReverseText \/ Trim \/ Concat
                      \/ PadLeft \/ PadRight \/ PadBoth
                      \/ AlignLeft \/ AlignRight \/ AlignCenter
    \/ Returns
TextSpec == TextInit /\ [][TextNext]_textVars
------------------------------------------------------------------------------
TextTypeOK == text \in Texts(MaxText)

Places(s, v) == {i \in 0 .. Len(s) : v /= <<>> /\ IsAt(s, i, v)}

(* A search that answers with a place is right that the text stands there,  *)
(* whatever lies beside the text in memory; and where the characters of the *)
(* text sought differ (for the search from the end: and are two at most) it *)
(* ends, with the first place, the last, all of them.                       *)
SearchExact ==
    LET places == Places(call.of, call.arg)
    IN  /\ call.op \in {"first", "last"} =>
             /\ call.result >= 0 => call.result \in places
             /\ Apart(call.arg) /\ call.op = "first" =>
                  call.result = IF places = {} THEN NotExist ELSE Min(places)
             /\ Apart(call.arg) /\ call.op = "last" /\ Len(call.arg) <= 2 =>
                  call.result = IF places = {} THEN NotExist ELSE Max(places)
        /\ call.op = "find" => call.result = SetToSortSeq(places, <)
        /\ call.op = "find_reserve" => call.result = SetToSortSeq(places, >)
        /\ call.op = "find_mix" =>
             LET up    == SetToSortSeq(Places(call.of, call.arg[1]), <)
                 n     == call.arg[3]
                 which == IF call.arg[2] THEN -n - 1 ELSE n      \* -1: the last
                 k     == IF which >= 0 THEN which + 1 ELSE Len(up) + which + 1
             IN  call.result = IF k \in DOMAIN up THEN up[k] ELSE NotExist
        /\ call.op = "compare" =>
             (call.result[1] = 0 <=> call.of = call.arg) /\ (call.result[2] = 0 <=> call.of = call.arg)

(* The pieces of a split come in order, none holds what splits, and they    *)
(* hold every character that is in no match, save a single last one.        *)
SplitExact ==
    call.op = "split" =>
        LET v == call.arg[1]
            In(p) == p.at .. p.at + p.len - 1
            matched == UNION {i .. i + Len(v) - 1 : i \in Places(call.of, v)}
            held == UNION {In(call.result[k]) : k \in DOMAIN call.result}
            lost == (0 .. Len(call.of) - 1) \ (matched \cup held)
        IN  /\ \A k \in 2 .. Len(call.result) :
                  call.result[k - 1].at + call.result[k - 1].len <= call.result[k].at
            /\ held \cap matched = {}
            /\ lost \subseteq {Len(call.of) - 1}

(* An edit gives what its name says: between the matches nothing changes    *)
(* and each one becomes the new text; an interval's characters, in its      *)
(* direction; nothing to trim at either end, unless there is nothing else.  *)
EditExact ==
    LET new == call.result
        old == call.of
    IN  /\ call.op = "replace" =>
             LET v == call.arg[1]
                 places == Places(old, v)
                 Unit(i) == IF i \in places THEN call.arg[2]
                            ELSE IF \E p \in places : p < i /\ i < p + Len(v) THEN <<>>
                            ELSE <<old[i + 1]>>
             IN  new = FlattenSeq([i \in 1 .. Len(old) |-> Unit(i - 1)])
        /\ call.op = "slice" /\ call.arg[2] /= call.arg[3] =>
             LET meant == Meant(call.arg[1], call.arg[2], call.arg[3], Len(old))
                 down  == Rollback(Len(old), call.arg[2]) > Rollback(Len(old), call.arg[3])
                 run   == IF down THEN SetToSortSeq(meant, >) ELSE SetToSortSeq(meant, <)
             IN  meant /= {} => new = [k \in 1 .. Len(run) |-> old[run[k] + 1]]
        /\ call.op = "reverse" => new = Reverse(old)
        /\ call.op = "trim" /\ ToSet(old) \ call.arg /= {} =>
             /\ Head(new) \notin call.arg /\ Last(new) \notin call.arg
             /\ \E i, j \in 0 .. Len(old) : ToSet(SubSeq(old, 1, i)) \cup ToSet(SubSeq(old, j + 1, Len(old))) \subseteq call.arg
                                            /\ new = SubSeq(old, i + 1, j)
        /\ call.op = "pad"   => Len(new) = Len(old) + call.arg
        /\ call.op = "align" => Len(new) = call.arg
        /\ call.op \in {"pad", "align"} =>
             LET n == Min({Len(old), Len(new)})
             IN  \E i \in 0 .. Len(new) - n : IsAt(new, i, SubSeq(old, 1, n))
==============================================================================
