------------------------------ MODULE NumberText ------------------------------
(****************************************************************************)
(* lang/cxx/strlize.hpp and lang/cxx/parse.hpp: numbers become texts and    *)
(* texts numbers.  A whole number has BitsOfNumber bits; of a float only    *)
(* its decimal digits and its exponent are kept, as the layout gets them.   *)
(* A text is a sequence of characters: the digits 0 to 9 (letters that are  *)
(* digits of a larger base lie above Letters), signs, point and e.          *)
(* `typed` is the text, `meant` what was written into it, `parsed` what a    *)
(* parse of it gave.                                                        *)
(*                                                                          *)
(* lang/cxx/ph.hpp: texts with placeholders.  v{a, b ...} asks each of its  *)
(* items for room in turn, the last one takes the memory for all of them,   *)
(* and the items are written from the last to the first, each in front of   *)
(* what is already there.  `ph` is the object, `made` what its last format  *)
(* gave: the memory taken, the place in it where the text begins, and its   *)
(* length.                                                                  *)
(****************************************************************************)
EXTENDS Integers, SequencesExt

CONSTANTS BitsOfNumber,    \* the width of uxx
          Bases,           \* the bases that are used: numeration_t
          Mantissa,        \* the digits of the floats that are written
          MaxExponent,     \* their largest exponent, up or down
          Precise,         \* the precisions that are asked for
          MaxTyped         \* the longest text that a caller makes itself

VARIABLES typed, meant, parsed
numberVars == <<typed, meant, parsed>>

Dot == 10
Minus == 11
Plus == 12
Exp == 13
Stray == 14
Ending == 15
Letters == 20

Modulus == 2 ^ BitsOfNumber
NotGiven == -1
NoError == -1
NothingMeant == [op |-> "none", neg |-> FALSE, digits |-> <<>>, exp |-> 0, precise |-> NotGiven, base |-> 10]
NothingParsed == [op |-> "none", value |-> 0, exp |-> 0, error |-> NoError, base |-> 10]

IsDigit(c) == c \in 0 .. 9
Zeros(n) == [k \in 1 .. n |-> 0]
Smaller(a, b) == IF a < b THEN a ELSE b
Larger(a, b) == IF a > b THEN a ELSE b
ValueOf(digits, base) == FoldLeft(LAMBDA v, d : v * base + d, 0, digits)
------------------------------------------------------------------------------
(* strlize of a whole number: digits from the last one, turned around       *)
RECURSIVE DigitsOf(_, _)
DigitsOf(u, base) ==
    IF u < base THEN <<IF u >= 10 THEN Letters + u - 10 ELSE u>>
    ELSE Append(DigitsOf(u \div base, base), DigitsOf(u % base, base)[1])

(* A slip: the sign is counted for the length but the number keeps it       *)
IntText_KeepsSign(u, base, plus) ==
    LET neg == u >= Modulus \div 2
    IN  IF neg THEN <<Minus>> \o DigitsOf(u, base) ELSE DigitsOf(u, base)

(* The room is for a minus but not for a plus: with a plus sign the last    *)
(* digit lies behind the text                                               *)
IntText(u, base, plus) ==
    LET neg    == u >= Modulus \div 2
        digits == DigitsOf(IF neg THEN Modulus - u ELSE u, base)
        signed == IF neg THEN <<Minus>> \o digits ELSE IF plus THEN <<Plus>> \o digits ELSE digits
    IN  SubSeq(signed, 1, Len(digits) + (IF neg THEN 1 ELSE 0))

(* A slip: a digit of a larger base is taken                                *)
RECURSIVE ReadWhole_AnyDigit(_, _, _, _)
ReadWhole_AnyDigit(s, i, value, base) ==
    IF i > Len(s) THEN [value |-> value, error |-> NoError]
    ELSE IF ~IsDigit(s[i]) THEN [value |-> value, error |-> i - 1]
    ELSE ReadWhole_AnyDigit(s, i + 1, (value * base + s[i]) % Modulus, base)

(* parse of a whole number: a letter is no digit, whatever the base is      *)
RECURSIVE ReadWhole(_, _, _, _)
ReadWhole(s, i, value, base) ==
    IF i > Len(s) THEN [value |-> value, error |-> NoError]
    ELSE IF s[i] >= base \/ ~IsDigit(s[i]) THEN [value |-> value, error |-> i - 1]
    ELSE ReadWhole(s, i + 1, (value * base + s[i]) % Modulus, base)

Signed(s) == s /= <<>> /\ s[1] \in {Plus, Minus}

IntOf(s, base) ==
    LET from == IF Signed(s) THEN 2 ELSE 1
        r    == ReadWhole(s, from, 0, base)
    IN  IF s = <<>> THEN [value |-> 0, error |-> 0]
        ELSE IF r.error = NoError /\ s[1] = Minus THEN [r EXCEPT !.value = (Modulus - @) % Modulus]
        ELSE r
------------------------------------------------------------------------------
(* strlize of a float: the digits d of a number d[1].d[2]d[3].. * 10^e, cut *)
(* into a whole part, zeros behind it, zeros behind the point, decimals and *)
(* zeros behind those                                                       *)
NumberParts(real, expanding, leading, decimal, trailing) ==
    [real |-> real, expanding |-> expanding, leading |-> leading,
     decimal |-> decimal, trailing |-> trailing]

PartsWithE(d, precise) ==
    LET kept == IF precise = NotGiven THEN Len(d) - 1 ELSE Smaller(precise, Len(d) - 1)
    IN  NumberParts(SubSeq(d, 1, 1), 0, 0, SubSeq(d, 2, kept + 1),
              IF precise = NotGiven THEN 0 ELSE Larger(precise - Len(d), 0))

PartsBelowOne(d, exp, precise) ==
    LET leading == IF precise = NotGiven THEN exp - 1 ELSE Smaller(exp - 1, precise)
        kept    == IF precise = NotGiven THEN Len(d) ELSE Smaller(precise - leading, Len(d))
    IN  NumberParts(<<0>>, 0, leading, SubSeq(d, 1, kept),
              IF precise = NotGiven THEN 0 ELSE precise - leading - kept)

PartsFromOne(d, exp, precise) ==
    LET expand    == exp + 1 - Len(d)
        expanding == Larger(0, expand)
        rest      == Larger(0, -expand)
        kept      == IF precise = NotGiven THEN rest ELSE Smaller(precise, rest)
        whole     == exp + 1 - expanding
    IN  NumberParts(SubSeq(d, 1, whole), expanding, 0, SubSeq(d, whole + 1, whole + kept),
              IF precise = NotGiven THEN 0 ELSE Larger(0, precise - rest))

(* is_neg_exp: whether the estimate of the exponent was negative; it is 0   *)
(* for a number from 0.125 to 1                                             *)
Eighth == 125
NegativeEstimate(d, exp) == exp < -1 \/ (exp = -1 /\ ValueOf(SubSeq(d \o <<0, 0>>, 1, 3), 10) < Eighth)

ExpDigits(exp) == <<(exp \div 100) % 10, (exp \div 10) % 10, exp % 10>>

(* The layout without an exponent                                           *)
PlainText(p) ==
    LET decimals == Zeros(p.leading) \o p.decimal \o Zeros(p.trailing)
        behind   == Len(p.decimal) + p.trailing
    IN  p.real \o Zeros(p.expanding) \o (IF behind = 0 THEN <<>> ELSE <<Dot>> \o decimals)

(* The layout with an exponent; its sign is left out when it is a plus      *)
ExpText(p, exp, plus) ==
    p.real \o (IF p.decimal = <<>> /\ p.trailing = 0 THEN <<>> ELSE <<Dot>>)
           \o p.decimal \o Zeros(p.trailing) \o <<Exp>>
           \o (IF exp < 0 THEN <<Minus>> ELSE IF plus THEN <<Plus>> ELSE <<>>)
           \o ExpDigits(IF exp < 0 THEN -exp ELSE exp)

FloatText(neg, d, exp, scientific, plus, precise) ==
    LET size == IF exp < 0 THEN -exp ELSE exp
        sign == IF neg THEN <<Minus>> ELSE IF plus THEN <<Plus>> ELSE <<>>
    IN  sign \o (IF scientific THEN ExpText(PartsWithE(d, precise), exp, plus)
                 ELSE IF NegativeEstimate(d, exp) THEN PlainText(PartsBelowOne(d, size, precise))
                 ELSE PlainText(PartsFromOne(d, size, precise)))

(* parse of a float, which reads on while it finds digits, also behind the  *)
(* text; what is left behind a number without exponent is no error          *)
RECURSIVE DigitsEnd(_, _)
DigitsEnd(s, i) == IF IsDigit(s[i]) THEN DigitsEnd(s, i + 1) ELSE i

FloatOf(shown, behind) ==
    LET s     == shown \o <<behind, Ending>>
        neg   == s[1] = Minus
        from  == IF s[1] \in {Plus, Minus} THEN 2 ELSE 1
        whole == DigitsEnd(s, from)
        dot   == s[whole] = Dot
        done  == IF dot THEN DigitsEnd(s, whole + 1) ELSE whole
        decs  == IF dot THEN SubSeq(s, whole + 1, done - 1) ELSE <<>>
        value == ValueOf(SubSeq(s, from, whole - 1) \o decs, 10)
        efrom == IF s[done + 1] \in {Plus, Minus} THEN done + 2 ELSE done + 1
        eend  == DigitsEnd(s, efrom)
        e     == ValueOf(SubSeq(s, efrom, eend - 1), 10)
        got(exp, error) ==
            [value |-> IF neg THEN -value ELSE value, exp |-> exp - Len(decs), error |-> error]
    IN  IF shown = <<>> THEN [value |-> 0, exp |-> 0, error |-> 0]
        ELSE IF whole = from /\ decs = <<>> THEN got(0, 0)
        ELSE IF s[done] /= Exp THEN got(0, NoError)
        ELSE IF eend = efrom THEN got(0, done - 1)
        ELSE got(IF s[done + 1] = Minus THEN -e ELSE e,
                 IF eend = Len(shown) + 1 THEN NoError ELSE eend - 1)
------------------------------------------------------------------------------
NumberInit == typed = <<>> /\ meant = NothingMeant /\ parsed = NothingParsed

Fresh == typed = <<>> /\ parsed = NothingParsed

(* strlize(value, format, radix); neg keeps that a plus sign was asked for  *)
WriteInt ==
    \E u \in 0 .. Modulus - 1, base \in Bases, plus \in BOOLEAN :
        /\ Fresh
        /\ typed' = IntText(u, base, plus)
        /\ meant' = [NothingMeant EXCEPT !.op = "int", !.digits = <<u>>, !.base = base,
                                         !.neg = plus /\ u < Modulus \div 2]
        /\ UNCHANGED parsed

(* strlize(value, format, precious)                                         *)
WriteFloat ==
    \E neg, scientific, plus \in BOOLEAN, d \in Mantissa, exp \in -MaxExponent .. MaxExponent,
       precise \in Precise \cup {NotGiven} :
        /\ Fresh
        /\ d = <<0>> => exp = 0 /\ ~neg
        /\ typed' = FloatText(neg, d, exp, scientific, plus, precise)
        /\ meant' = [op |-> IF scientific THEN "scientific" ELSE "plain", neg |-> neg, digits |-> d,
                     exp |-> exp, precise |-> precise, base |-> 10]
        /\ UNCHANGED parsed

(* A caller's own text                                                      *)
TypeText ==
    \E c \in {0, 7, Dot, Minus, Exp, Stray, Letters} :
        /\ meant.op \in {"none", "typed"} /\ parsed = NothingParsed
        /\ Len(typed) < MaxTyped
        /\ typed' = Append(typed, c)
        /\ meant' = [NothingMeant EXCEPT !.op = "typed"]
        /\ UNCHANGED parsed

ParseInt ==
    \E base \in IF meant.op = "int" THEN {meant.base} ELSE Bases :
        LET r == IntOf(typed, base)
        IN  /\ meant.op \in {"int", "typed", "none"} /\ parsed = NothingParsed
            /\ parsed' = [op |-> "int", value |-> r.value, exp |-> 0, error |-> r.error, base |-> base]
            /\ UNCHANGED <<typed, meant>>

(* parse of a float; what lies behind the text is a digit or no digit       *)
ParseFloat ==
    \E behind \in {Stray, 7} :
        LET r == FloatOf(typed, behind)
        IN  /\ meant.op /= "int" /\ parsed = NothingParsed
            /\ parsed' = [op |-> IF behind = Stray THEN "float" ELSE "float_on",
                          value |-> r.value, exp |-> r.exp, error |-> r.error, base |-> 10]
            /\ UNCHANGED <<typed, meant>>

NumberNext ==
    \/ WriteInt
    \/ WriteFloat
    \/ TypeText
    \/ ParseInt
    \/ ParseFloat

NumberSpec == NumberInit /\ [][NumberNext]_numberVars
------------------------------------------------------------------------------
NumberTypeOK ==
    /\ typed \in Seq(0 .. Letters + 26)
    /\ parsed.error \in -1 .. Len(typed) + 1
    /\ parsed.op = "int" => parsed.value \in 0 .. Modulus - 1

(* Two decimal numbers, value * 10^exp are the same                          *)
SameNumber(v, e, w, f) ==
    IF e >= f THEN v * 10 ^ (e - f) = w ELSE v = w * 10 ^ (f - e)

(* What a float's text may keep of it: its digits up to the precision       *)
Kept(m) ==
    LET size  == Len(m.digits) - 1 - m.exp
        plain == IF size > m.precise THEN size - m.precise ELSE 0
        drop  == IF m.precise = NotGiven THEN 0
                 ELSE IF m.op = "scientific" THEN Larger(Len(m.digits) - 1 - m.precise, 0) ELSE plain
        value == ValueOf(m.digits, 10) \div 10 ^ drop
    IN  [value |-> IF m.neg THEN -value ELSE value, exp |-> m.exp - Len(m.digits) + 1 + drop]

(* A number that was written is read back: a whole one as it was, a float   *)
(* to the precision it was written with, unless it was written without an   *)
(* exponent from 0.125 to 1, where the text is that of a number ten times   *)
(* its digits; a whole number of letters, or with a plus sign that is       *)
(* asked for, is not.                                                       *)
ReadBack ==
    /\ meant.op = "int" /\ parsed.op = "int" /\ ~meant.neg /\ (\A c \in ToSet(typed) : c < Letters) =>
           parsed.error = NoError /\ parsed.value = meant.digits[1]
    /\ meant.op \in {"plain", "scientific"} /\ parsed.op = "float"
       /\ (meant.op = "plain" /\ meant.exp = -1 => NegativeEstimate(meant.digits, -1)) =>
           /\ parsed.error = NoError
           /\ SameNumber(parsed.value, parsed.exp, Kept(meant).value, Kept(meant).exp)

(* A text is taken as a whole number up to its first character that is no   *)
(* digit, which is the one the error names.                                 *)
ErrorAtFirst ==
    meant.op = "typed" /\ parsed.op = "int" =>
        LET body == SubSeq(typed, IF Signed(typed) THEN 2 ELSE 1, Len(typed))
            bad  == {i \in DOMAIN body : ~IsDigit(body[i]) \/ body[i] >= parsed.base}
        IN  IF bad = {} THEN /\ parsed.error = NoError
                             /\ (parsed.value - (IF typed[1] = Minus THEN -1 ELSE 1)
                                     * ValueOf(body, parsed.base)) % Modulus = 0
            ELSE /\ parsed.error = Len(typed) - Len(body) + Min(bad) - 1
                 /\ parsed.value = ValueOf(SubSeq(body, 1, Min(bad) - 1), parsed.base) % Modulus

------------------------------------------------------------------------------
(* Texts with placeholders                                                  *)
CONSTANTS Holders,      \* the objects that are formatted
          Fmt,          \* the texts with placeholders they are formatted with
          Wide,         \* the widths they are aligned to
          PhTurns       \* bound: the calls made on one object

ASSUME PhAssumption == Wide \subseteq Nat /\ PhTurns \in Nat

VARIABLES ph, made, turns
phVars == <<ph, made, turns>>

Hole  == 90                                   \* place_holder_char
Hex   == 91                                   \* the x of 0x
Space == 92
Star  == 93
NoChar == -1                                   \* memory that nobody wrote
Margin == 12                                  \* the memory looked at on each side

(* base_ph: a new object is centred in no width                             *)
NewPh(fields) == [mode |-> "center", left |-> Space, right |-> Space, width |-> 0, head |-> 0] @@ fields
PhString(s) == NewPh([op |-> "text", content |-> s])
PhNum(value, base, bits, prefix, zeros) ==
    NewPh([op |-> "num", value |-> value, base |-> base, bits |-> bits, prefix |-> prefix, zeros |-> zeros])
PhV(items) == NewPh([op |-> "v", items |-> items])

(* c, l and r: l leaves the padding of the left side, r that of the right   *)
AlignC(p, w, l, r) == [p EXCEPT !.mode = "center", !.width = w, !.left = l, !.right = r]
AlignL(p, w, pad)  == [p EXCEPT !.mode = "left", !.width = w, !.right = pad]
AlignR(p, w, pad)  == [p EXCEPT !.mode = "right", !.width = w, !.left = pad]

(* The digits of a number, with the zeros its type has room for and 0x      *)
KeptLength(p) == CASE p.base = 16 -> p.bits \div 4
                   [] p.base = 8  -> p.bits \div 3 + (IF p.bits % 3 /= 0 THEN 1 ELSE 0)
                   [] p.base = 2  -> p.bits
NumContent(p) ==
    LET digits == DigitsOf(p.value, p.base)
        zeros  == IF p.zeros THEN KeptLength(p) - Len(digits) ELSE 0
    IN  (IF p.prefix THEN <<0, Hex>> ELSE <<>>) \o Zeros(zeros) \o digits

PadOf(p, n) == IF p.width <= n THEN 0 ELSE p.width - n

(* Mistake: the item is centred by its own length                           *)
Shift_ByLength(p, n) == CASE p.mode = "center" -> IF PadOf(p, n) = 0 THEN 0 ELSE (p.width \div 2) - (n \div 2)
                          [] p.mode = "left"   -> 0
                          [] p.mode = "right"  -> PadOf(p, n)
(* align: where in its room a content of n characters begins                *)
Shift(p, n) == CASE p.mode = "center" -> PadOf(p, n) \div 2
                 [] p.mode = "left"   -> 0
                 [] p.mode = "right"  -> PadOf(p, n)

(* offset_to_head is not touched when there is nothing to pad               *)
HeadAfter(p, n) == IF PadOf(p, n) = 0 THEN p.head ELSE Shift(p, n)
------------------------------------------------------------------------------
(* combine on its way down: what stands in front of each of n items, and    *)
(* what is left of the text behind the last                                 *)
CutFmt(f, n) ==
    LET Cut(rest) == LET at == SelectInSeq(rest, LAMBDA c : c = Hole)
                     IN  IF at = 0 THEN [front |-> rest, next |-> <<>>]
                         ELSE [front |-> SubSeq(rest, 1, at - 1), next |-> SubSeq(rest, at + 1, Len(rest))]
    IN  FoldLeft(LAMBDA acc, k : LET c == Cut(acc.rest)
                                 IN  [fronts |-> Append(acc.fronts, c.front), rest |-> c.next],
                 [fronts |-> <<>>, rest |-> f], [k \in 1 .. n |-> k])

(* The room that an item asks for: its content padded to its width; the     *)
(* content of a v is the rooms of its items and the text around them        *)
RECURSIVE RoomOf(_)
ContentLength(p, f) ==
    CASE p.op = "text" -> Len(p.content)
      [] p.op = "num"  -> Len(NumContent(p))
      [] p.op = "v"    ->
            LET cut == CutFmt(f, Len(p.items))
            IN  FoldLeft(LAMBDA sum, k : sum + RoomOf(p.items[k]) + Len(cut.fronts[k]),
                         Len(cut.rest), [k \in 1 .. Len(p.items) |-> k])
RoomOf(p) == LET n == ContentLength(p, <<>>) IN n + PadOf(p, n)

Put(mem, at, s) ==
    [a \in DOMAIN mem |-> IF a \in at .. at + Len(s) - 1 THEN s[a - at + 1] ELSE mem[a]]
PutPadding(mem, at, pad, n) == Put(mem, at, [k \in 1 .. n |-> pad])

(* align, writing: the padding on both sides of a content of n characters   *)
PaddingWritten(p, n, at, mem) ==
    PutPadding(PutPadding(mem, at, p.left, Shift(p, n)),
           at + Shift(p, n) + n, p.right, PadOf(p, n) - Shift(p, n))

(* format and combine on their way back: an item is written into the room   *)
(* that begins at `at`, a v from its end to its beginning, each item in     *)
(* front of what is there and then the text that stands in front of it.     *)
(* `from` is where the pointer that is given back points to.                *)
InFront(item, front) ==
    [mem |-> Put(item.mem, item.from - Len(front), front), from |-> item.from - Len(front)]
Headed(p, n, got) == [got EXCEPT !.from = @ - HeadAfter(p, n)]

RECURSIVE Formatted(_, _, _, _, _)
Combined(items, cut, end, mem) ==
    LET Ahead(got, item, front) ==
            InFront(Formatted(item, <<>>, got.from - RoomOf(item), ContentLength(item, <<>>), got.mem), front)
    IN  FoldLeft(LAMBDA got, k : Ahead(got, items[k], cut.fronts[k]),
                 [mem |-> Put(mem, end, cut.rest), from |-> end],
                 Reverse([k \in 1 .. Len(items) |-> k]))
Formatted(p, f, at, n, mem) ==
    LET begin  == at + Shift(p, n)
        padded == PaddingWritten(p, n, at, mem)
        cut    == CutFmt(f, Len(p.items))
    IN  CASE p.op = "text" -> [mem |-> Put(mem, at, p.content), from |-> at]
          [] p.op = "num"  -> Headed(p, n, [mem |-> Put(padded, begin, NumContent(p)), from |-> begin])
          [] p.op = "v"    -> Headed(p, n, Combined(p.items, cut, begin + n - Len(cut.rest), padded))
------------------------------------------------------------------------------
NothingMade == [fmt |-> <<>>, of |-> <<>>, mem |-> <<>>, from |-> 0, length |-> 0]

PhInit == ph \in Holders /\ made = NothingMade /\ turns = 0

Aligning ==
    /\ ph.width = 0
    /\ \E w \in Wide : ph' \in {AlignC(ph, w, Space, Star), AlignL(ph, w, Star), AlignR(ph, w, Space)}
    /\ turns' = turns + 1
    /\ UNCHANGED made

Formatting(f) ==
    LET n     == ContentLength(ph, f)
        total == n + PadOf(ph, n)
    IN  /\ ph.op /= "v" => f = <<>>
        /\ made' = [fmt |-> f, of |-> ph, length |-> total]
                   @@ Formatted(ph, f, 0, n, [a \in -Margin .. total + Margin - 1 |-> NoChar])
        /\ ph' = [ph EXCEPT !.head = HeadAfter(ph, n)]
        /\ turns' = turns + 1

PhNext == turns < PhTurns /\ (Aligning \/ \E f \in Fmt : Formatting(f))
PhSpec == PhInit /\ [][PhNext]_phVars
------------------------------------------------------------------------------
PhTypeOK ==
    /\ ph.mode \in {"center", "left", "right"} /\ ph.op \in {"num", "v"}
    /\ ph.head \in 0 .. ph.width
    /\ turns \in 0 .. PhTurns

(* What is meant: every placeholder replaced by its item, the items that    *)
(* have none behind the text, each with its padding.                        *)
RECURSIVE MeantText(_, _)
MeantText(p, f) ==
    LET own == CASE p.op = "text" -> p.content
                 [] p.op = "num"  -> NumContent(p)
                 [] p.op = "v"    ->
                      LET item(k) == MeantText(p.items[k], <<>>)
                          put == FoldLeft(LAMBDA acc, c :
                                    IF c = Hole /\ acc.used < Len(p.items)
                                    THEN [text |-> acc.text \o item(acc.used + 1), used |-> acc.used + 1]
                                    ELSE [acc EXCEPT !.text = Append(@, c)],
                                  [text |-> <<>>, used |-> 0], f)
                      IN  put.text \o FlattenSeq([k \in 1 .. Len(p.items) - put.used |-> item(put.used + k)])
        pad == PadOf(p, Len(own))
        fill(c, n) == [k \in 1 .. n |-> c]
    IN  CASE p.mode = "center" -> fill(p.left, pad \div 2) \o own \o fill(p.right, pad - pad \div 2)
          [] p.mode = "left"   -> own \o fill(p.right, pad)
          [] p.mode = "right"  -> fill(p.left, pad) \o own

(* A text with placeholders is made from its end to its beginning, in the   *)
(* room that the last item took for all: that memory is written from its    *)
(* first to its last cell with what is meant, nothing beside it is, and it  *)
(* is the text given back.  Not so for an object that an earlier format     *)
(* padded on the left and that needs no padding now: offset_to_head is not  *)
(* reset (ph.hpp:131) and its text begins in front of its memory.           *)
PhExact ==
    made /= NothingMade =>
        LET text   == MeantText(made.of, made.fmt)
            padded == PadOf(made.of, ContentLength(made.of, made.fmt)) > 0
        IN  /\ made.length = Len(text)
            /\ \A a \in DOMAIN made.mem :
                 made.mem[a] = IF a \in 0 .. Len(text) - 1 THEN text[a + 1] ELSE NoChar
            /\ (padded \/ made.of.head = 0) => made.from = 0
==============================================================================
