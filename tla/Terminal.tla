------------------------------ MODULE Terminal ------------------------------
(***************************************************************************)
(* Input from the terminal (io/private/extern.tty.hpp, linux): read_key    *)
(* takes what is waiting, up to eight bytes, and decodes one key at a time *)
(* from it; read_line takes a line piece by piece into a growing buffer.   *)
(* The terminal that sends the bytes is external.  A key is the set of its *)
(* marks (tty_key's m_type): the setter of its value stores nothing.       *)
(***************************************************************************)
EXTENDS Integers, SequencesExt

CONSTANTS
    Typed,          \* the keys a user presses
    MaxWaiting,     \* keys pressed and not yet read
    Lengths,        \* the lengths of the lines a user enters
    InitialLength   \* room of the first buffer of read_line

VARIABLES
    waiting,        \* keys pressed and not yet delivered, the oldest first
    input,          \* bytes the terminal has sent and nobody has taken
    key_str,        \* bytes taken and not yet decoded
    mixed,          \* a sequence was cut, or something was taken behind one
    key,            \* the answer of the last read_key, and the key pressed
    line,           \* the line on its way: what is left of it, then "\n"
    buffer          \* read_line's: room, bytes stored

ttyVars == <<waiting, input, key_str, mixed, key, line, buffer>>

-----------------------------------------------------------------------------
(* What terminals send: the table in the source's head comment. *)
Esc == 27

Modifiers == <<{}, {"shift"}, {"alt"}, {"shift", "alt"}, {"ctrl"},
               {"ctrl", "shift"}, {"ctrl", "alt"}, {"ctrl", "shift", "alt"}>>

(* The digit of a set of modifiers: '2' for shift and so on. *)
DigitKey(m) == 48 + (CHOOSE i \in 1 .. 8 : Modifiers[i] = m)

(* Keys are records of a kind, a code and modifiers.                       *)
(*   char: itself; after esc with alt; less 96 with ctrl                   *)
(*   arrow, f1 .. f4: p0 and the code, with modifiers p2 digit code        *)
(*   f5 .. f12: two digits and '~', or digits ; modifier ~                 *)
(*   ins, del: one digit and '~', or digit ; modifier ~                    *)
Sent(k) ==
    LET plain == k.mods = {}
        tail  == <<59, DigitKey(k.mods), 126>>
    IN  CASE k.kind = "char"  ->
                (IF "alt" \in k.mods THEN <<Esc>> ELSE <<>>)
                    \o (IF "ctrl" \in k.mods THEN <<k.code - 96>> ELSE <<k.code>>)
          [] k.kind = "arrow" -> IF plain THEN <<Esc, 91, k.code>>
                                 ELSE <<Esc, 91, 49, 59, DigitKey(k.mods), k.code>>
          [] k.kind = "edit"  -> <<Esc, 91, k.code>> \o IF plain THEN <<126>> ELSE tail
          [] k.kind = "func"  -> <<Esc, 91, 49, k.code>> \o IF plain THEN <<126>> ELSE tail
          [] k.kind = "esc"   -> <<Esc>>

(* The marks a program expects of a key. *)
Marks(k) ==
    k.mods \cup IF k.kind = "char" THEN {"is_char"} ELSE {"is_func"}

-----------------------------------------------------------------------------
(* decode *)
Printable(c) == c \in 32 .. 126 \/ c > 127

(* A code alone, or behind esc with the mark of alt already set. *)
Ascii(c, marks) ==
    IF c \in {27, 127, 13, 10} THEN marks \cup {"is_func"}
    ELSE IF c \in 32 .. 126 THEN marks \cup {"is_char"}
    ELSE IF c <= 26 \/ c \in {28, 29, 31} THEN marks \cup {"is_char", "ctrl"}
    ELSE {}

(* Arrows and f1 to f4; ins and del; f5 to f12. *)
Func(c)    == IF c \in 65 .. 68 \cup 80 .. 83 THEN {"is_func"} ELSE {}
Funciii(c) == {"is_func"}
Funcii(c)  == IF c \in {53, 55, 56, 57, 48, 49, 51, 52} THEN {"is_func"} ELSE {}

(* A digit outside the table reads what lies behind it, `junk`. *)
ModifyLut_FromZero(digit, junk) ==
    IF digit \in 50 .. 56 THEN Modifiers[digit - 49] ELSE junk

ModifyLut(digit, junk) == IF digit \in 50 .. 56 THEN Modifiers[digit - 48] ELSE junk

(* The sequences of control codes, told apart by their length alone. *)
Sequence(codes, junk) ==
    CASE Len(codes) = 2 -> Ascii(codes[2], {"alt"})
      [] Len(codes) = 3 -> Func(codes[3])
      [] Len(codes) = 4 -> Funciii(codes[3])
      [] Len(codes) = 5 -> Funcii(codes[4])
      [] Len(codes) = 6 ->
            (IF codes[6] = 126 THEN Funciii(codes[3]) ELSE Func(codes[6]))
                \cup ModifyLut(codes[5], junk)
      [] Len(codes) = 7 -> Funcii(codes[4]) \cup ModifyLut(codes[6], junk)
      [] OTHER -> {}

(* The marks of the first key in the codes, and how many codes are left. *)
Decode(codes, junk) ==
    IF Printable(codes[1]) THEN [marks |-> {"is_char"}, rest |-> Len(codes) - 1]
    ELSE IF Len(codes) = 1 THEN [marks |-> Ascii(codes[1], {}), rest |-> 0]
    ELSE [marks |-> Sequence(codes, junk), rest |-> 0]

-----------------------------------------------------------------------------
NoLine == [entered |-> 0, room |-> 0, total |-> 0, cut |-> FALSE]

NoKey == [marks |-> {}, pressed |-> {}]

TtyInit ==
    /\ waiting = <<>> /\ input = <<>> /\ key_str = <<>>
    /\ mixed = FALSE
    /\ key = NoKey
    /\ line = <<>>
    /\ buffer = NoLine

(* External: a key is pressed and its bytes arrive together.  Bound: not   *)
(* after a mix-up.                                                         *)
Press ==
    /\ buffer = NoLine /\ ~mixed
    /\ Len(waiting) < MaxWaiting
    /\ \E k \in Typed :
        /\ waiting' = Append(waiting, k)
        /\ input' = input \o Sent(k)
    /\ UNCHANGED <<key_str, mixed, key, line, buffer>>

(* The bytes of the first n keys pressed. *)
SentUpTo(n) == FoldLeft(LAMBDA s, k : s \o Sent(k), <<>>, SubSeq(waiting, 1, n))

(* Taken whole: some plain characters and then at most one sequence. *)
InStep(codes) ==
    \E n \in DOMAIN waiting :
        /\ codes = SentUpTo(n)
        /\ \A i \in 1 .. n - 1 : Len(Sent(waiting[i])) = 1 /\ Printable(Sent(waiting[i])[1])

(* read_key: with nothing kept from before it waits for a byte and takes   *)
(* what else is there; then it decodes one key and keeps the rest.         *)
ReadKey ==
    /\ waiting # <<>>
    /\ \E junk \in SUBSET {"shift", "alt", "ctrl"} :
       LET codes == IF key_str # <<>> THEN key_str
                    ELSE SubSeq(input, 1, IF Len(input) < 8 THEN Len(input) ELSE 8)
           d     == Decode(codes, junk)
       IN  /\ codes # <<>>
           /\ input' = IF key_str # <<>> THEN input ELSE SubSeq(input, Len(codes) + 1, Len(input))
           /\ mixed' = (mixed \/ (key_str = <<>> /\ ~InStep(codes)))
           /\ key' = [marks |-> d.marks, pressed |-> Marks(Head(waiting))]
           /\ key_str' = SubSeq(codes, Len(codes) - d.rest + 1, Len(codes))
           /\ waiting' = Tail(waiting)
    /\ UNCHANGED <<line, buffer>>

-----------------------------------------------------------------------------
(* The end of a line is cut off a piece: "\n", and a "\r" before it.       *)
WithoutEnd_Always(piece) == Front(piece)

WithoutEnd(piece) ==
    LET p == IF Last(piece) = "\n" THEN Front(piece) ELSE piece
    IN  IF p # <<>> /\ Last(p) = "\r" THEN Front(p) ELSE p

(* External: a line of n characters is entered, read_line begins. *)
LineBegin ==
    /\ waiting = <<>> /\ buffer = NoLine
    /\ \E n \in Lengths, end \in {<<"\n">>, <<"\r", "\n">>} :
        /\ line' = [i \in 1 .. n |-> "c"] \o end
        /\ buffer' = [entered |-> n, room |-> InitialLength, total |-> 0, cut |-> FALSE]
    /\ UNCHANGED <<waiting, input, key_str, mixed, key>>

(* The terminal's bytes are read into the room left.  A buffer filled to   *)
(* the last byte is doubled, and read_line goes on; `cut` tells that a     *)
(* piece ended between the "\r" and the "\n" of a line.                    *)
LinePiece ==
    /\ line # <<>>
    /\ LET room  == buffer.room - buffer.total
           n     == IF Len(line) < room THEN Len(line) ELSE room
           piece == SubSeq(line, 1, n)
           total == buffer.total + Len(WithoutEnd(piece))
       IN  /\ buffer' = [buffer EXCEPT
                !.total = total,
                !.room  = IF total = buffer.room THEN @ * 2 ELSE @,
                !.cut   = @ \/ (Last(piece) = "\r")]
           /\ line' = IF total = buffer.room THEN SubSeq(line, n + 1, Len(line)) ELSE <<>>
    /\ UNCHANGED <<waiting, input, key_str, mixed, key>>

LineReturn ==
    /\ buffer # NoLine
    /\ line = <<>>
    /\ buffer' = NoLine
    /\ UNCHANGED <<waiting, input, key_str, mixed, key, line>>

TtyNext == Press \/ ReadKey \/ LineBegin \/ LinePiece \/ LineReturn

TtySpec == TtyInit /\ [][TtyNext]_ttyVars

-----------------------------------------------------------------------------
TtyTypeOK ==
    /\ waiting \in Seq(Typed)
    /\ input \in Seq(0 .. 255)
    /\ key_str \in Seq(0 .. 255) /\ Len(key_str) < 8
    /\ mixed \in BOOLEAN
    /\ \A m \in {"marks", "pressed"} :
        key[m] \subseteq {"is_char", "is_func", "shift", "alt", "ctrl"}
    /\ line \in Seq({"c", "\r", "\n"})
    /\ buffer.total \in Nat /\ buffer.room \in Nat

(* For a program that reads no later than the next key after a sequence,   *)
(* every key is reported with its kind and modifiers, in the order pressed *)
(* and with characters that came in one go.  A line is read to its end and *)
(* without it, whatever number of buffers it fills, unless its "\r" is the *)
(* last byte of a buffer.                                                  *)
InputExact ==
    /\ ~mixed => key.marks = key.pressed
    /\ buffer # NoLine /\ line = <<>> /\ ~buffer.cut => buffer.total = buffer.entered
=============================================================================
