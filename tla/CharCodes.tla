------------------------------- MODULE CharCodes -------------------------------
(****************************************************************************)
(* lang/cxx: the codes of a text.  A text of 8 bit characters is utf-8; one *)
(* of 16 or 32 bit characters has one number per character.  Texts are      *)
(* converted between them, and bytes are written as base64 and as the       *)
(* escapes of an uri and read back.  At the end: the digest of a message.   *)
(****************************************************************************)
EXTENDS Integers, SequencesExt

CONSTANTS
    Byte,           \* bytes the given sequences are made of
    Unit16, Unit32, \* characters of 16 and of 32 bits (31 used)
    Typed64,        \* base64 characters typed by hand
    TypedUri,       \* characters of an uri typed by hand
    MaxGiven        \* bound: the length of what is given or typed, below 7

ASSUME CodesAssumption == MaxGiven \in 1 .. 6 /\ Byte \subseteq 0 .. 255

VARIABLES
    given,          \* the sequence to be written, or the one that was typed
    form,           \* what was done with it
    coded,          \* what was written
    back            \* what was read from it

codesVars == <<given, form, coded, back>>

Unwritten == -1     \* room that was allocated and not written
NoSlip    == -1     \* not_exist as the index of an error: there is none
Beyond    == -2     \* the text is read behind its end
Endless   == -4     \* the conversion never ends

CodeWord(items, slip) == [items |-> items, slip |-> slip]
NothingRead       == CodeWord(<<>>, -3)
CodeSum(a, n)     == FoldLeft(LAMBDA t, i : t + a[i], 0, [i \in 1 .. n |-> i])
Filled(s, n)      == s \o [i \in 1 .. n - Len(s) |-> Unwritten]

------------------------------------------------------------------------------
(* utf-8: byte 0 tells how many there are, the others have 6 bits each      *)
UnitBytes(u) ==
    CASE u < 128      -> 1
      [] u \in 128 .. 2047           -> 2
      [] u \in 2048 .. 65535         -> 3
      [] u \in 65536 .. 1114111      -> 4
      [] u \in 1114112 .. 67108863   -> 5
      [] OTHER                       -> 6

(* 7 - index_of_last_reset: the number of leading ones, 1 for 10xxxxxx      *)
LeadBytes(b) ==
    CASE b < 192 -> 1 [] b \in 192 .. 223 -> 2 [] b \in 224 .. 239 -> 3 [] b \in 240 .. 247 -> 4
      [] b \in 248 .. 251 -> 5 [] b \in 252 .. 253 -> 6 [] b = 254 -> 7 [] b = 255 -> 8
Sextet(v, k) == (v \div 64 ^ k) % 64

(* encode_first_as<char> of a wide character                                *)
Utf8_LowFirst(u) ==
    LET n == UnitBytes(u)
    IN  [i \in 1 .. n |-> IF i > 1 THEN 128 + Sextet(u, i - 2)
                          ELSE IF n = 1 THEN u ELSE 256 - 2 ^ (8 - n) + u \div 64 ^ (n - 1)]
Utf8(u) ==
    LET n == UnitBytes(u)
    IN  [i \in 1 .. n |-> IF i > 1 THEN 128 + Sextet(u, n - i)
                          ELSE IF n = 1 THEN u ELSE 256 - 2 ^ (8 - n) + u \div 64 ^ (n - 1)]

(* encode_first_as<char16_t>, <char32_t> of the bytes s: the character, none*)
(* if bytes are missing or it is too large, and how many bytes to skip      *)
FirstUnit(s, largest) ==
    LET n == LeadBytes(s[1])
        u == IF n = 1 THEN s[1]
             ELSE (s[1] % 2 ^ (7 - n)) * 64 ^ (n - 1)
                  + CodeSum([i \in 1 .. n |-> IF i = 1 THEN 0 ELSE (s[i] % 64) * 64 ^ (n - i)], n)
    IN  CASE n > Len(s)  -> [unit |-> <<>>, skip |-> n]
          [] n <= Len(s) -> [unit |-> IF u > largest THEN <<>> ELSE <<u>>, skip |-> n]

(* The wide characters of the text s, one first character after the other   *)
UnitsOf(s, largest) ==
    LET f[i \in 1 .. Len(s) + 8] ==
            IF i > Len(s) THEN <<>>
            ELSE LET one == FirstUnit(SubSeq(s, i, Len(s)), largest) IN one.unit \o f[i + one.skip]
    IN  f[1]

(* length_if_item_as: bytes of wide characters, characters of bytes          *)
BytesOf(w) == FlattenSeq([i \in 1 .. Len(w) |-> Utf8(w[i])])
BytesNeeded(w) == CodeSum([i \in 1 .. Len(w) |-> UnitBytes(w[i])], Len(w))
UnitsNeeded(s) ==
    LET f[i \in 1 .. Len(s) + 8] == IF i > Len(s) THEN 0 ELSE 1 + f[i + LeadBytes(s[i])]
    IN  f[1]

(* encode_item_as steps through its source by the length of what it wrote   *)
(* and counts what was to be skipped: bytes in front of the next character  *)
(* are taken again, wide characters are left out.                           *)
ToUnits(s, largest) ==
    LET f[p \in 1 .. Len(s) + 1, i \in 0 .. 2 * Len(s) + 8] ==
            IF i >= Len(s) THEN CodeWord(<<>>, NoSlip)
            ELSE IF LeadBytes(s[p]) = 8 THEN CodeWord(<<>>, Endless)    \* 3 bits keep the skip
            ELSE LET one  == FirstUnit(SubSeq(s, p, Len(s)), largest)
                     rest == f[p + Len(one.unit), i + one.skip]
                 IN  CodeWord(one.unit \o rest.items, rest.slip)
    IN  CodeWord(Filled(f[1, 0].items, UnitsNeeded(s)), f[1, 0].slip)
ToBytes(w) ==
    LET n == Len(w)
        f[p \in 1 .. 6 * n + 1, i \in 0 .. n] ==
            IF i = n THEN CodeWord(<<>>, NoSlip)
            ELSE IF p > n THEN CodeWord(<<>>, Beyond)
            ELSE LET rest == f[p + UnitBytes(w[p]), i + 1] IN CodeWord(Utf8(w[p]) \o rest.items, rest.slip)
    IN  f[1, 0]
(* Characters of 32 bits become 65535 when they are too large for 16         *)
Saturated(w) == [i \in 1 .. Len(w) |-> IF w[i] > 65535 THEN 65535 ELSE w[i]]

------------------------------------------------------------------------------
(* base64: a character is its number in the alphabet, 64 is '=', 65 others   *)
Equals == 64
Bits24(s, i) == s[i] * 65536 + s[i + 1] * 256 + s[i + 2]
Sextets_LowBits(s, i, n) ==
    LET temp == IF n = 1 THEN s[i] ELSE s[i] * 256 + s[i + 1]
    IN  [k \in 1 .. n + 1 |-> Sextet(temp, n + 1 - k)]
Sextets(s, i, n) ==     \* the last n bytes, n below 3, from i on
    LET temp == IF n = 1 THEN s[i] * 65536 ELSE s[i] * 65536 + s[i + 1] * 256
    IN  [k \in 1 .. n + 1 |-> Sextet(temp, 4 - k)]
Base64(s, padded) ==
    LET n    == Len(s)
        full == FlattenSeq([k \in 1 .. n \div 3 |->
                    [j \in 1 .. 4 |-> Sextet(Bits24(s, 3 * k - 2), 4 - j)]])
        tail == IF n % 3 = 0 THEN <<>> ELSE Sextets(s, n - (n % 3) + 1, n % 3)
        pads == IF padded /\ tail /= <<>> THEN 4 - Len(tail) ELSE 0
    IN  full \o tail \o [k \in 1 .. pads |-> Equals]

(* The room is two or one bytes more than the text stands for, and as many   *)
(* bytes are written for the last characters as there are characters.  A     *)
(* text of four '=' or more and nothing else has its error at uxx(-1).       *)
ReadBase64(t) ==
    LET kept == {i \in 1 .. Len(t) : t[i] /= Equals}
        last == IF kept = {} THEN 0 ELSE CHOOSE i \in kept : \A k \in kept : k <= i
        bad  == {i \in 1 .. last : t[i] > 63}
        rest == last % 4
        at   == last - rest
        room == (3 * last) \div 4 + ((3 * last) % 4)
        Four(k) == CodeSum([j \in 1 .. 4 |-> t[4 * k - 4 + j] * 64 ^ (4 - j)], 4)
        tail == CodeSum([k \in 1 .. rest |-> t[at + k] * 64 ^ (4 - k)], rest)
    IN  CASE Len(t) - last > 3 -> CodeWord(<<>>, last - 1)
          [] Len(t) - last <= 3 /\ bad /= {} ->
                 CodeWord(<<>>, (CHOOSE i \in bad : \A k \in bad : i <= k) - 1)
          [] OTHER ->
                 CodeWord(Filled(FlattenSeq([k \in 1 .. at \div 4 |->
                                 [j \in 1 .. 3 |-> (Four(k) \div 256 ^ (3 - j)) % 256]])
                             \o [j \in 1 .. rest |-> (tail \div 256 ^ (3 - j)) % 256],
                             room), NoSlip)

------------------------------------------------------------------------------
(* uri: '%' and two digits for a byte that is not one of the characters kept *)
Percent  == 37
UriKept  == {33, 95, 126} \cup 39 .. 42 \cup {45, 46} \cup 48 .. 57 \cup 65 .. 90 \cup 97 .. 122
HexChar(d)  == IF d < 10 THEN 48 + d ELSE 55 + d
HexValue(c) == CASE c \in 48 .. 57 -> c - 48 [] c \in 65 .. 70 -> c - 55 [] c \in 97 .. 102 -> c - 87
                 [] OTHER -> -1
Escape(b)   == <<Percent, HexChar(b \div 16), HexChar(b % 16)>>
Uri_AsciiBare(s) == FlattenSeq([i \in 1 .. Len(s) |->
    CASE s[i] < 128 -> <<s[i]>>
      [] s[i] > 255 -> FlattenSeq([k \in 1 .. UnitBytes(s[i]) |-> Escape(Utf8(s[i])[k])])
      [] OTHER      -> Escape(s[i])])
Uri(s) == FlattenSeq([i \in 1 .. Len(s) |->
    CASE s[i] \in UriKept -> <<s[i]>>
      [] s[i] > 255       -> FlattenSeq([k \in 1 .. UnitBytes(s[i]) |-> Escape(Utf8(s[i])[k])])
      [] OTHER            -> Escape(s[i])])

(* The first pass: the index of the error, or of none, and the room          *)
UriCheck(t) ==
    LET n == Len(t)
        f[i \in 1 .. n + 1, room \in 0 .. n] ==
            IF i > n THEN CodeWord(room, NoSlip)
            ELSE IF i + 2 > n \/ t[i] /= Percent
                 THEN IF t[i] \in UriKept THEN f[i + 1, room + 1] ELSE CodeWord(room, i - 1)
            ELSE IF HexValue(t[i + 1]) < 0 THEN CodeWord(room, i)
            ELSE IF HexValue(t[i + 2]) < 0 THEN CodeWord(room, i + 1)
            ELSE f[i + 3, room + 1]
    IN  f[1, 0]

(* Into characters of one byte: an escape is one of them                     *)
EscapeAt(t, i) == 16 * HexValue(t[i + 1]) + HexValue(t[i + 2])
UriBytes(t) ==
    LET f[i \in 1 .. Len(t) + 1] ==
            IF i > Len(t) THEN <<>>
            ELSE IF t[i] = Percent THEN <<EscapeAt(t, i)>> \o f[i + 3] ELSE <<t[i]>> \o f[i + 1]
    IN  f[1]

(* Into wide characters: an escape from 128 on says how many follow it, and  *)
(* they are read whether or not the text has them.                           *)
UriUnits(t, largest) ==
    LET n == Len(t)
        f[i \in 1 .. n + 1] ==
            IF i > n THEN CodeWord(<<>>, NoSlip)
            ELSE LET first == IF t[i] = Percent THEN EscapeAt(t, i) ELSE t[i]
                     need  == IF t[i] = Percent /\ first > 127 THEN LeadBytes(first) - 1 ELSE 0
                     at    == i + 3
                     bad   == {k \in at .. at + 3 * need - 1 :
                                 \/ k > n
                                 \/ (k - at) % 3 = 0 /\ t[k] /= Percent
                                 \/ (k - at) % 3 > 0 /\ HexValue(t[k]) < 0}
                     worst == CHOOSE k \in bad : \A l \in bad : k <= l
                     one   == FirstUnit([k \in 1 .. need + 1 |->
                                  IF k = 1 THEN first ELSE EscapeAt(t, at + 3 * (k - 2))], largest)
                     rest  == f[IF t[i] = Percent THEN at + 3 * need ELSE i + 1]
                 IN  CASE bad /= {} -> CodeWord(<<>>, IF worst > n THEN Beyond ELSE worst - 1)
                       [] bad = {} /\ first < 128 -> CodeWord(<<first>> \o rest.items, rest.slip)
                       [] bad = {} /\ first > 127 /\ one.unit = <<>> -> CodeWord(<<>>, at - 1)
                       [] OTHER -> CodeWord(one.unit \o rest.items, rest.slip)
    IN  f[1]

ReadUri(t, largest) ==
    LET check == UriCheck(t)
        read  == UriUnits(t, largest)
    IN  CASE check.slip /= NoSlip -> CodeWord(<<>>, check.slip)
          [] check.slip = NoSlip /\ largest = 255 -> CodeWord(UriBytes(t), NoSlip)
          [] check.slip = NoSlip /\ largest > 255 /\ read.slip /= NoSlip -> CodeWord(<<>>, read.slip)
          [] OTHER -> CodeWord(Filled(read.items, check.items), NoSlip)

------------------------------------------------------------------------------
CodesInit == given = <<>> /\ form = "none" /\ coded = <<>> /\ back = NothingRead

Write(f, set, Code(_)) ==
    \E s \in UNION {[1 .. n -> set] : n \in 0 .. MaxGiven} :
        /\ form = "none"
        /\ given' = s /\ form' = f /\ coded' = Code(s) /\ UNCHANGED back
WriteBase64    == Write("base64", Byte, LAMBDA s : Base64(s, TRUE))
WriteBase64Uri == Write("base64uri", Byte, LAMBDA s : Base64(s, FALSE))
TypeBase64     == Write("typed64", Typed64, LAMBDA s : s)
WriteUri       == Write("uri8", Byte, Uri) \/ Write("uri16", Unit16, Uri)
TypeUri        == Write("typeduri", TypedUri, LAMBDA s : s)
WriteUtf8      == Write("utf16", Unit16, BytesOf) \/ Write("utf32", Unit32, BytesOf)
EncodeItems    == Write("items", Byte, LAMBDA s : s)
                  \/ Write("items16", Unit16, LAMBDA s : s) \/ Write("items32", Unit32, LAMBDA s : s)

Largest == CASE form \in {"uri16", "utf16"} -> 65535 [] form = "utf32" -> 2147483647 [] OTHER -> 255
Read ==
    /\ form /= "none" /\ back = NothingRead
    /\ back' = CASE form \in {"base64", "base64uri", "typed64"} -> ReadBase64(coded)
                 [] form \in {"uri8", "uri16", "typeduri"}      -> ReadUri(coded, Largest)
                 [] form \in {"utf16", "utf32"}                 -> CodeWord(UnitsOf(coded, Largest), NoSlip)
                 [] form = "items"                              -> ToUnits(coded, 65535)
                 [] form = "items16"                            -> ToBytes(coded)
                 [] OTHER                                       -> CodeWord(Saturated(coded), NoSlip)
    /\ UNCHANGED <<given, form, coded>>

CodesNext ==
    \/ WriteBase64
    \/ WriteBase64Uri
    \/ TypeBase64
    \/ WriteUri
    \/ TypeUri
    \/ WriteUtf8
    \/ EncodeItems
    \/ Read

CodesSpec == CodesInit /\ [][CodesNext]_codesVars
------------------------------------------------------------------------------
CodesTypeOK ==
    /\ \A i \in DOMAIN coded : coded[i] >= 0
    /\ back.slip \in -4 .. Len(coded)
    /\ back.slip >= 0 => back.items = <<>>

IsRead == back /= NothingRead

(* What is written as base64 is read back, followed by what was never part   *)
(* of it when its length is no multiple of three; a typed text is refused at *)
(* its first strange character.                                              *)
Base64Back ==
    /\ form \in {"base64", "base64uri"} /\ IsRead =>
           /\ back.slip = NoSlip /\ IsPrefix(given, back.items)
           /\ Len(back.items) = 3 * ((Len(given) + 2) \div 3)
    /\ form = "typed64" /\ IsRead /\ back.slip >= 0 =>
           \A i \in 1 .. back.slip : given[i] < 64 \/ given[i + 1] = Equals

(* An uri of bytes is read back as they were; one of wide characters too,    *)
(* unless it has one from 192 to 255, which is escaped as if it were a byte. *)
UriBack ==
    /\ form = "uri8" /\ IsRead => back = CodeWord(given, NoSlip)
    /\ form = "uri16" /\ IsRead /\ (\A i \in DOMAIN given : given[i] \notin 192 .. 255) =>
           back.slip = NoSlip /\ IsPrefix(given, back.items)

(* Wide characters written as utf-8 are read back one by one, and the room   *)
(* that is computed in front is the room they take.                          *)
Utf8Back ==
    form \in {"utf16", "utf32"} /\ IsRead =>
        /\ back = CodeWord(given, NoSlip)
        /\ Len(coded) = BytesNeeded(given) /\ UnitsNeeded(coded) = Len(given)
------------------------------------------------------------------------------
(****************************************************************************)
(* algo/md5.hpp: the message is gathered in m_v, a block of 16 words, and   *)
(* every full block is mixed into the four words of the digest.  The mixing *)
(* is taken as what cannot be undone or mistaken: the digest is the list of *)
(* the words that were read, in their order.  A word has WordBytes bytes,   *)
(* the length at the end of the last block two words.                       *)
(****************************************************************************)
CONSTANTS WordBytes, Chunk,     \* the lengths that are appended
          MaxMessage            \* bound: the longest message
ASSUME DigestAssumption == WordBytes \in Nat \ {0} /\ Chunk \subseteq Nat /\ MaxMessage \in Nat

VARIABLES
    m_v, m_i, digest,
    message,                    \* how many bytes were appended; byte k has the value k
    straight                    \* every block that was filled by an append was empty before it

digestVars == <<m_v, m_i, digest, message, straight>>

BlockBytes  == 16 * WordBytes
LengthBytes == 2 * WordBytes
EndMark     == -1                       \* 0x80
LengthOfText(n) == -2 - n               \* the bytes of the length 8 * n, all alike
Unset(n)    == [k \in 1 .. n |-> 0]
Bytes(from, n) == [k \in 1 .. n |-> from + k]
------------------------------------------------------------------------------
(* Mistake: a word is read twice in the second round                        *)
Scheduled_Twice(round, step) ==
    CASE round = 1 -> step
      [] round = 2 -> (5 * step + 1) % 15
      [] round = 3 -> (3 * step + 5) % 16
      [] round = 4 -> (7 * step) % 16
(* FFF, GGG, HHH and III: the word that each of their 16 steps reads        *)
Scheduled(round, step) ==
    CASE round = 1 -> step
      [] round = 2 -> (5 * step + 1) % 16
      [] round = 3 -> (3 * step + 5) % 16
      [] round = 4 -> (7 * step) % 16

WordIn(block, w) == SubSeq(block, WordBytes * w + 1, WordBytes * (w + 1))

(* update *)
Mixed(sum, block) ==
    Append(sum, [round \in 1 .. 4 |-> [step \in 0 .. 15 |-> WordIn(block, Scheduled(round, step))]])

Overlaid(block, at, bytes) ==
    [k \in 1 .. BlockBytes |-> IF k - at \in 1 .. Len(bytes) THEN bytes[k - at] ELSE block[k]]

(* append_core: blocks are filled and mixed as long as the bytes suffice,   *)
(* the rest is put at the beginning of the block.  m_i grows by the length  *)
(* of what is left of the source, not of what was given.                    *)
RECURSIVE AppendCore(_, _)
AppendCore(s, source) ==
    LET room   == BlockBytes - s.offset
        block  == Overlaid(s.v, s.offset, SubSeq(source, 1, room))
        rest   == SubSeq(source, room + 1, Len(source))
    IN  IF Len(source) >= room
        THEN AppendCore([s EXCEPT !.v = block, !.sum = Mixed(@, block), !.offset = 0], rest)
        ELSE [s EXCEPT !.v = Overlaid(@, s.offset, source), !.i = @ + Len(source)]

(* Mistake: the byte behind the message may be the first of the length      *)
Md5Result_OneBlock(v, i, sum) ==
    LET at   == i % BlockBytes
        text == Overlaid(Unset(BlockBytes), 0, SubSeq(v, 1, at) \o <<EndMark>>)
        tail(block) == Overlaid(block, BlockBytes - LengthBytes, [k \in 1 .. LengthBytes |-> LengthOfText(i)])
    IN  IF at + LengthBytes <= BlockBytes THEN Mixed(sum, tail(text))
        ELSE Mixed(Mixed(sum, text), tail(Unset(BlockBytes)))
(* operator md5_result: the end mark and the length are put into this block *)
(* or, where there is no room for both, into this and the next one          *)
Md5Result(v, i, sum) ==
    LET at   == i % BlockBytes
        text == Overlaid(Unset(BlockBytes), 0, SubSeq(v, 1, at) \o <<EndMark>>)
        tail(block) == Overlaid(block, BlockBytes - LengthBytes, [k \in 1 .. LengthBytes |-> LengthOfText(i)])
    IN  IF at + LengthBytes + 1 <= BlockBytes THEN Mixed(sum, tail(text))
        ELSE Mixed(Mixed(sum, text), tail(Unset(BlockBytes)))
------------------------------------------------------------------------------
DigestInit == m_v = Unset(BlockBytes) /\ m_i = 0 /\ digest = <<>> /\ message = 0 /\ straight = TRUE

Appending(n) ==
    LET offset == m_i % BlockBytes
        s == AppendCore([v |-> m_v, i |-> m_i, sum |-> digest, offset |-> offset], Bytes(message, n))
    IN  /\ message + n <= MaxMessage
        /\ m_v' = s.v /\ m_i' = s.i /\ digest' = s.sum
        /\ message' = message + n
        /\ straight' = (straight /\ (offset = 0 \/ offset + n < BlockBytes))

ResetDigest ==
    /\ message > 0
    /\ m_v' = Unset(BlockBytes) /\ m_i' = 0 /\ digest' = <<>> /\ message' = 0 /\ straight' = TRUE

DigestNext == ResetDigest \/ \E n \in Chunk : Appending(n)
DigestSpec == DigestInit /\ [][DigestNext]_digestVars
------------------------------------------------------------------------------
DigestTypeOK ==
    /\ Len(m_v) = BlockBytes /\ m_i \in 0 .. message
    /\ message \in 0 .. MaxMessage /\ straight \in BOOLEAN

(* The blocks of a message of n bytes that says it is m bytes long          *)
PaddedBlocks(n, m) ==
    LET zeros == (2 * BlockBytes - ((n + 1 + LengthBytes) % BlockBytes)) % BlockBytes
        all   == Bytes(0, n) \o <<EndMark>> \o Unset(zeros) \o [k \in 1 .. LengthBytes |-> LengthOfText(m)]
    IN  [b \in 1 .. Len(all) \div BlockBytes |-> SubSeq(all, BlockBytes * (b - 1) + 1, BlockBytes * b)]

DigestOf(n, m) == FoldLeft(Mixed, <<>>, PaddedBlocks(n, m))

(* No word of a block is left out of any round, and the digest of a message *)
(* that fills no block is that of the message, whatever pieces it came in.  *)
(* From the first full block on the code is wrong, as m_i grows by what is  *)
(* left of the source only (md5.hpp:257): what is still said is that the    *)
(* blocks are those of the message, but for the length in the last one, as  *)
(* long as no append filled a block that others had begun (`straight`).     *)
DigestExact ==
    /\ \A round \in 1 .. 4 : {Scheduled(round, step) : step \in 0 .. 15} = 0 .. 15
    /\ message < BlockBytes => Md5Result(m_v, m_i, digest) = DigestOf(message, message)
    /\ straight => Md5Result(m_v, m_i, digest) = DigestOf(message, m_i)

(* The digest of a message of any length.  The code does not keep this.     *)
DigestOfMessage == Md5Result(m_v, m_i, digest) = DigestOf(message, message)
==============================================================================
