------------------------------- MODULE ParseJson -------------------------------
(****************************************************************************)
(* lang/cxx/parse_json.hpp: one loop reads a json text and builds its tree  *)
(* in a single buffer of estimated size, structs from the end down, strings *)
(* from the start up.  The text is a sequence of tokens, chosen one by one  *)
(* as the loop asks for them:                                               *)
(*   "str"   a string         "cut"  one without end, or with a bad escape  *)
(*   "num"   a number, true, false or null        "junk"  anything else     *)
(*   "lost"  what parse_number steps over without a value: a lone sign, or  *)
(*           a number of 19 digits                                          *)
(* White space, and which key, string or number it is, make no difference.  *)
(****************************************************************************)
EXTENDS Naturals, Sequences, FiniteSets

CONSTANTS
    MaxTokens,      \* bound: texts of so many tokens before the end
    JsonDepth       \* json_depth: 256 in the source

ASSUME JsonAssumption == MaxTokens \in Nat /\ JsonDepth \in Nat \ {0, 1}

VARIABLES
    json,           \* history: what was read, the current token last
    level,          \* the open containers, outermost first: [type, items]
    json_op,        \* op: fetch_key or fetch_value
    except_next,
    backtracking,   \* in the loop that closes containers (590)
    used,           \* bytes of the buffer that structs and strings take
    tree,           \* the value of the root node
    result,         \* "reading", "success" or "failed"
    confused        \* history: an item of an array was looked for as a member

jsonVars == <<json, level, json_op, except_next, backtracking, used, tree, result, confused>>

Token == {"{", "}", "[", "]", ",", ":", "str", "num", "lost", "cut", "junk", "end"}
Word  == 8                      \* bytes of a machine word
ArrayBytes  == 2 * Word         \* sizeof(json_array)
ObjectBytes == 3 * Word         \* sizeof(json_object)

(* A node that was made for an element that did not come                    *)
Blank == [key |-> "none", value |-> [type |-> "none"]]
Leaf(token) == [type |-> token]
Container(type, items) == [type |-> type, items |-> items]

Front1(s) == SubSeq(s, 1, Len(s) - 1)
Top(s)    == s[Len(s)]
c         == Top(json)

JsonInit ==
    /\ json \in {<<t>> : t \in Token}
    /\ level = <<>> /\ json_op = "fetch_value" /\ except_next = FALSE /\ backtracking = FALSE
    /\ used = ArrayBytes /\ tree = Leaf("none") /\ result = "reading" /\ confused = FALSE

(* The token is done with, and the next one is looked at.                   *)
Advance == /\ Len(json) <= MaxTokens
           /\ \E t \in Token : json' = Append(json, t) /\ (Len(json) = MaxTokens => t = "end")

Fail == result' = "failed" /\ UNCHANGED <<json, level, json_op, except_next, backtracking, used, tree, confused>>

(* The last item of the innermost container gets a value (the root, where   *)
(* none is open).                                                           *)
GivenTokens(value) ==
    IF level = <<>> THEN level' = level /\ tree' = value
    ELSE /\ level' = [level EXCEPT ![Len(level)].items[Len(Top(level).items)].value = value]
         /\ UNCHANGED tree

(* The mistake of a level that is opened without a look at the depth        *)
Fetching_Deeper(what) == result = "reading" /\ ~backtracking /\ json_op = what

Fetching(what) == result = "reading" /\ ~backtracking /\ json_op = what /\ Len(level) < JsonDepth - 1

(* Mistakes, named after the definition they stand for.                     *)
CreateElement_KeepsOp ==
    /\ Fetching("fetch_value") /\ c \in {"{", "["}
    /\ level' = Append(level, Container(c, <<Blank>>))
    /\ except_next' = FALSE
    /\ used' = used + (IF c = "{" THEN ObjectBytes ELSE ArrayBytes)
    /\ Advance /\ UNCHANGED <<json_op, backtracking, tree, result, confused>>

NewItem_Both(type) == ObjectBytes + ArrayBytes

(* create_element: a child, with its first item                             *)
CreateElement ==
    /\ Fetching("fetch_value") /\ c \in {"{", "["}
    /\ level' = Append(level, Container(c, <<Blank>>))
    /\ json_op' = IF c = "{" THEN "fetch_key" ELSE "fetch_value"
    /\ except_next' = FALSE
    /\ used' = used + (IF c = "{" THEN ObjectBytes ELSE ArrayBytes)
    /\ Advance /\ UNCHANGED <<backtracking, tree, result, confused>>

(* fetch_str and fetch                                                      *)
FetchValue ==
    /\ Fetching("fetch_value") /\ level # <<>>
    /\ c \in {"str", "num"}
    /\ GivenTokens(Leaf(c))
    /\ except_next' = FALSE /\ backtracking' = TRUE
    /\ used' = used + (IF c = "str" THEN 1 ELSE 0)     \* of a string without characters
    /\ Advance /\ UNCHANGED <<json_op, result, confused>>

(* No value: the array may be empty, if nothing came before.                *)
FetchNothing ==
    /\ Fetching("fetch_value") /\ level # <<>>
    /\ c \notin {"{", "[", "str", "num", "cut"} /\ ~except_next
    /\ except_next' = TRUE /\ backtracking' = TRUE
    /\ IF c = "lost" THEN Advance ELSE UNCHANGED json
    /\ UNCHANGED <<level, json_op, used, tree, result, confused>>

(* The key of an item, with the colon behind it                             *)
FetchKey ==
    /\ Fetching("fetch_key") /\ c = "str"
    /\ Len(json) < MaxTokens
    /\ used' = used + 1
    /\ \E colon \in Token :
        IF colon # ":"
        THEN /\ json' = Append(json, colon) /\ result' = "failed"
             /\ UNCHANGED <<level, json_op, except_next>>
        ELSE /\ \E t \in Token : json' = json \o <<colon, t>> /\ (Len(json) = MaxTokens - 1 => t = "end")
             /\ level' = [level EXCEPT ![Len(level)].items[Len(Top(level).items)].key = "str"]
             /\ json_op' = "fetch_value" /\ except_next' = TRUE
             /\ UNCHANGED result
    /\ UNCHANGED <<backtracking, tree, confused>>

(* No key: the object is taken to be empty                                  *)
FetchNoKey ==
    /\ Fetching("fetch_key") /\ c \notin {"str", "cut"}
    /\ except_next' = TRUE /\ backtracking' = TRUE
    /\ UNCHANGED <<json, level, json_op, used, tree, result, confused>>

FetchFails ==
    /\ result = "reading" /\ ~backtracking
    /\ \/ Len(level) = JsonDepth - 1
       \/ json_op = "fetch_value" /\ c \notin {"{", "["} /\ level = <<>>
       \/ c = "cut"
       \/ json_op = "fetch_value" /\ c \notin {"{", "[", "str", "num"} /\ except_next
       \/ json_op = "fetch_key" /\ c = "str" /\ Len(json) = MaxTokens + 1
    /\ Fail

(* A terminator closes the innermost container, whichever it is             *)
Close ==
    /\ result = "reading" /\ backtracking /\ level # <<>> /\ c \in {"}", "]"}
    /\ c = IF Top(level).type = "{" THEN "}" ELSE "]"
    /\ LET closed == Top(level)
           rest   == Front1(level)
       IN  IF rest = <<>> THEN level' = rest /\ tree' = closed
           ELSE /\ level' = [rest EXCEPT ![Len(rest)].items[Len(Top(rest).items)].value = closed]
                /\ UNCHANGED tree
    /\ except_next' = FALSE
    /\ Advance /\ UNCHANGED <<json_op, backtracking, used, result, confused>>

NewItem(type) == IF type = "{" THEN ObjectBytes ELSE ArrayBytes

(* A comma: one more item of the container.  What is fetched next changes   *)
(* only in an object.                                                       *)
NextItem ==
    /\ result = "reading" /\ backtracking /\ level # <<>> /\ c = "," /\ ~except_next
    /\ level' = [level EXCEPT ![Len(level)].items = Append(@, Blank)]
    /\ json_op' = IF Top(level).type = "{" THEN "fetch_key" ELSE json_op
    /\ used' = used + NewItem(Top(level).type)
    /\ except_next' = TRUE /\ backtracking' = FALSE
    /\ confused' = (confused \/ (Top(level).type = "[" /\ json_op = "fetch_key"))
    /\ Advance /\ UNCHANGED <<tree, result>>

Finish ==
    /\ result = "reading" /\ backtracking /\ level = <<>> /\ c = "end"
    /\ result' = "success"
    /\ UNCHANGED <<json, level, json_op, except_next, backtracking, used, tree, confused>>

BacktrackFails ==
    /\ result = "reading" /\ backtracking
    /\ IF level = <<>> THEN c # "end"
       ELSE \/ c \notin {"}", "]", ","}
            \/ c = "," /\ except_next
            \/ c \in {"}", "]"} /\ c # (IF Top(level).type = "{" THEN "}" ELSE "]")
    /\ Fail

JsonNext ==
    \/ CreateElement \/ FetchValue \/ FetchNothing \/ FetchKey \/ FetchNoKey \/ FetchFails
    \/ Close \/ NextItem \/ Finish \/ BacktrackFails

JsonSpec == JsonInit /\ [][JsonNext]_jsonVars
--------------------------------------------------------------------------------
(* What a json text is: all values with exactly n tokens, each with the     *)
(* tree that the text describes.  Two texts that json does not have are     *)
(* among them, as the code takes them: a comma behind the last member of an *)
(* object, and a lone "lost" in brackets, for an empty array.               *)
PairUp(s, t) == [text |-> s, tree |-> t]

JsonValue[n \in 1 .. MaxTokens] ==
    LET (* the items of a container, with k tokens, separated by commas     *)
        member(k)  == IF k < 3 THEN {} ELSE
            {PairUp(<<"str", ":">> \o v.text, [key |-> "str", value |-> v.tree]) : v \in JsonValue[k - 2]}
        element(k) == {PairUp(v.text, [key |-> "none", value |-> v.tree]) : v \in JsonValue[k]}
        listed(Item(_)) ==
            LET lists[k \in 0 .. n] ==
                    IF k = 0 THEN {} ELSE
                    {PairUp(i.text, <<i.tree>>) : i \in Item(k)} \cup
                    UNION {{PairUp(l.text \o <<",">> \o i.text, Append(l.tree, i.tree)) :
                                l \in lists[k - 1 - j], i \in Item(j)} : j \in 1 .. k - 2}
            IN  lists
        closed(k, type, Item(_)) ==
            {PairUp(<<type>> \o l.text \o <<IF type = "{" THEN "}" ELSE "]">>, Container(type, l.tree)) :
                l \in listed(Item)[k]}
    IN  CASE n = 1 -> {PairUp(<<"str">>, Leaf("str")), PairUp(<<"num">>, Leaf("num"))}
          [] n = 2 -> {PairUp(<<"{", "}">>, Container("{", <<>>)),
                       PairUp(<<"[", "]">>, Container("[", <<>>))}
          [] OTHER ->
                closed(n - 2, "[", element) \cup closed(n - 2, "{", member)
                \cup {PairUp(Front1(o.text) \o <<",", "}">>, o.tree) :
                        o \in IF n = 3 THEN {} ELSE closed(n - 3, "{", member)}
                \cup (IF n = 3 THEN {PairUp(<<"[", "lost", "]">>, Container("[", <<>>))} ELSE {})

Document == {PairUp(Append(v.text, "end"), v.tree) :
                v \in {w \in UNION {JsonValue[n] : n \in 1 .. MaxTokens} : w.tree.type \in {"{", "["}}}
Viable   == UNION {{SubSeq(d.text, 1, k) : k \in 1 .. Len(d.text)} : d \in Document}

JsonTypeOK ==
    /\ \A i \in DOMAIN json : json[i] \in Token
    /\ \A i \in DOMAIN level : level[i].type \in {"{", "["} /\ level[i].items # <<>>
    /\ Len(level) < JsonDepth
    /\ json_op \in {"fetch_key", "fetch_value"} /\ except_next \in BOOLEAN /\ backtracking \in BOOLEAN
    /\ result \in {"reading", "success", "failed"}

(* A tree without the items that were made for an element that did not come *)
RECURSIVE WithoutBlanks(_)
WithoutBlanks(value) ==
    IF value.type \notin {"{", "["} THEN value
    ELSE LET come == SelectSeq(value.items, LAMBDA item : item # Blank)
         IN  Container(value.type, [i \in DOMAIN come |-> [come[i] EXCEPT !.value = WithoutBlanks(@)]])

Reads ==
    /\ result = "success" => PairUp(json, WithoutBlanks(tree)) \in Document
    /\ result = "failed"  => json \notin Viable

(* Every text that is accepted is one of the documents, with the tree that  *)
(* it describes, and no text is refused that begins one.  Two things are    *)
(* left out, in which the code is wrong: the item that stays in an empty    *)
(* container (582; EmptyHasNoItems) and the one behind a last comma are not *)
(* counted, and nothing is said once, in an array, a comma was met when     *)
(* `op` was still fetch_key, because what came before it ended in an empty  *)
(* object (630 sets `op` for objects only; ReadsAll).                       *)
JsonExact == ~confused => Reads

(* Every text, those with an empty object in an array too.  The code does   *)
(* not keep this (630).                                                     *)
ReadsAll == Reads

(* estimate_size (363): a struct for every bracket and comma, a byte for    *)
(* every other character that is not punctuation                            *)
EstimateSize ==
    LET bytes(t) == CASE t \in {"{", "[", ","}  -> 1 + ObjectBytes
                      [] t \in {"}", "]", ":"}  -> 0
                      [] t = "str"              -> 2
                      [] t \in {"num", "lost"}  -> 1
                      [] OTHER                  -> 0
        sum[n \in 0 .. Len(json)] == IF n = 0 THEN 0 ELSE sum[n - 1] + bytes(json[n])
    IN  sum[Len(json)]

(* Structs and strings meet in the buffer only by the node of the root,     *)
(* which the estimate does not count (515): what is written never exceeds   *)
(* the estimate by more than its size.                                      *)
RoomButForRoot == used <= EstimateSize + ArrayBytes

(* test/lang/cxx/parse_json.hpp:49 to 55: an empty object and an empty      *)
(* array have length 0.  The code does not keep this (582): they have the   *)
(* item that was made for the first element.                                *)
EmptyHasNoItems ==
    result = "success" /\ json \in {<<"{", "}", "end">>, <<"[", "]", "end">>} => Len(tree.items) = 0
================================================================================
