------------------------------ MODULE MCAlgorithms ------------------------------
(****************************************************************************)
(* One instance of each part that computes: json, texts, numbers as texts,  *)
(* character codes, keys of a terminal, sorting and searching, views of a   *)
(* sequence, dates, files, the virtual processor's instructions and calls,  *)
(* the logic simulator, the registers of a microcontroller and the setup of *)
(* its clocks.  They share no state: `part` says which one runs, the others *)
(* keep their first state.                                                  *)
(****************************************************************************)
EXTENDS ParseJson, CxxText, CharCodes, Terminal, SortSearch, SeqView, Chrono,
        File, NumberText, Vcpu, LogicSim, Stm32Registers

CONSTANT Parts
VARIABLE part

SomeNeedles == {<<1>>, <<2>>, <<1, 2>>, <<2, 1>>, <<1, 1>>, <<1, 1, 2>>, <<1, 2, 3>>, <<>>}
SomeDigits  == {<<0>>, <<1>>, <<1, 2>>, <<1, 2, 5>>, <<7, 0, 1>>, <<9, 8, 7, 6>>}
SomeValues  == {<<>>, <<91>>, <<91, 92>>}

(* Keys with and without modifiers, of every kind of sequence.              *)
Typing(of, code, mods) == [kind |-> of, code |-> code, mods |-> mods]
SomeKeys == {
    Typing("char", 97, {}), Typing("char", 97, {"ctrl"}), Typing("char", 98, {"alt"}),
    Typing("char", 97, {"ctrl", "alt"}), Typing("esc", 0, {}),
    Typing("arrow", 65, {}), Typing("arrow", 80, {"shift"}), Typing("arrow", 68, {"ctrl", "shift", "alt"}),
    Typing("edit", 50, {}), Typing("edit", 51, {"alt"}),
    Typing("func", 53, {}), Typing("func", 52, {"ctrl", "shift"}), Typing("func", 57, {"shift"})}

(* Objects with placeholders: numbers, texts between numbers, one in another *)
SomeHolders == {
    PhNum(27, 16, 16, TRUE, TRUE), PhNum(27, 8, 8, FALSE, TRUE), PhV(<<PhString(<<70, 71>>)>>),
    PhV(<<AlignC(PhNum(5, 2, 8, FALSE, FALSE), 6, Star, Space), PhString(<<>>), PhNum(10, 16, 8, TRUE, FALSE)>>),
    PhV(<<PhString(<<72>>), AlignR(PhV(<<PhNum(7, 10, 8, FALSE, FALSE), PhString(<<73>>)>>), 5, Star)>>)}
SomeFmts == {<<>>, <<Hole>>, <<80, Hole, 81, Hole>>, <<82, 83, 84, 85, 86, 87, 88>>,
             <<Hole, 80, 81, Hole, 82, Hole, 83, Hole>>}

(* Days round the ends of months, of February above all, and of the cycles  *)
(* of 4, 100 and 400 years.                                                 *)
SomeDays   == UNION {0 .. 430, 1090 .. 1500, 36200 .. 36230, 36500 .. 36600, 36880 .. 36900,
                     145720 .. 145800, 146050 .. 146200, 730100 .. 730190}
SomeSteps  == {59, 365, 1461, 36524, 146097}
SomeClocks == {0, 999, 1000, 59999, 3600000, 86399999, 1000000007}

(* A file beside a folder, and one inside it.                               *)
SomePaths == {[folder |-> "top", last |-> "f"], [folder |-> "d", last |-> "g"]}

(* What the call at each place saves and where it goes.                     *)
SomeCall(saves, flg, area) == [saves |-> saves, flags |-> flg, area |-> area]
SomeCalls == [place \in Area \X Position |->
    CASE place = <<0, 1>> -> SomeCall({"a"}, TRUE, 0)
      [] place = <<0, 2>> -> SomeCall({"a"}, FALSE, 1)
      [] place = <<1, 1>> -> SomeCall({}, TRUE, 1)
      [] place = <<1, 2>> -> SomeCall({}, FALSE, 0)]

(* A latch, a ring of three, a gate fed by itself, a chain to a probe.      *)
SomeNets == {
    [kind |-> <<"enand", "enand">>, to |-> << <<2, "b">>, <<1, "b">> >>],
    [kind |-> <<"enor", "enot", "eor">>, to |-> << <<2, "a">>, <<3, "a">>, <<1, "b">> >>],
    [kind |-> <<"enand">>, to |-> << <<1, "b">> >>],
    [kind |-> <<"eand", "enot", "eor", "probe">>,
     to |-> << <<3, "a">>, <<3, "b">>, <<4, "a">>, <<4, "a">> >>]}

(* The accessors that are used a second time before the words are written.  *)
UsedAgain == [fls |-> {"arten"}, rcc |-> {"hseon", "pllrdyc"},
              pwr |-> {"oden", "bre"}, spi |-> {"br", "ds"}, gpio |-> {}]
------------------------------------------------------------------------------
Others(which) ==
    /\ IF which = "json"      THEN TRUE ELSE UNCHANGED jsonVars
    /\ IF which = "text"      THEN TRUE ELSE UNCHANGED textVars
    /\ IF which = "number"    THEN TRUE ELSE UNCHANGED numberVars
    /\ IF which = "codes"     THEN TRUE ELSE UNCHANGED codesVars
    /\ IF which = "tty"       THEN TRUE ELSE UNCHANGED ttyVars
    /\ IF which = "sort"      THEN TRUE ELSE UNCHANGED sortVars
    /\ IF which = "view"      THEN TRUE ELSE UNCHANGED viewVars
    /\ IF which = "date"      THEN TRUE ELSE UNCHANGED chronoVars
    /\ IF which = "file"      THEN TRUE ELSE UNCHANGED fileVars
    /\ IF which = "ph"        THEN TRUE ELSE UNCHANGED phVars
    /\ IF which = "digest"    THEN TRUE ELSE UNCHANGED digestVars
    /\ IF which = "ops"       THEN TRUE ELSE UNCHANGED opsVars
    /\ IF which = "calls"     THEN TRUE ELSE UNCHANGED callVars
    /\ IF which = "logic"     THEN TRUE ELSE UNCHANGED simVars
    /\ IF which = "registers" THEN TRUE ELSE UNCHANGED registerVars
    /\ IF which = "setup"     THEN TRUE ELSE UNCHANGED setupVars

Only(which, action) == part = which /\ UNCHANGED part /\ Others(which) /\ action

(* A part that does not run keeps a first state.                            *)
JsonRests      == json = <<>> /\ level = <<>> /\ json_op = "fetch_value" /\ except_next = FALSE
                  /\ backtracking = FALSE /\ used = 0 /\ tree = Leaf("none")
                  /\ result = "reading" /\ confused = FALSE
SortRests      == list = [i \in {0} |-> 0] /\ sorting = NotSorting
ChronoRests    == elapsed = 0 /\ date = DateOf(0) /\ clock = Midnight /\ total = 0
                  /\ cleared = FALSE
ViewRests      == cells = <<>> /\ view = <<>> /\ edit = Untouched
FileRests      == system = "none" /\ names = <<>> /\ data = <<>> /\ folders = {}
                  /\ open_files = <<>> /\ fd = <<>> /\ path = <<>>
PhRests        == ph = PhString(<<>>) /\ made = NothingMade /\ turns = 0
OpsRests       == reg = <<>> /\ kind = <<>> /\ flag = NoFlag /\ imm = NoImm /\ last = Nothing
CallsRest      == regs = <<>> /\ flags = 0 /\ psm = {} /\ ps = {} /\ pc = <<0, 1>> /\ cs = <<>>
                  /\ saved = <<>> /\ open = <<>> /\ lost = [r \in Register |-> {}]
SimRests       == net = [kind |-> <<>>, to |-> <<>>] /\ img = <<>> /\ in_queue = <<>> /\ que_active = <<>>
                  /\ que_pile = <<>> /\ evaluated = {}
RegistersRest  == chip = "none" /\ start = <<>> /\ device = <<>> /\ written = <<>> /\ told = <<>>
                  /\ flushing = FALSE /\ steps = <<>> /\ calls = 0

AlgorithmsInit ==
    /\ part \in Parts
    /\ TextInit /\ NumberInit /\ CodesInit /\ TtyInit /\ DigestInit /\ SetupInit
    /\ IF part = "json"      THEN JsonInit      ELSE JsonRests
    /\ IF part = "sort"      THEN SortInit      ELSE SortRests
    /\ IF part = "view"      THEN ViewInit      ELSE ViewRests
    /\ IF part = "date"      THEN ChronoInit    ELSE ChronoRests
    /\ IF part = "file"      THEN FileInit      ELSE FileRests
    /\ IF part = "ph"        THEN PhInit        ELSE PhRests
    /\ IF part = "ops"       THEN OpsInit       ELSE OpsRests
    /\ IF part = "calls"     THEN CallsInit     ELSE CallsRest
    /\ IF part = "logic"     THEN SimInit       ELSE SimRests
    /\ IF part = "registers" THEN RegistersInit ELSE RegistersRest

AlgorithmsNext ==
    \/ Only("json", JsonNext)
    \/ Only("text", TextNext)
    \/ Only("number", NumberNext)
    \/ Only("codes", CodesNext)
    \/ Only("tty", TtyNext)
    \/ Only("sort", SortNext)
    \/ Only("view", ViewNext)
    \/ Only("date", ChronoNext)
    \/ Only("file", FileNext)
    \/ Only("ph", PhNext)
    \/ Only("digest", DigestNext)
    \/ Only("ops", OpsNext)
    \/ Only("calls", CallsNext)
    \/ Only("logic", SimNext)
    \/ Only("registers", RegistersNext)
    \/ Only("setup", SetupNext)

algorithmsVars == <<part, jsonVars, textVars, numberVars, codesVars, ttyVars, sortVars, viewVars,
                    chronoVars, fileVars, phVars, digestVars, opsVars, callVars, simVars, registerVars, setupVars>>

AlgorithmsSpec == AlgorithmsInit /\ [][AlgorithmsNext]_algorithmsVars
------------------------------------------------------------------------------
(* The variables of the part that runs have the values of their types.      *)
AlgorithmsTypeOK ==
    /\ part = "json"      => JsonTypeOK
    /\ part = "text"      => TextTypeOK
    /\ part = "number"    => NumberTypeOK
    /\ part = "codes"     => CodesTypeOK
    /\ part = "tty"       => TtyTypeOK
    /\ part = "sort"      => SortTypeOK
    /\ part = "view"      => ViewTypeOK
    /\ part = "date"      => ChronoTypeOK
    /\ part = "file"      => FileTypeOK
    /\ part = "ph"        => PhTypeOK
    /\ part = "digest"    => DigestTypeOK
    /\ part = "ops"       => OpsTypeOK
    /\ part = "calls"     => CallsTypeOK
    /\ part = "logic"     => SimTypeOK
    /\ part = "registers" => RegistersTypeOK
    /\ part = "setup"     => SetupTypeOK

(* Reading gives what the text says.  What each part leaves out, because    *)
(* the code is wrong there or promises nothing, its own comment states:     *)
(*   - a json text gives its tree, in the room that was estimated and the   *)
(*     node of the root (parse_json.hpp); not counting the items of empty   *)
(*     containers (582), and up to a comma behind an empty object (630);    *)
(*   - searches, pieces and edits of a text (lang/cxx) are those of their   *)
(*     definitions; but a search for a text whose characters are not all    *)
(*     different (index_of_first.hpp:62) need only be right if it answers,  *)
(*     a single last piece may be missing, an empty slice and the trimming  *)
(*     of everything are left out;                                          *)
(*   - what was written is read back (strlize.hpp, parse.hpp, urilize.hpp,  *)
(*     base64lize.hpp, encode_first_as.hpp); but not floats from 0.125 to 1 *)
(*     without exponent, whole numbers in letters or with a plus, base64    *)
(*     beyond the given length and wide characters from 192 to 255 in uris; *)
(*   - a terminal's bytes are the keys that were pressed as long as the     *)
(*     program reads in step with them, and a line whose "\r" does not end  *)
(*     a buffer is read to its end (extern.tty.hpp);                        *)
(*   - a text with placeholders is what they stand for, and begins where    *)
(*     its memory does unless an earlier format was padded (ph.hpp:131).    *)
TextsExact ==
    /\ part = "json"   => JsonExact /\ RoomButForRoot
    /\ part = "text"   => SearchExact /\ SplitExact /\ EditExact
    /\ part = "number" => ReadBack /\ ErrorAtFirst
    /\ part = "codes"  => Base64Back /\ UriBack /\ Utf8Back
    /\ part = "tty"    => InputExact
    /\ part = "ph"     => PhExact

(* A machine computes what its parts say: the virtual processor's results   *)
(* and branches are those of the numbers it was given (vcpu.hpp); a         *)
(* device's words hold what every field was last told, in the order a pin   *)
(* needs (define.hpp, fls.hpp ...); the clocks of the setup stay in their   *)
(* ranges (stm32_setup.hpp, rcc.hpp).  Left out is what the code breaks:    *)
(* shifts to the right, loads of numbers with a sign, the other direction   *)
(* of iflt and ifgt (1060, 1062), the opcodes of bop (627), the 180 MHz of  *)
(* sclk (rcc.hpp:251) and the 48 MHz of usb (257).  ShiftHalves,            *)
(* LoadKeepsSign, BranchesAsTold, SclkWithin and OtgClock state it.         *)
MachinesExact ==
    /\ part = "ops"       => ArithExact /\ BranchAfterCompare /\ ExecExact
    /\ part = "registers" => RegistersExact /\ PinModeLast
    /\ part = "setup"     => ClocksWithin


(* No step of a machine breaks what was begun before it: a return of the    *)
(* virtual processor goes behind the call that it belongs to, with the      *)
(* flags and the registers the call saved as they were at the call          *)
(* (vcpu.hpp:700-860, 1085-1150), and no clock is switched on or over       *)
(* before what it needs is ready (stm32_setup.hpp, rcc.hpp, pwr.hpp).       *)
(* A register is exempt whose saved value was written over: from the third  *)
(* group on the code takes the place of the first (715), which the spilling *)
(* of 664-695 is there to prevent (SpilledKept).  And the functions called  *)
(* keep to the rules of MayCall and MayReturn, without which a nested call  *)
(* loses a register that its caller did not save (517, 1126).               *)
MachinesInOrder == ReturnsToCall /\ RegistersKept /\ SetupInOrder
==============================================================================
