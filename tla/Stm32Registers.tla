--------------------------- MODULE Stm32Registers ---------------------------
(***************************************************************************)
(* The register files of the stm32 drivers (src/extern/stm32): clocks     *)
(* (rcc), flash (fls), power (pwr), spi and gpio.  A driver describes its *)
(* registers as a list of fields; an accessor changes a copy of the word  *)
(* its field lies in, and flush() writes the changed words to the device. *)
(* gpio changes the device directly.  A register is the set of the bits   *)
(* of it that are 1.                                                       *)
(***************************************************************************)
EXTENDS Integers, Sequences, FiniteSets, SequencesExt

CONSTANTS
    Again,      \* [driver -> the fields a second call may set]
    Pins,       \* the pins of the port that are configured
    MaxAccesses    \* calls of accessors made

VARIABLES
    chip,       \* the driver used
    start,      \* the content of the device before the first call
    device,     \* the words of the device
    written,     \* [word changed since the last flush -> its copy]
    flushing,   \* flush() has words left to write
    steps,      \* gpio: the writes config() has still to make
    told,       \* [<<first bit, bits>> of a field -> what it has been told]
    calls

registerVars == <<chip, start, device, written, flushing, steps, told, calls>>

(***************************************************************************)
(* xfield, xrsv: the fields lie one behind the other.                      *)
(***************************************************************************)
Fld(name, bits) == <<[name |-> name, bits |-> bits]>>
One(words)      == [i \in DOMAIN words |-> [name |-> words[i], bits |-> 1]]
Rsv(bits)       == Fld("", bits)

FlsLayout ==
    Fld("latency_acr", 4) \o Rsv(4) \o One(<<"prften", "arten">>) \o Rsv(1)
    \o One(<<"artrst">>) \o Rsv(20) \o Fld("keyr", 32) \o Fld("optkeyr", 32)
    \o One(<<"eop", "operr">>) \o Rsv(2)
    \o One(<<"wrperr", "pgaerr", "pgperr", "erserr">>) \o Rsv(8)
    \o One(<<"bsy">>) \o Rsv(15)
    \o One(<<"pg", "ser", "mer">>) \o Fld("snb", 4) \o Rsv(1) \o Fld("psize", 2)
    \o Rsv(6) \o One(<<"strt">>) \o Rsv(7) \o One(<<"eopie", "errie">>) \o Rsv(5)
    \o One(<<"lockcr">>)
    \o One(<<"optlock", "optstrt">>) \o Fld("bor_lev", 2)
    \o One(<<"wwdg_sw", "iwdg_sw", "nrst_stop", "nrst_stdby">>)
    \o Fld("rdp", 8) \o Fld("nwrp", 8) \o Rsv(6) \o One(<<"iwdg_stdby", "iwdg_stop">>)
    \o Fld("boot_add0", 16) \o Fld("boot_add1", 16)

\* the three groups of gen_rcc.hpp: resets, clocks, clocks during sleep
PortPins(suffix) ==
    LET Of(words) == One([i \in DOMAIN words |-> words[i] \o suffix])
        Only(kinds, fields, otherwise) ==
            IF suffix \in kinds THEN fields ELSE otherwise
        Gated == {"en", "lpen"}
    IN  Of(<<"gpioa", "gpiob", "gpioc", "gpiod", "gpioe", "gpiof", "gpiog",
             "gpioh", "gpioi", "gpioj", "gpiok">>) \o Rsv(1) \o Of(<<"crc">>)
        \o Only(Gated,
                Only({"en"}, Rsv(5),
                     Of(<<"axi">>) \o Rsv(1) \o Of(<<"flash", "sram1", "sram2">>))
                \o Of(<<"backup_sram">>) \o Rsv(1) \o Of(<<"tdcm_ram">>),
                Rsv(8))
        \o Of(<<"dma1", "dma2", "dma2d">>) \o Rsv(1) \o Of(<<"eth">>)
        \o Only(Gated, Of(<<"eth_tx", "eth_rx", "eth_ptp">>), Rsv(3))
        \o Of(<<"otghs">>) \o Only(Gated, Of(<<"otghs_ulpi">>) \o Rsv(1), Rsv(2))
        \o Of(<<"dcmi">>) \o Rsv(3) \o Of(<<"crypto", "hash", "random", "otgfs">>)
        \o Rsv(24) \o Of(<<"fmc", "qspi">>) \o Rsv(30) \o Rsv(32)
        \o Of(<<"tim2", "tim3", "tim4", "tim5", "tim6", "tim7", "tim12", "tim13",
                "tim14", "lptim1">>) \o Rsv(1) \o Of(<<"wwdg">>) \o Rsv(2)
        \o Of(<<"spi2", "spi3", "spdif_rx", "uart2", "uart3", "uart4", "uart5",
                "i2c1", "i2c2", "i2c3", "i2c4", "can1", "can2", "cec", "pwr", "dac",
                "uart7", "uart8", "tim1", "tim8">>) \o Rsv(2)
        \o Of(<<"usart1", "usart6">>) \o Rsv(2)
        \o Only(Gated, Of(<<"adc1", "adc2", "adc3">>), Of(<<"adc">>) \o Rsv(2))
        \o Of(<<"sdmmc1", "spi1", "spi4", "syscfg">>) \o Rsv(1)
        \o Of(<<"tim9", "tim10", "tim11">>) \o Rsv(1)
        \o Of(<<"spi5", "spi6", "sai1", "sai2">>) \o Rsv(2) \o Of(<<"ltdc">>)
        \o Rsv(5) \o Rsv(32) \o Rsv(32)

\* the sources of the events of rcc.hpp, in the order of their three bits
EventsOf(suffix) ==
    One([i \in 1 .. 7 |-> <<"lsirdy", "lserdy", "hsirdy", "hserdy", "pllrdy",
                            "plli2srdy", "pllsairdy">>[i] \o suffix])

RccLayout ==
    One(<<"hsion", "hsirdy">>) \o Rsv(1) \o Fld("hsitrim", 5) \o Fld("hsical", 8)
    \o One(<<"hseon", "hserdy", "hsebyp", "csson">>) \o Rsv(4)
    \o One(<<"pllon", "pllrdy", "plli2son", "plli2srdy", "pllsaion", "pllsairdy">>)
    \o Rsv(2)
    \o Fld("pllm", 6) \o Fld("plln", 9) \o Rsv(1) \o Fld("pllp", 2) \o Rsv(4)
    \o One(<<"pllsrc">>) \o Rsv(1) \o Fld("pllq", 4) \o Rsv(4)
    \o Fld("sw", 2) \o Fld("sws", 2) \o Fld("hpre", 4) \o Rsv(2) \o Fld("ppre1", 3)
    \o Fld("ppre2", 3) \o Fld("rtcpre", 5) \o Fld("mcoa", 2) \o One(<<"i2ssrc">>)
    \o Fld("mcoapre", 3) \o Fld("mcobpre", 3) \o Fld("mcob", 2)
    \o EventsOf("f") \o One(<<"cssf">>) \o EventsOf("ie") \o Rsv(1)
    \o EventsOf("c") \o One(<<"cssc">>) \o Rsv(8)
    \o PortPins("rst") \o PortPins("en") \o PortPins("lpen")
    \o One(<<"lseon", "lserdy", "lsebyp">>) \o Fld("lsedrv", 2) \o Rsv(3)
    \o Fld("rtcsel", 2) \o Rsv(5) \o One(<<"rtcen", "bdrst">>) \o Rsv(15)
    \o One(<<"lsion", "lsirdy">>) \o Rsv(22)
    \o One(<<"rmvf", "borrstf", "pinrstf", "porrstf", "sftrstf", "iwdgrstf",
             "wwdgrstf", "lpwrrstf">>) \o Rsv(64)
    \o Fld("modper", 13) \o Fld("incstep", 15) \o Rsv(2) \o One(<<"spreadsel", "sscgen">>)

Numbered(prefix) == One([i \in 1 .. 6 |-> prefix \o <<"1", "2", "3", "4", "5", "6">>[i]])

PwrLayout ==
    One(<<"lpds", "pdds">>) \o Rsv(1) \o One(<<"csbf", "pvde">>) \o Fld("pls", 3)
    \o One(<<"dbp", "fpds", "lpuds", "mruds">>) \o Rsv(1) \o One(<<"adcdc1">>)
    \o Fld("vos", 2) \o One(<<"oden", "odswen">>) \o Fld("uden", 2) \o Rsv(12)
    \o One(<<"wuif", "sbf", "pvdo", "brr", "eiwup">>) \o Rsv(4) \o One(<<"bre">>)
    \o Rsv(4) \o One(<<"vosrdy">>) \o Rsv(1) \o One(<<"odrdy", "odswrdy">>)
    \o Fld("udrdy", 2) \o Rsv(12)
    \o Numbered("cwupf") \o Rsv(2) \o Numbered("wupp") \o Rsv(18)
    \o Numbered("wupf") \o Rsv(2) \o Numbered("ewup") \o Rsv(18)

SpiLayout ==
    One(<<"cpha", "cpol", "mstr">>) \o Fld("br", 3)
    \o One(<<"spe", "lsbfirst", "ssi", "ssm", "rxonly", "crcl", "crcnext", "crcen",
             "bidioe", "bidimode">>) \o Rsv(16)
    \o One(<<"rxdmaen", "txdmaen", "ssoe", "nssp", "frf", "errie", "rxneie", "txeie">>)
    \o Fld("ds", 4) \o One(<<"frxth", "ldma_rx", "ldma_tx">>) \o Rsv(17)
    \o One(<<"rxne", "txe", "chside", "udr", "crcerr", "modf", "ovr", "bsy", "fre">>)
    \o Fld("frlvl", 2) \o Fld("ftlvl", 2) \o Rsv(19) \o Fld("dr16", 16) \o Rsv(16)
    \o Fld("crcpr", 16) \o Rsv(16) \o Fld("rxcrcr", 16) \o Rsv(16)
    \o Fld("txcrcr", 16) \o Rsv(16)

GpioLayout ==
    FlattenSeq([i \in 1 .. 8 |-> Fld(<<"iomode", "otype", "speed", "pupd", "idr",
                                       "odr", "bsr", "lckr">>[i], 32)])
    \o Fld("afrl", 64)

Chips  == {"fls", "rcc", "pwr", "spi", "gpio"}
Layout == [fls |-> FlsLayout, rcc |-> RccLayout, pwr |-> PwrLayout,
           spi |-> SpiLayout, gpio |-> GpioLayout]

\* the first bit and the length of every field
Placed(layout) ==
    LET Next(sofar, f) ==
            [at |-> sofar.at + f.bits,
             fields |-> IF f.name = "" THEN sofar.fields
                        ELSE (f.name :> <<sofar.at, f.bits>>) @@ sofar.fields]
    IN  FoldLeft(Next, [at |-> 0, fields |-> << >>], layout)

PutField == [c \in Chips |-> Placed(Layout[c]).fields]
Words == [c \in Chips |-> 0 .. (Placed(Layout[c]).at \div 32 - 1)]

NamedField(layout) == {f.name : f \in ToSet(layout)} \ {""}

(***************************************************************************)
(* The fields that have a setter, and the largest code it is given: all   *)
(* ones but where the enumeration ends before.                             *)
(***************************************************************************)
FlsSet ==
    {"arten", "prften", "artrst", "latency_acr", "lockcr", "optlock", "iwdg_stop",
     "iwdg_stdby", "iwdg_sw", "wwdg_sw", "nwrp", "rdp", "nrst_stop", "nrst_stdby",
     "bor_lev", "optstrt", "boot_add0", "boot_add1", "errie", "eopie", "strt",
     "snb", "mer", "ser", "pg"}

RccSet ==
    {"bdrst", "modper", "incstep", "spreadsel", "sscgen", "rmvf", "lseon", "lsebyp",
     "lsedrv", "lsion", "hsion", "hsitrim", "hseon", "hsebyp", "csson", "rtcpre",
     "plli2son", "i2ssrc", "pllsaion", "pllon", "pllm", "plln", "pllp", "pllq",
     "pllsrc", "sw", "hpre", "ppre1", "ppre2", "rtcen", "rtcsel", "mcoa", "mcoapre",
     "mcob", "mcobpre"}

PortSet == UNION {NamedField(PortPins(suffix)) : suffix \in {"rst", "en", "lpen"}}

PwrSet ==
    {"lpds", "lpuds", "mruds", "fpds", "uden", "pdds", "pvde", "pls", "dbp", "vos",
     "bre", "oden", "odswen", "eiwup"}
    \cup NamedField(Numbered("wupp")) \cup NamedField(Numbered("ewup"))

SpiSet ==
    {"ssi", "ssm", "crcen", "crcnext", "crcl", "lsbfirst", "spe", "br", "mstr",
     "cpol", "cpha", "ds", "frxth", "txeie", "errie", "frf", "nssp", "ssoe",
     "txdmaen", "rxdmaen", "crcpr"}

\* spi.mode(...): two fields at once
SpiModes == {<<<<"bidimode", 0>>, <<"rxonly", 0>>>>, <<<<"bidimode", 0>>, <<"rxonly", 1>>>>,
             <<<<"bidimode", 1>>, <<"bidioe", 1>>>>, <<<<"bidimode", 1>>, <<"bidioe", 0>>>>}

LargestField(c, name) ==
    CASE name = "sw" -> 2
      [] name = "rtcpre" -> 16
      [] name \in {"boot_add0", "boot_add1"} -> 32787
      [] OTHER -> 2 ^ PutField[c][name][2] - 1

\* every event has a flag, an enable bit and a bit that clears the flag
Sources    == {"lsirdy", "lserdy", "hsirdy", "hserdy", "pllrdy", "plli2srdy", "pllsairdy"}
EventSet   == {s \o "ie" : s \in Sources}
FlagOf     == [c \in {s \o "c" : s \in Sources} \cup {"cssc"} |->
                  IF c = "cssc" THEN "cssf"
                  ELSE (CHOOSE s \in Sources : s \o "c" = c) \o "f"]

ClearAll ==
    [i \in 1 .. 8 |-> <<<<"lsirdyc", "lserdyc", "hsirdyc", "hserdyc", "pllrdyc",
                         "plli2srdyc", "pllsairdyc", "cssc">>[i], 1>>]

\* the accessors as lists of <<field, code>>
Accessors(c) ==
    LET Rw(fields) == {<<<<f, v>>>> : f \in fields, v \in {0}}
                      \cup {<<<<f, LargestField(c, f)>>>> : f \in fields}
    IN  CASE c = "fls" -> Rw(FlsSet)
          [] c = "rcc" -> Rw(RccSet \cup PortSet \cup EventSet)
                          \cup {<<<<f, 1>>>> : f \in DOMAIN FlagOf}
                          \cup {ClearAll}
          [] c = "pwr" -> Rw(PwrSet)
          [] c = "spi" -> Rw(SpiSet) \cup SpiModes
          [] OTHER -> {}

(***************************************************************************)
(* What the device does: fields the program can only read keep their      *)
(* value when their word is written, a clear bit lowers its flag and reads *)
(* as zero.                                                                *)
(***************************************************************************)
ReadOnly ==
    [fls  |-> {"bsy", "eop"},
     rcc  |-> {"hsirdy", "hsical", "hserdy", "pllrdy", "plli2srdy", "pllsairdy", "sws",
               "lserdy", "lsirdy", "borrstf", "pinrstf", "porrstf", "sftrstf",
               "iwdgrstf", "wwdgrstf", "lpwrrstf", "cssf"} \cup {s \o "f" : s \in Sources},
     pwr  |-> {"pvdo", "vosrdy", "brr", "odrdy", "odswrdy", "wuif", "sbf"}
              \cup NamedField(Numbered("wupf")),
     spi  |-> {"ftlvl", "frlvl", "fre", "bsy", "ovr", "crcerr", "udr", "txe", "rxne"},
     gpio |-> {"idr"}]

\* the bits of a field within its word
BitsIn(place) == (place[1] % 32) .. ((place[1] % 32) + place[2] - 1)
WordOf(place) == place[1] \div 32

FixedBits ==
    [c \in Chips |-> [w \in Words[c] |->
        UNION {BitsIn(PutField[c][f]) : f \in {g \in ReadOnly[c] : WordOf(PutField[c][g]) = w}}]]

EventWord == WordOf(PutField["rcc"]["cssc"])
ClearBits == {PutField["rcc"][f][1] % 32 : f \in DOMAIN FlagOf}
FlagBit   == [bit \in ClearBits |->
    PutField["rcc"][FlagOf[CHOOSE f \in DOMAIN FlagOf : PutField["rcc"][f][1] % 32 = bit]][1] % 32]

DeviceTakes(w, value) ==
    LET fixed == FixedBits[chip][w]
        taken == (device[w] \cap fixed) \cup (value \ fixed)
    IN  IF chip = "rcc" /\ w = EventWord
        THEN taken \ (ClearBits \cup {FlagBit[b] : b \in value \cap ClearBits})
        ELSE taken

(***************************************************************************)
(* mcu_bop: the value, shifted to its field, is put over the word.         *)
(***************************************************************************)
Ones(value) == {b \in 0 .. 16 : (value \div (2 ^ b)) % 2 = 1}

PutInto(word, place, value) ==
    (word \ BitsIn(place))
        \cup {(place[1] % 32) + b : b \in {o \in Ones(value) : (place[1] % 32) + o < 32}}

SetOne_FromDevice(copies, place, value) ==
    LET w == WordOf(place)
    IN  (w :> PutInto(device[w], place, value)) @@ copies

SetOne(copies, place, value) ==
    LET w   == WordOf(place)
        old == IF w \in DOMAIN copies THEN copies[w] ELSE device[w]
    IN  (w :> PutInto(old, place, value)) @@ copies

NoAccess == ~flushing /\ steps = << >>

\* what a call tells: clearing an event is telling its flag
Tells(item) ==
    IF chip = "rcc" /\ item[1] \in DOMAIN FlagOf
    THEN PutField[chip][FlagOf[item[1]]] :> 0
    ELSE PutField[chip][item[1]] :> item[2]

Set ==
    /\ NoAccess /\ calls < MaxAccesses
    /\ \E accessor \in Accessors(chip) :
         /\ calls > 0 => accessor[1][1] \in Again[chip]
         /\ written' = FoldLeft(LAMBDA copies, item :
                                   SetOne(copies, PutField[chip][item[1]], item[2]),
                               written, accessor)
         /\ told' = FoldLeft(LAMBDA t, item : Tells(item) @@ t, told, accessor)
    /\ calls' = calls + 1
    /\ UNCHANGED <<chip, start, device, flushing, steps>>

\* flush: the changed words, lowest first
Unrecorded(w) == [v \in DOMAIN written \ {w} |-> written[v]]
FlushWord ==
    /\ DOMAIN written # {}
    /\ \E w \in DOMAIN written :
         /\ \A v \in DOMAIN written : w <= v
         /\ device' = [device EXCEPT ![w] = DeviceTakes(w, written[w])]
         /\ written' = Unrecorded(w)
    /\ flushing' = (DOMAIN written' # {})
    /\ UNCHANGED <<chip, start, steps, told, calls>>

(***************************************************************************)
(* gpio: mode_t takes an io_mode apart; config writes five fields.         *)
(***************************************************************************)
IoModes ==
    {pull : pull \in 0 .. 2}
    \cup {mode * 32 + od * 16 + speed * 4 + pull :
             mode \in 1 .. 2, od \in 0 .. 1, speed \in 0 .. 3, pull \in 0 .. 2}
    \cup {3 * 32 + 3 * 4}

Pin(word, pin, bits) == <<PutField["gpio"][word][1] + pin * bits, bits>>

ConfigWrites_ModeFirst(mode, pin, af) ==
    << <<Pin("iomode", pin, 2), (mode \div 32) % 4>>,
       <<Pin("otype", pin, 1), (mode \div 16) % 2>>,
       <<Pin("speed", pin, 2), (mode \div 4) % 4>>,
       <<Pin("pupd", pin, 2), mode % 4>>,
       <<Pin("afrl", pin, 4), af>> >>

ConfigWrites(mode, pin, af) ==
    << <<Pin("otype", pin, 1), (mode \div 16) % 2>>,
       <<Pin("speed", pin, 2), (mode \div 4) % 4>>,
       <<Pin("pupd", pin, 2), mode % 4>>,
       <<Pin("afrl", pin, 4), af>>,
       <<Pin("iomode", pin, 2), (mode \div 32) % 4>> >>

Makes(writes) ==
    /\ steps' = writes
    /\ told' = FoldLeft(LAMBDA t, item : (item[1] :> item[2]) @@ t, told, writes)
    /\ calls' = calls + 1
    /\ UNCHANGED <<chip, start, device, written, flushing>>

Config ==
    /\ chip = "gpio" /\ NoAccess /\ calls = 0
    /\ \E mode \in IoModes, pin \in Pins, af \in {0, 15} :
         Makes(ConfigWrites(mode, pin, af))

\* set, reset
SetPin ==
    /\ chip = "gpio" /\ NoAccess /\ calls < MaxAccesses
    /\ \E pin \in Pins, value \in 0 .. 1 : Makes(<< <<Pin("odr", pin, 1), value>> >>)

\* mcu_bop_direct
Direct ==
    /\ steps # << >>
    /\ LET item == Head(steps)
           w    == WordOf(item[1])
       IN  device' = [device EXCEPT ![w] = DeviceTakes(w, PutInto(@, item[1], item[2]))]
    /\ steps' = Tail(steps)
    /\ UNCHANGED <<chip, start, written, flushing, told, calls>>

\* a flag in a word that has been told something changes (not one about to be
\* cleared: a clear takes effect when it is flushed)
Hardware ==
    /\ calls = 1 /\ ~flushing
    /\ \E f \in ReadOnly[chip] :
         LET place == PutField[chip][f]
             w     == WordOf(place)
             bit   == place[1] % 32
         IN  /\ place[2] = 1 /\ place \notin DOMAIN told /\ device[w] = start[w]
             /\ \E p \in DOMAIN told : WordOf(p) = w
             /\ device' = [device EXCEPT ![w] = IF bit \in @ THEN @ \ {bit} ELSE @ \cup {bit}]
             /\ told' = (place :> (IF bit \in device[w] THEN 0 ELSE 1)) @@ told
    /\ UNCHANGED <<chip, start, written, flushing, steps, calls>>

\* clear bits read as zero
WordContent(c, ones) ==
    [w \in Words[c] |->
        IF ~ones THEN {}
        ELSE IF c = "rcc" /\ w = EventWord THEN (0 .. 31) \ ClearBits ELSE 0 .. 31]

RegistersInit ==
    /\ chip \in Chips
    /\ start \in {WordContent(chip, ones) : ones \in BOOLEAN}
    /\ device = start /\ written = << >> /\ told = << >>
    /\ flushing = FALSE /\ steps = << >> /\ calls = 0

RegistersNext == Set \/ FlushWord \/ Config \/ SetPin \/ Direct \/ Hardware

RegistersSpec == RegistersInit /\ [][RegistersNext]_registerVars

RegistersTypeOK ==
    /\ chip \in Chips /\ calls \in 0 .. MaxAccesses /\ flushing \in BOOLEAN
    /\ DOMAIN device = Words[chip]
    /\ \A w \in Words[chip] : device[w] \subseteq 0 .. 31
    /\ DOMAIN written \subseteq Words[chip]
    /\ flushing => DOMAIN written # {}

(***************************************************************************)
(* Once everything is written, every field holds what it was last told    *)
(* (or what the hardware has made of it), and every other bit of the      *)
(* device is as it was: copies are not made of a word that has a newer    *)
(* copy, and a written copy is not used again.                             *)
(***************************************************************************)
IsIn(place, b) == place[1] <= b /\ b < place[1] + place[2]

WordExact(w) ==
    LET fields == {p \in DOMAIN told : \E bit \in 0 .. 31 : IsIn(p, 32 * w + bit)}
        Expected(at) ==
            LET owners == {p \in fields : IsIn(p, at)}
            IN  IF owners = {} THEN at % 32 \in start[w]
                ELSE \A p \in owners : at - p[1] \in Ones(told[p])
    IN  IF fields = {} THEN device[w] = start[w]
        ELSE device[w] = {bit \in 0 .. 31 : Expected(32 * w + bit)}

RegistersExact ==
    (NoAccess /\ DOMAIN written = {}) => \A w \in Words[chip] : WordExact(w)

(***************************************************************************)
(* config() changes what a pin does last: a pin in its new mode has the   *)
(* type, the speed, the pull and the function of that mode.                *)
(***************************************************************************)
PinModeLast ==
    (calls = 1 /\ steps # << >>) =>
        \/ device[0] = start[0]
        \/ \A w \in Words[chip] : WordExact(w)
-----------------------------------------------------------------------------
(***************************************************************************)
(* stm32_setup (src/extern/stm32/stm32_setup.hpp): the program that brings *)
(* the chip from its internal oscillator to 216 MHz.  It sets fields of    *)
(* rcc, pwr and fls, flushes them word by word and waits for the flags the *)
(* hardware raises at times of its own.  Here a field is a number by name. *)
(***************************************************************************)
CONSTANT Hse        \* the external oscillator, in MHz

VARIABLES
    at,             \* the step of the program
    field,          \* [field -> what the device holds]
    pending         \* [driver -> the fields told since its last flush]

setupVars == <<at, field, pending>>

\* the registers of the fields that are used: driver and word
SetupRegister ==
    [pwren |-> <<"rcc", 16>>, hseon |-> <<"rcc", 0>>, pllon |-> <<"rcc", 0>>,
     pllsrc |-> <<"rcc", 1>>, pllm |-> <<"rcc", 1>>, plln |-> <<"rcc", 1>>,
     pllp |-> <<"rcc", 1>>, pllq |-> <<"rcc", 1>>, sw |-> <<"rcc", 2>>,
     hpre |-> <<"rcc", 2>>, ppre1 |-> <<"rcc", 2>>, ppre2 |-> <<"rcc", 2>>,
     vos |-> <<"pwr", 0>>, oden |-> <<"pwr", 0>>, odswen |-> <<"pwr", 0>>,
     latency |-> <<"fls", 0>>]

Tell(name, value) == [op |-> "set", name |-> name, value |-> value]
Flush(driver)     == [op |-> "flush", name |-> driver]
Wait(flag)        == [op |-> "wait", name |-> flag]

\* codes of define.hpp: lv1 = 3, from_hse = 1, for_sclk div2 = 0,
\* for_otg_sdio_random div2 = 2, from_pll = 2, from_sclk = 0, div4 = 5, div2 = 4
Before == <<Tell("pwren", 1), Flush("rcc"), Tell("vos", 3), Flush("pwr"),
            Tell("pllsrc", 1), Tell("pllm", 8), Tell("plln", 432), Tell("pllp", 0),
            Tell("pllq", 2), Tell("hseon", 1), Flush("rcc"), Wait("hserdy"),
            Tell("pllon", 1), Flush("rcc")>>
DriveField == <<Wait("pllrdy"), Tell("oden", 1), Flush("pwr"), Wait("odrdy"),
                Tell("odswen", 1), Flush("pwr"), Wait("odswrdy")>>
Switch == <<Tell("latency", 7), Flush("fls"),
            Tell("sw", 2), Tell("hpre", 0), Tell("ppre1", 5), Tell("ppre2", 4),
            Flush("rcc")>>

Setup_WaitsOnce == Before \o SelectSeq(DriveField, LAMBDA s : s.name # "odrdy") \o Switch
Setup == Before \o DriveField \o Switch

Step == Setup[at]

Told ==
    /\ at \in DOMAIN Setup /\ Step.op = "set"
    /\ pending' = [pending EXCEPT ![SetupRegister[Step.name][1]] =
                       (Step.name :> Step.value) @@ @]
    /\ at' = at + 1
    /\ UNCHANGED field

\* flush writes the lowest of the words that are left; pwr takes what it is
\* told once its clock runs
Flushed ==
    /\ at \in DOMAIN Setup /\ Step.op = "flush"
    /\ LET driver == Step.name
           words  == {SetupRegister[f][2] : f \in DOMAIN pending[driver]}
           Lowest == CHOOSE w \in words : \A v \in words : w <= v
           now    == {f \in DOMAIN pending[driver] : SetupRegister[f][2] = Lowest}
       IN  IF words = {}
           THEN at' = at + 1 /\ UNCHANGED <<field, pending>>
           ELSE /\ field' = [f \in DOMAIN field |->
                                IF f \in now /\ (driver = "pwr" => field["pwren"] = 1)
                                THEN pending[driver][f] ELSE field[f]]
                /\ pending' = [pending EXCEPT ![driver] =
                                  [f \in DOMAIN @ \ now |-> @[f]]]
                /\ UNCHANGED at

Waited ==
    /\ at \in DOMAIN Setup /\ Step.op = "wait"
    /\ field[Step.name] = 1
    /\ at' = at + 1
    /\ UNCHANGED <<field, pending>>

\* the hardware: each flag follows the bit that switches its part on
Follows == [hserdy |-> "hseon", pllrdy |-> "pllon", odrdy |-> "oden", odswrdy |-> "odswen"]

Ready ==
    /\ \E flag \in DOMAIN Follows :
         /\ field[flag] # field[Follows[flag]]
         /\ field' = [field EXCEPT ![flag] = field[Follows[flag]]]
    /\ UNCHANGED <<at, pending>>

\* runs once, and returns
Returned == at > Len(Setup) /\ UNCHANGED setupVars

SetupInit ==
    /\ at = 1
    /\ field = [f \in DOMAIN SetupRegister \cup DOMAIN Follows |-> 0]
    /\ pending = [d \in {"rcc", "pwr", "fls"} |-> << >>]

SetupNext == Told \/ Flushed \/ Waited \/ Ready \/ Returned

SetupSpec == SetupInit /\ [][SetupNext]_setupVars

SetupTypeOK ==
    /\ at \in 1 .. Len(Setup) + 1
    /\ \A f \in DOMAIN Follows : field[f] \in 0 .. 1
    /\ \A d \in DOMAIN pending : \A f \in DOMAIN pending[d] : SetupRegister[f][1] = d

(***************************************************************************)
(* The conditions the comments of rcc.hpp and pwr.hpp put on the steps:   *)
(* the voltage is changed with the pll off (pwr.hpp:117), the over drive  *)
(* is begun on an oscillator (132) and switched to once it is ready (136),*)
(* and the pll becomes the clock when all of them are ready.               *)
(***************************************************************************)
InOrder ==
    /\ field'["vos"] # field["vos"] => field["pllon"] = 0 /\ field'["pllon"] = 0
    /\ field'["oden"] # field["oden"] => field["sw"] \in {0, 1}
    /\ field'["odswen"] # field["odswen"] => field["odrdy"] = 1
    /\ field'["sw"] # field["sw"] =>
           /\ field["pllrdy"] = 1 /\ field["odswrdy"] = 1
           /\ field["latency"] = 7 /\ field["vos"] = 3

SetupInOrder == [][InOrder]_setupVars

\* the frequencies in MHz once the pll is the clock
Vco  == (Hse * field["plln"]) \div field["pllm"]
Sclk == Vco \div (2 * (field["pllp"] + 1))
Ahb  == IF field["hpre"] < 8 THEN Sclk ELSE Sclk \div (2 ^ (field["hpre"] - 7))
Apb(code) == IF code < 4 THEN Ahb ELSE Ahb \div (2 ^ (code - 3))

(***************************************************************************)
(* As the comments of rcc.hpp require: div in 2 .. 63 (241), the vco in   *)
(* 192 .. 432 (246), ahb at least 25 (273), apb1 and apb2 at most 54 and  *)
(* 108 (279, 285).  What they require of sclk and of the clock for usb is *)
(* not among it: the setup breaks both (SclkWithin, OtgClock).            *)
(***************************************************************************)
ClocksWithin ==
    field["sw"] = 2 =>
        /\ field["pllm"] \in 2 .. 63 /\ Vco \in 192 .. 432
        /\ Ahb >= 25 /\ Apb(field["ppre1"]) <= 54 /\ Apb(field["ppre2"]) <= 108

(***************************************************************************)
(* rcc.hpp:251: "make sure sclk freqence no more than 180MHz".  The setup  *)
(* does not keep this: it asks for 216 MHz (stm32_setup.hpp:27).           *)
(***************************************************************************)
SclkWithin == field["sw"] = 2 => Sclk <= 180

(***************************************************************************)
(* rcc.hpp:257: "usb otg fs need 48MHz frequence".  Nor this: it gives     *)
(* another.                                                                *)
(***************************************************************************)
OtgClock == field["sw"] = 2 => Vco \div field["pllq"] = 48
=============================================================================
