---------------------------- MODULE TickDecoder -----------------------------
(***************************************************************************)
(* TickDecoder::decode_csv and the SymbolMapper it takes ids from          *)
(* (tick_decoder.hpp).                                                     *)
(*                                                                         *)
(* A line is the sequence of its cells, the texts between the commas.      *)
(* What std::from_chars makes of a cell is given by functions, whose       *)
(* domains are the cells that start with such a number; what else a cell   *)
(* is asked for is its first character.                                    *)
(***************************************************************************)
EXTENDS Integers, Sequences, FiniteSets

CONSTANTS
    Lines,         \* the lines that can come
    Empty,         \* the empty cell
    Nanos,         \* std::from_chars to a timestamp
    Qty,           \* std::from_chars to a quantity
    Price,         \* std::from_chars to a double, then from_double
    FirstOf,       \* the first character of a cell that is not empty
    MAX_SYMBOLS    \* 256 in the code, the size of Portfolio::positions_

ASSUME DecoderAssumption == MAX_SYMBOLS \in Nat

VARIABLES
    mapper,    \* was the decoder given a SymbolMapper?
    map,       \* SymbolMapper::map_, from names to ids
    next_id,
    decoded    \* the calls that returned true: the line and the event

decoderVars == <<mapper, map, next_id, decoded>>

DecoderInit ==
    /\ mapper \in BOOLEAN
    /\ map = <<>>
    /\ next_id = 1
    /\ decoded = {}

-----------------------------------------------------------------------------
(* Mutant of get_or_create: a name that is known gets a new id. *)
get_or_renumber(name) ==
    /\ map' = [n \in DOMAIN map \cup {name} |-> IF n = name THEN next_id ELSE map[n]]
    /\ next_id' = next_id + 1

(* Mutant of get_or_create: the id is counted whether it is taken or not,  *)
(* as map_.emplace(name, next_id_++) would.                                *)
get_or_emplace(name) ==
    /\ map' = [n \in DOMAIN map \cup {name} |->
                  IF n \in DOMAIN map THEN map[n] ELSE next_id]
    /\ next_id' = next_id + 1

(* SymbolMapper::get_or_create; the id it returns is map'[name]. *)
get_or_create(name) ==
    \/ /\ name \in DOMAIN map
       /\ UNCHANGED <<map, next_id>>
    \/ /\ name \notin DOMAIN map
       /\ map' = [n \in DOMAIN map \cup {name} |-> IF n = name THEN next_id ELSE map[n]]
       /\ next_id' = next_id + 1

(* The columns of a line.  A comma at its end starts no column.  The code  *)
(* stops after ten and never looks at those behind the sixth.              *)
Cols(line) ==
    IF line # <<>> /\ line[Len(line)] = Empty
    THEN SubSeq(line, 1, Len(line) - 1)
    ELSE line

(* The columns that the symbol's turn comes after. *)
HasSymbol(line) == Len(Cols(line)) >= 6 /\ line[1] \in DOMAIN Nanos

Name(line) == line[2]

(* The columns behind the symbol. *)
IsWellFormed(line) ==
    /\ line[3] # Empty
    /\ line[4] \in DOMAIN Price
    /\ line[5] \in DOMAIN Qty
    /\ FirstOf[line[3]] \in {"T", "A"}

Type(line) == IF FirstOf[line[3]] = "T" THEN "Trade" ELSE "OrderAdd"

SideOf(line) ==
    IF line[6] # Empty /\ FirstOf[line[6]] \in {"S", "s", "A"} THEN "Sell" ELSE "Buy"

EventOf(line, symbol) ==
    [timestamp |-> Nanos[line[1]], symbol |-> symbol, type |-> Type(line),
     price |-> Price[line[4]], qty |-> Qty[line[5]], side |-> SideOf(line)]

TakeSymbol(line) ==
    IF mapper THEN get_or_create(Name(line)) ELSE UNCHANGED <<map, next_id>>

SymbolOf(line) == IF mapper THEN map'[Name(line)] ELSE 0

(* A line that fails before its symbol is looked up. *)
Reject(line) ==
    /\ ~ HasSymbol(line)
    /\ UNCHANGED <<map, next_id, decoded>>

(* One that fails after it. *)
RejectLate(line) ==
    /\ HasSymbol(line) /\ ~ IsWellFormed(line)
    /\ TakeSymbol(line)
    /\ UNCHANGED decoded

Accept(line) ==
    /\ HasSymbol(line) /\ IsWellFormed(line)
    /\ TakeSymbol(line)
    /\ decoded' = decoded \cup {[line |-> line, event |-> EventOf(line, SymbolOf(line))]}

(* TickDecoder::decode_csv *)
decode_csv(line) ==
    /\ Reject(line) \/ RejectLate(line) \/ Accept(line)
    /\ UNCHANGED mapper

DecoderNext == \E line \in Lines : decode_csv(line)

DecoderSpec == DecoderInit /\ [][DecoderNext]_decoderVars

-----------------------------------------------------------------------------
Names == {Name(line) : line \in {l \in Lines : HasSymbol(l)}}

(* Ids are handed out from 1 without gaps: those of the names in the map   *)
(* are exactly the ones below next_id.                                     *)
DecoderTypeOK ==
    /\ mapper \in BOOLEAN
    /\ DOMAIN map \subseteq Names
    /\ next_id \in Nat \ {0}
    /\ map \in [DOMAIN map -> 1 .. next_id - 1]
    /\ \A id \in 1 .. next_id - 1 : \E n \in DOMAIN map : map[n] = id
    /\ \A d \in decoded : d.line \in Lines

(* Two events carry the same symbol exactly if their lines name the same,  *)
(* however often lines come again after a reset and however many malformed *)
(* ones come between them.                                                 *)
SymbolsAreFaithful ==
    mapper => \A a, b \in decoded :
                  a.event.symbol = b.event.symbol <=> Name(a.line) = Name(b.line)

(* "Maximum number of symbols supported in a single backtest": as long as  *)
(* there are no more of them, each is an index of Portfolio::positions_,   *)
(* which has MAX_SYMBOLS entries.                                          *)
SupportedSymbolsFit ==
    Cardinality({d.event.symbol : d \in decoded}) <= MAX_SYMBOLS =>
        \A d \in decoded : d.event.symbol \in 0 .. MAX_SYMBOLS - 1
=============================================================================
