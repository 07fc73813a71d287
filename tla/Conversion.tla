------------------------------ MODULE Conversion ------------------------------
(***************************************************************************)
(* Integers on their way from a column of the server to a getter of        *)
(* mariadb::result_set: as the decimal text of a plain query               *)
(* (conversion_helper.hpp), and as the bytes a prepared statement writes   *)
(* into the union of a bind (bind.hpp, result_set.cpp).                    *)
(***************************************************************************)
EXTENDS Integers

Sizes == {"tiny", "short", "long", "longlong"}

CONSTANT Bits   \* how many bits an integer of each size has

ASSUME ConversionAssumption ==
    /\ Bits \in [Sizes -> Nat \ {0}]
    /\ Bits["tiny"] < Bits["short"]
    /\ Bits["short"] < Bits["long"]
    /\ Bits["long"] < Bits["longlong"]

IntTypes == [size : Sizes, signed : BOOLEAN]

Patterns(size) == 2 ^ Bits[size]    \* how many values the bits can tell apart

Lowest(type) == IF type.signed THEN -(Patterns(type.size) \div 2) ELSE 0
Highest(type) ==
    (IF type.signed THEN Patterns(type.size) \div 2 ELSE Patterns(type.size)) - 1

Fits(v, type) == Lowest(type) <= v /\ v <= Highest(type)

CheckedCast(v, type) == IF Fits(v, type) THEN v ELSE 0

(* The getters for integers accept a column of their size, signed or not.  *)
SameSize(requested, column) == requested.size = column.size

-----------------------------------------------------------------------------
WriteSigned(union, v, size) == v    \* mutant: the sign is kept

(* The union of a bind, as the number its bytes spell. A fetch writes only *)
(* the low bytes, as many as the type of the column has.                   *)
WriteLow(union, v, size) ==
    (union - (union % Patterns(size))) + (v % Patterns(size))

AsSigned(bytes, size) ==
    IF 2 * bytes >= Patterns(size) THEN bytes - Patterns(size) ELSE bytes

(* Mutant: the bytes above the column's are not masked.                    *)
WholeUnion(union, type) ==
    IF type.signed /\ type.size \in {"long", "longlong"}
    THEN AsSigned(union % Patterns(type.size), type.size)
    ELSE CheckedCast(union, type)

(* The getters for 8 and 16 bits cast the masked union, which is never     *)
(* negative, also when a signed value is asked for.                        *)
ThroughStatement(union, type) ==
    LET low == union % Patterns(type.size)
    IN  IF type.signed /\ type.size \in {"long", "longlong"}
        THEN AsSigned(low, type.size)
        ELSE CheckedCast(low, type)

BooleanThroughStatement(union) == union % Patterns("tiny") # 0

-----------------------------------------------------------------------------
(* string_cast() of the text of v: the set of its results, empty when the  *)
(* standard library throws. std::stoi() reads an int, std::stoul() and     *)
(* std::stoull() wrap negative numbers around.                             *)
Int32 == [size |-> "long", signed |-> TRUE]

ThroughText(v, type) ==
    IF type.size = "longlong" /\ type.signed THEN {x \in {v} : Fits(x, type)}
    ELSE IF type.size \in {"long", "longlong"} /\ ~type.signed
    THEN {CheckedCast(v % Patterns("longlong"), type)}
    ELSE {CheckedCast(x, type) : x \in {y \in {v} : Fits(y, Int32)}}

BooleanThroughText(v) == v = 1
=============================================================================
