---------------------------- MODULE DonsusTypes ----------------------------
(***************************************************************************)
(* The type algebra of the compiler (class DONSUS_TYPE in                  *)
(* src/Include/Internal/type.h, src/src/type.cc and the helpers of         *)
(* src/src/parser_util.cc): which type a token stands for, and when two    *)
(* types are compatible.  A type is named by its enumerator without the    *)
(* prefix TYPE_, a type token by its enumerator without DONSUS_.           *)
(***************************************************************************)

IntegerKinds == {"BASIC_INT", "I32", "U64", "I8", "I64", "I16", "U32", "UNSPECIFIED_INTEGER"}
FloatKinds   == {"F32", "F64"}
ArrayKinds   == {"FIXED_ARRAY", "STATIC_ARRAY", "DYNAMIC_ARRAY"}
Kinds        == IntegerKinds \cup FloatKinds \cup ArrayKinds
                  \cup {"UNKNOWN", "STRING", "BOOL", "VOID"}

is_integer(k) == k \in IntegerKinds
is_float(k)   == k \in FloatKinds
is_bool(k)    == k = "BOOL"
is_string(k)  == k = "STRING"

(* operator==: a literal or `int' goes with every integer type, a float    *)
(* type with the other, and every type with itself.                        *)
Compatible(a, b) ==
    \/ {a, b} \cap {"UNSPECIFIED_INTEGER", "BASIC_INT"} # {} /\ {a, b} \subseteq IntegerKinds
    \/ {a, b} \subseteq FloatKinds
    \/ a = b

-----------------------------------------------------------------------------
(* Tokens.  The token of the type string is STRING_TYPE; STRING is the     *)
(* token of a string literal.                                              *)
PrimitiveKinds == Kinds \ (ArrayKinds \cup {"UNKNOWN", "UNSPECIFIED_INTEGER"})

TypeTokens == (PrimitiveKinds \ {"STRING"}) \cup {"STRING_TYPE"}

from_parse(tok) ==
    IF tok = "STRING_TYPE" THEN "STRING"
    ELSE IF tok \in TypeTokens THEN tok ELSE "UNKNOWN"

to_parse(k) == IF k \in PrimitiveKinds THEN k ELSE "END"

make_type_cast(tok) == tok   \* a slip: the token taken for a type
make_type(tok) == from_parse(tok)

(* Each case falls through to the last one.                                *)
make_type_array(arrayType) == "DYNAMIC_ARRAY"
=============================================================================
