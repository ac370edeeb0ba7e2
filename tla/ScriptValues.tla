---------------------------- MODULE ScriptValues ----------------------------
(***************************************************************************)
(* How a value travels between a Lua script and the game: fields read and  *)
(* written, arguments passed and results returned                          *)
(* (src/scripting/bridge/script_reflection_fields.cpp,                     *)
(* script_reflection_invoke.cpp, script_value_format.cpp, lua_proxy.cpp,   *)
(* types/value_writer.h, types/value_decoder.cpp,                          *)
(* dumper/invoke/method_invoker.cpp).                                      *)
(*                                                                         *)
(* A value is a form and a number: the forms of a text are what the code   *)
(* tells apart, a fraction counts in halves.  The widths of integers and   *)
(* mantissas are parameters, so that the boundaries fit in small sets.     *)
(***************************************************************************)
EXTENDS Integers

CONSTANTS
  Width,       \* bits of each integer category
  DoubleBits,  \* bits of the mantissa of a double, which a Lua number is
  FloatBits,   \* bits of the mantissa of a float
  Limit        \* the largest finite value of each float category, in halves

SignedCats   == {"I1", "I2", "I4", "I8"}
UnsignedCats == {"U1", "U2", "U4", "U8"}
IntegerCats  == SignedCats \cup UnsignedCats
WideCats     == {"I8", "U8"}
FloatCats    == {"R4", "R8"}
InlineCats   == {"VEC", "COLOR32"}  \* the allowlisted structs of floats, of bytes
\* What GetCategory sorts a type name into; a dotted name it does not know is PTR.
Categories   == IntegerCats \cup FloatCats \cup InlineCats
                  \cup {"BOOLEAN", "STRING", "PTR", "ARRAY", "LIST", "UNKNOWN"}

ASSUME ValuesAssumption ==
  /\ Width \in [IntegerCats -> Nat \ {0}]
  /\ {DoubleBits, FloatBits} \subseteq Nat
  /\ FloatBits < DoubleBits
  /\ \A cat \in IntegerCats : Width[cat] <= DoubleBits <=> cat \notin WideCats
  /\ Limit \in [FloatCats -> Nat]
  /\ \A cat \in FloatCats : 2 ^ Width["I8"] <= Limit[cat]

Lowest(cat)  == IF cat \in SignedCats THEN -(2 ^ (Width[cat] - 1)) ELSE 0
Highest(cat) == IF cat \in SignedCats THEN 2 ^ (Width[cat] - 1) - 1 ELSE 2 ^ Width[cat] - 1
InRange(cat, n) == Lowest(cat) <= n /\ n <= Highest(cat)
Wrapped(cat, n) == Lowest(cat) + ((n - Lowest(cat)) % 2 ^ Width[cat])

\* A value of more bits than the mantissa loses its last ones.
Rounded(h, bits) ==
  LET size == IF h < 0 THEN -h ELSE h
      drop == CHOOSE k \in 0..size :
                /\ size < 2 ^ (bits + k)
                /\ k = 0 \/ size >= 2 ^ (bits + k - 1)
      kept == (size \div 2 ^ drop) * 2 ^ drop
  IN  IF h < 0 THEN -kept ELSE kept
MantissaOf(cat) == IF cat = "R4" THEN FloatBits ELSE DoubleBits
Holds(cat, h) == -Limit[cat] <= h /\ h <= Limit[cat]

\* Texts: a decimal number, one with a fraction (n counts halves), the words
\* of the code, and texts that the decoder or the writer treats in their own way.
Forms == {"decimal", "fraction", "true", "false", "null", "empty", "plain",
          "padded", "quoted", "control", "long"}
Value(kind, form, n) == [kind |-> kind, form |-> form, n |-> n]
Nil == Value("Nil", "", 0)
Bool(b) == Value("Boolean", "", b)
Cell(form, n) == [form |-> form, n |-> n]
NullCell == Cell("null", 0)
Answer(status, cell) == [status |-> status, cell |-> cell]
HalvesOf(text) == IF text.form = "decimal" THEN 2 * text.n ELSE text.n

-----------------------------------------------------------------------------
\* Between a script value and Lua.

\* PushValue: every number is a double in Lua; what does not fit is pushed as text.
ToLua(v) ==
  CASE v.kind \in {"Nil", "Invalid"}     -> Value("nil", "", 0)
    [] v.kind = "Boolean"                -> Value("boolean", "", v.n)
    [] v.kind \in {"Integer", "Unsigned"} ->
         IF InRange("I8", v.n) THEN Value("number", "", 2 * Rounded(v.n, DoubleBits))
                               ELSE Value("string", "decimal", v.n)
    [] v.kind = "Number"                 -> Value("number", "", v.n)
    [] v.kind = "String"                 -> Value("string", v.form, v.n)
    [] v.kind = "Handle"                 -> Value("userdata", "instance", v.n)

\* ReadLuaValue.  A whole number becomes an Integer by a conversion to int64_t,
\* which is not defined for one outside its range: the processor the program
\* is built for gives the lowest.
Overflows(h) == h % 2 = 0 /\ ~InRange("I8", h \div 2)
FromLua(lua) ==
  CASE lua.kind = "nil"     -> Nil
    [] lua.kind = "boolean" -> Bool(lua.n)
    [] lua.kind = "number" /\ lua.n % 2 = 0 ->
         Value("Integer", "", IF Overflows(lua.n) THEN Lowest("I8") ELSE lua.n \div 2)
    [] lua.kind = "number" /\ lua.n % 2 # 0 -> Value("Number", "", lua.n)
    [] lua.kind = "string"  -> Value("String", lua.form, lua.n)
    [] lua.kind = "userdata" /\ lua.form = "instance" -> Value("Handle", "", lua.n)
    [] OTHER -> Value("Invalid", "", 0)

\* FormatScriptValueAsLuaInput: the text an editor of the panel would give.
Formatted(v) ==
  CASE v.kind = "Nil"                     -> NullCell
    [] v.kind = "Boolean"                 -> Cell(IF v.n = 1 THEN "true" ELSE "false", 0)
    [] v.kind \in {"Integer", "Unsigned"} -> Cell("decimal", v.n)
    [] v.kind = "Number"                  -> Cell("fraction", v.n)
    [] v.kind = "String"                  -> Cell(v.form, v.n)
    [] OTHER                              -> Cell("empty", 0)

-----------------------------------------------------------------------------
\* Fields.

\* The preview of a managed string, as DecodeManagedString and the removal of
\* its quotes leave it: control characters are escaped and a long text is cut.
Previewed(form) ==
  CASE form = "control" -> "plain"
    [] form = "long"    -> "plain"
    [] OTHER            -> form

\* ReadFieldValue: 64-bit integers are read as text.
ReadField(cat, cell) ==
  CASE cat \in WideCats                 -> Value("String", "decimal", cell.n)
    [] cat \in SignedCats \ WideCats    -> Value("Integer", "", cell.n)
    [] cat \in UnsignedCats \ WideCats  -> Value("Unsigned", "", cell.n)
    [] cat \in FloatCats                -> Value("Number", "", cell.n)
    [] cat = "BOOLEAN"                  -> Bool(IF cell.n # 0 THEN 1 ELSE 0)
    [] cat = "STRING" /\ cell.form = "null" -> Nil
    [] cat = "STRING" /\ cell.form # "null" -> Value("String", Previewed(cell.form), cell.n)
    [] cat = "PTR" -> IF cell.n = 0 THEN Nil ELSE Value("Handle", "", cell.n)
    [] OTHER -> Value("Invalid", "", 0)

\* ConvertValueToFieldInput, and before it the refusal of references in SetField.
FieldInput(cat, v) ==
  CASE cat \in InlineCats \cup {"PTR", "ARRAY", "LIST", "UNKNOWN"} -> Answer("UNSUPPORTED_TYPE", NullCell)
    [] cat = "STRING" /\ v.kind \notin {"Nil", "String"} -> Answer("ARG_TYPE_MISMATCH", NullCell)
    [] cat = "BOOLEAN" /\ v.kind # "Boolean"              -> Answer("ARG_TYPE_MISMATCH", NullCell)
    [] cat \in WideCats /\ v.kind # "String"              -> Answer("ARG_TYPE_MISMATCH", NullCell)
    [] v.kind \in {"Invalid", "Handle"}                   -> Answer("ARG_TYPE_MISMATCH", NullCell)
    [] OTHER                                              -> Answer("OK", Formatted(v))

\* NormalizeStringFieldInput: quotes and blanks at the ends go, and what is
\* then empty or the word null clears the reference.
Normalized(cell) ==
  CASE cell.form \in {"empty", "null"}    -> NullCell
    [] cell.form \in {"padded", "quoted"} -> Cell("plain", cell.n)
    [] OTHER                              -> cell

MutParsedWraps(cat, text) ==
  CASE cat \in IntegerCats ->
         IF text.form = "decimal"
         THEN Answer("OK", Cell("num", Wrapped(cat, text.n)))
         ELSE Answer("TYPE_MISMATCH", NullCell)
    [] cat \in FloatCats ->
         IF text.form \in {"decimal", "fraction"} /\ Holds(cat, HalvesOf(text))
         THEN Answer("OK", Cell("num", Rounded(HalvesOf(text), MantissaOf(cat))))
         ELSE Answer("TYPE_MISMATCH", NullCell)

\* ParseAndWrite: a number that the type cannot hold is refused, not cut.
Parsed(cat, text) ==
  CASE cat \in IntegerCats ->
         IF text.form = "decimal" /\ InRange(cat, text.n)
         THEN Answer("OK", Cell("num", text.n))
         ELSE Answer("TYPE_MISMATCH", NullCell)
    [] cat \in FloatCats ->
         IF text.form \in {"decimal", "fraction"} /\ Holds(cat, HalvesOf(text))
         THEN Answer("OK", Cell("num", Rounded(HalvesOf(text), MantissaOf(cat))))
         ELSE Answer("TYPE_MISMATCH", NullCell)

\* FieldCatalog::SetFieldValue and Write::SetFieldValue on what FieldInput accepts.
Written(cat, text) ==
  CASE cat = "STRING"  -> Answer("OK", Normalized(text))
    [] cat = "BOOLEAN" -> Answer("OK", Cell("num", IF text.form = "true" THEN 1 ELSE 0))
    [] OTHER           -> Parsed(cat, text)

\* SetField on a field that can be written: its status, and what is stored.
WriteField(cat, v) ==
  LET input == FieldInput(cat, v)
  IN  IF input.status = "OK" THEN Written(cat, input.cell) ELSE input
WriteStatuses == {"OK", "TYPE_MISMATCH", "ARG_TYPE_MISMATCH", "UNSUPPORTED_TYPE"}

-----------------------------------------------------------------------------
\* Calls.

\* ConvertValueToInvokeInput; the handle of an object argument was resolved.
InvokeInput(cat, v) ==
  CASE v.kind = "Invalid" -> Answer("ARG_TYPE_MISMATCH", NullCell)
    [] v.kind = "Nil" ->
         Answer(IF cat \in {"STRING", "PTR"} THEN "OK" ELSE "ARG_TYPE_MISMATCH", NullCell)
    [] v.kind \notin {"Invalid", "Nil"} ->
         CASE cat = "STRING" /\ v.kind # "String"   -> Answer("ARG_TYPE_MISMATCH", NullCell)
           [] cat = "PTR" /\ v.kind # "Handle"      -> Answer("ARG_TYPE_MISMATCH", NullCell)
           [] cat = "PTR" /\ v.kind = "Handle"      -> Answer("OK", Cell("num", v.n))
           [] cat = "BOOLEAN" /\ v.kind # "Boolean" -> Answer("ARG_TYPE_MISMATCH", NullCell)
           [] cat \in WideCats /\ v.kind # "String" -> Answer("ARG_TYPE_MISMATCH", NullCell)
           [] cat \in InlineCats \cup {"ARRAY", "LIST", "UNKNOWN"} -> Answer("UNSUPPORTED_TYPE", NullCell)
           [] cat \notin {"STRING", "PTR"} /\ Formatted(v).form = "empty" ->
                Answer("ARG_TYPE_MISMATCH", NullCell)
           [] OTHER -> Answer("OK", Formatted(v))

\* What stoll and stoull read without an exception.
Legible(cat, n) ==
  IF cat \in SignedCats THEN InRange("I8", n) ELSE -Highest("U8") <= n /\ n <= Highest("U8")

\* MarshalPrimitiveArg: a number that does not fit is cut to the width of the
\* parameter, a fraction to its whole part.
Marshalled(cat, text) ==
  CASE text.form = "null" -> Answer(IF cat \in {"STRING", "PTR"} THEN "OK" ELSE "BAD_ARGUMENT", NullCell)
    [] text.form # "null" /\ cat \in {"STRING", "PTR"} -> Answer("OK", text)
    [] text.form # "null" /\ cat = "BOOLEAN" ->
         Answer("OK", Cell("num", IF text.form = "true" THEN 1 ELSE 0))
    [] text.form = "decimal" /\ cat \in IntegerCats /\ Legible(cat, text.n) ->
         Answer("OK", Cell("num", Wrapped(cat, text.n)))
    [] text.form = "fraction" /\ cat \in IntegerCats ->
         Answer("OK", Cell("num", Wrapped(cat, IF text.n < 0 THEN -((-text.n) \div 2) ELSE text.n \div 2)))
    [] text.form \in {"decimal", "fraction"} /\ cat \in FloatCats /\ Holds(cat, HalvesOf(text)) ->
         Answer("OK", Cell("num", Rounded(HalvesOf(text), MantissaOf(cat))))
    [] OTHER -> Answer("BAD_ARGUMENT", NullCell)

PassArgument(cat, v) ==
  LET input == InvokeInput(cat, v)
  IN  IF input.status = "OK" THEN Marshalled(cat, input.cell) ELSE input
ArgumentStatuses == {"OK", "BAD_ARGUMENT", "ARG_TYPE_MISMATCH", "UNSUPPORTED_TYPE"}

\* FillTypedReturn and the mapping of its result in Invoke.
ReturnValue(cat, cell) ==
  CASE cat \in WideCats                     -> Value("String", "decimal", cell.n)
    [] cat \in SignedCats \ WideCats        -> Value("Integer", "", cell.n)
    [] cat \in UnsignedCats \ WideCats      -> Value("Unsigned", "", cell.n)
    [] cat \in FloatCats                    -> Value("Number", "", cell.n)
    [] cat = "BOOLEAN"                      -> Bool(IF cell.n # 0 THEN 1 ELSE 0)
    [] cat = "STRING" /\ cell.form = "null" -> Nil
    [] cat = "STRING" /\ cell.form # "null" -> Value("String", Previewed(cell.form), cell.n)
    [] cat \in {"PTR", "ARRAY", "LIST"}     -> IF cell.n = 0 THEN Nil ELSE Value("Handle", "", cell.n)
    [] OTHER                                -> Value("String", "plain", cell.n)

-----------------------------------------------------------------------------
\* The values that a field, a parameter or a result of a category can hold
\* (of the floats, the finite ones).
Contents(cat) ==
  CASE cat \in IntegerCats -> {Cell("num", n) : n \in Lowest(cat)..Highest(cat)}
    [] cat \in FloatCats   -> {Cell("num", Rounded(h, MantissaOf(cat))) : h \in (-Limit[cat])..Limit[cat]}
    [] cat = "BOOLEAN"     -> {Cell("num", 0), Cell("num", 1)}
    [] cat = "STRING"      -> {NullCell, Cell("plain", 1)}

LuaNumbers == {Value("number", "", Rounded(h, DoubleBits)) : h \in (-Limit["R8"])..Limit["R8"]}
\* The second text is a number that no float holds.
LuaValues ==
  LuaNumbers
    \cup {Value("string", form, 1) : form \in Forms}
    \cup {Value("string", "decimal", Limit["R8"])}
    \cup {Value("userdata", form, 1) : form \in {"instance", "class"}}
    \cup {Value("nil", "", 0), Value("boolean", "", 0), Value("boolean", "", 1), Value("table", "", 0)}

Copyable == IntegerCats \cup FloatCats \cup {"BOOLEAN", "STRING"}

\* What arrives of a number of Lua: a whole one beyond int64_t is lost, and
\* its lowest value takes its place.
ThroughLua(h) == IF Overflows(h) THEN 2 * Lowest("I8") ELSE h

\* What is read is a value that can be written, and passed, again; a float
\* becomes another one exactly when it is a whole number beyond int64_t.
ReadsBack(cat) ==
  \A cell \in Contents(cat) :
    LET back == IF cat \in FloatCats /\ Overflows(cell.n)
                THEN Cell("num", Rounded(2 * Lowest("I8"), MantissaOf(cat)))
                ELSE cell
    IN  /\ WriteField(cat, FromLua(ToLua(ReadField(cat, cell)))) = Answer("OK", back)
        /\ PassArgument(cat, FromLua(ToLua(ReturnValue(cat, cell)))) = Answer("OK", back)

\* Every value Lua has is stored as it arrives, or refused with a known status;
\* no integer field takes a number that did not arrive as it was.
StoresOrRefuses(cat) ==
  \A lua \in LuaValues :
    LET written == WriteField(cat, FromLua(lua)) IN
    /\ written.status \in WriteStatuses
    /\ PassArgument(cat, FromLua(lua)).status \in ArgumentStatuses
    /\ (lua.kind = "number" /\ written.status = "OK") =>
         /\ cat \in FloatCats => written.cell.n = Rounded(ThroughLua(lua.n), MantissaOf(cat))
         /\ cat \in IntegerCats => lua.n = 2 * written.cell.n
=============================================================================
