------------------------------ MODULE Scalars ------------------------------
(***************************************************************************)
(* How sizes, percentages and service types are read from JSON and printed *)
(* (convert/pkg/graph/size, pct and svctype).                              *)
(*                                                                         *)
(* A parser that may fail returns a set: the one value it has read, or {}  *)
(* for an error.  A JSON text that stands for a number of bytes is kept as *)
(* its digits, how many of them follow the point, and its unit (0 for B, 1 *)
(* for KiB, 2 for MiB ...); percentages count ten-thousandths, and a text  *)
(* like "5%" is kept as its number and whether it has the sign.            *)
(* Sizes stay below SizeLimit, which keeps TLC's integers at 32 bits.      *)
(***************************************************************************)
EXTENDS Integers

Num(x) == [json |-> "number", value |-> x]
Str(x) == [json |-> "string", value |-> x]
Bool(x) == [json |-> "boolean", value |-> x]
Array(x) == [json |-> "array", value |-> x]
Object(x) == [json |-> "object", value |-> x]

\* json.Unmarshal into a Go value that takes one kind of JSON value.
Value(j, kind) == IF j.json = kind THEN {j.value} ELSE {}

-----------------------------------------------------------------------------
(* size.ByteSize                                                           *)

KiB == 1024
MiB == 1048576
SizeLimit == 1073741824

Unit(z) == IF z < KiB THEN 0 ELSE IF z < MiB THEN 1 ELSE 2
Scale(unit) == IF unit = 0 THEN 1 ELSE IF unit = 1 THEN KiB ELSE MiB

\* "%.4g": four digits in all, so many of them after the point.
Precision(whole) ==
  IF whole < 10 THEN 3 ELSE IF whole < 100 THEN 2 ELSE IF whole < 1000 THEN 1 ELSE 0
Tens(n) == IF n = 0 THEN 1 ELSE IF n = 1 THEN 10 ELSE IF n = 2 THEN 100 ELSE 1000

\* Mutant: what "%.3g" prints.
StringOfThreeDigits(z) ==
  LET scale == Scale(Unit(z))
      n == IF Unit(z) = 0 THEN 0 ELSE IF Precision(z \div scale) = 0 THEN 0
                                      ELSE Precision(z \div scale) - 1
      down == (z \div scale) * Tens(n) + ((z % scale) * Tens(n)) \div scale
  IN  [digits |-> down, decimals |-> n, unit |-> Unit(z)]

\* ByteSize.String: the value in its unit, rounded to the nearest decimal, a
\* tie to the even one.
String(z) ==
  LET scale == Scale(Unit(z))
      n == IF Unit(z) = 0 THEN 0 ELSE Precision(z \div scale)
      down == (z \div scale) * Tens(n) + ((z % scale) * Tens(n)) \div scale
      twice == 2 * (((z % scale) * Tens(n)) % scale)
  IN  [digits   |-> IF twice > scale \/ (twice = scale /\ down % 2 = 1) THEN down + 1 ELSE down,
       decimals |-> n, unit |-> Unit(z)]

\* units.RAMInBytes knows the units up to PiB and drops the fraction of a byte.
RAMInBytes(text) ==
  IF text.unit \notin 0 .. 5 THEN {}
  ELSE LET tens == Tens(text.decimals)
           scale == Scale(text.unit)
       IN  {(text.digits \div tens) * scale + ((text.digits % tens) * scale) \div tens}

FromInt64(x) == IF x < 0 THEN {} ELSE {x}

ByteSize(j) ==
  IF j.json = "string" THEN UNION {FromInt64(x) : x \in RAMInBytes(j.value)}
  ELSE UNION {FromInt64(x) : x \in Value(j, "number")}

-----------------------------------------------------------------------------
(* pct.Percentage                                                          *)

Whole == 10000

\* Mutant: the sign is not required.
FromPercentOrNumber(text) == {text.number * 100}

FromPercentString(text) == IF text.percent THEN {text.number * 100} ELSE {}

FromFloat64(f) == IF 0 <= f /\ f <= Whole THEN {f} ELSE {}

Percentage(j) ==
  IF j.json = "string" THEN UNION {FromFloat64(f) : f \in FromPercentString(j.value)}
  ELSE UNION {FromFloat64(f) : f \in Value(j, "number")}

-----------------------------------------------------------------------------
(* svctype.ServiceType                                                     *)

TypeFromString(s) == IF s = "http" THEN {"HTTP"} ELSE IF s = "grpc" THEN {"gRPC"} ELSE {}

ServiceType(j) == UNION {TypeFromString(s) : s \in Value(j, "string")}

\* strings.ToLower of ServiceType.String.
LowerCase(type) == IF type = "HTTP" THEN "http" ELSE "grpc"
=============================================================================
