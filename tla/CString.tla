------------------------------ MODULE CString ------------------------------
(***************************************************************************)
(* Formatting numbers and text, and reading numbers back.  A string is a   *)
(* sequence of characters, each a string of one; a number is what a        *)
(* machine word holds, negative ones being in the upper half.              *)
(*                                                                         *)
(* %n, which writes to memory and which no call uses, is left out.         *)
(***************************************************************************)
EXTENDS Integers, Sequences, SequencesExt, FiniteSetsExt, TLC

CONSTANTS Word,         (* 2^32 *)
          HalfWord,     (* 2^16, what %h cuts a number to *)
          PointerSize   (* 4 *)

ASSUME WordAssumption == Word % 2 = 0 /\ HalfWord % 2 = 0 /\ HalfWord \in 2..Word

small_digits == <<"0", "1", "2", "3", "4", "5", "6", "7", "8", "9", "a", "b", "c", "d", "e", "f">>
large_digits == <<"0", "1", "2", "3", "4", "5", "6", "7", "8", "9", "A", "B", "C", "D", "E", "F">>

DecimalDigits == Range(SubSeq(small_digits, 1, 10))

(* The classes _ctype gives a character, of those somebody here asks for.  *)
ctype(c) ==
  (IF c \in DecimalDigits THEN {"_D"} ELSE {})
    \cup (IF c \in Range(SubSeq(small_digits, 11, 16)) THEN {"_L", "_X"} ELSE {})
    \cup (IF c \in Range(SubSeq(large_digits, 11, 16)) THEN {"_U", "_X"} ELSE {})

isdigit(c) == "_D" \in ctype(c)
isxdigit(c) == ctype(c) \cap {"_D", "_X"} # {}

(* The digit's value, in either case.                                      *)
value(c) == CHOOSE v \in 0..15 : c \in {small_digits[v + 1], large_digits[v + 1]}

(* The terminator reads as the empty string.                               *)
CharAt(s, i) == IF i \in DOMAIN s THEN s[i] ELSE ""

(* The first place from i on where no character of the set stands.         *)
skip(s, i, set) == Min({j \in i..Len(s) + 1 : CharAt(s, j) \notin set})

times(n, c) == [i \in 1..Max({n, 0}) |-> c]
-----------------------------------------------------------------------------
(* Reading                                                                 *)

digits_value(s, base) == FoldLeft(LAMBDA sum, c : (sum * base + value(c)) % Word, 0, s)

(* Without a base, one is told by how the number begins.                   *)
str_to_u32int(cp, base) ==
  LET octal == base = 0 /\ CharAt(cp, 1) = "0"
      hex == octal /\ CharAt(cp, 2) = "x" /\ isxdigit(CharAt(cp, 3))
      radix == CASE hex -> 16 [] octal /\ ~hex -> 8 [] ~octal /\ base = 0 -> 10 [] OTHER -> base
      start == CASE hex -> 3 [] octal /\ ~hex -> 2 [] OTHER -> 1
      accepted == {c \in Range(small_digits) \cup Range(large_digits) : value(c) < radix}
  IN  digits_value(SubSeq(cp, start, skip(cp, start, accepted) - 1), radix)

str_to_s32int(cp, base) ==
  IF CharAt(cp, 1) = "-" THEN (Word - str_to_u32int(Tail(cp), base)) % Word
  ELSE str_to_u32int(cp, base)
-----------------------------------------------------------------------------
(* number: flags are the set of those given, without the leading %.        *)

digits_of(num, base, digits) ==
  LET rest[n \in 0..num] ==
        IF n < base THEN <<digits[n + 1]>>
        ELSE Append(rest[n \div base], digits[(n % base) + 1])
  IN  rest[num]

(* Mutant: the smallest number, which has no positive counterpart, is lost. *)
magnitude_of_int(num, signed) ==
  IF signed /\ num >= Word \div 2 THEN (Word - num) % (Word \div 2) ELSE num

magnitude(num, signed) == IF signed /\ num >= Word \div 2 THEN Word - num ELSE num

sign_of(num, flags) ==
  IF "SIGN" \notin flags THEN <<>>
  ELSE CASE num >= Word \div 2 -> <<"-">>
         [] num < Word \div 2 /\ "+" \in flags -> <<"+">>
         [] num < Word \div 2 /\ "+" \notin flags /\ " " \in flags -> <<" ">>
         [] OTHER -> <<>>

prefix_of(base, flags) ==
  CASE "#" \in flags /\ base = 16 -> <<"0", IF "LARGE" \in flags THEN "X" ELSE "x">>
    [] "#" \in flags /\ base = 8 -> <<"0">>
    [] OTHER -> <<>>

number(num, base, size, precision, flags) ==
  LET digits == digits_of(magnitude(num, "SIGN" \in flags), base,
                          IF "LARGE" \in flags THEN large_digits ELSE small_digits)
      head == sign_of(num, flags) \o prefix_of(base, flags)
      body == times(precision - Len(digits), "0") \o digits
      gap == size - Len(head) - Len(body)
  IN  CASE "-" \in flags -> head \o body \o times(gap, " ")
        [] "-" \notin flags /\ "0" \in flags -> head \o times(gap, "0") \o body
        [] OTHER -> times(gap, " ") \o head \o body
-----------------------------------------------------------------------------
(* vsnprintf                                                               *)

skip_atoi(s, i) == digits_value(SubSeq(s, i, skip(s, i, DecimalDigits) - 1), 10)

(* A field at a place of a format: digits, or * for the next argument.     *)
field(fmt, at, args, arg, default) ==
  CASE isdigit(CharAt(fmt, at)) ->
         [value |-> skip_atoi(fmt, at), at |-> skip(fmt, at, DecimalDigits), arg |-> arg]
    [] CharAt(fmt, at) = "*" -> [value |-> args[arg], at |-> at + 1, arg |-> arg + 1]
    [] OTHER -> [value |-> default, at |-> at, arg |-> arg]

(* What is known of a conversion, part by part: the flags behind its %...  *)
with_flags(fmt, first, last, arg) ==
  [flags |-> Range(SubSeq(fmt, first, last - 1)), at |-> last, arg |-> arg]

(* ... its width, where a negative argument asks for the left side, ...    *)
with_width(spec, width) ==
  [spec EXCEPT !.at = width.at, !.arg = width.arg,
               !.flags = @ \cup (IF width.value < -1 THEN {"-"} ELSE {})]
    @@ [width |-> IF width.value < -1 THEN -width.value ELSE width.value]

(* ... its precision, and the qualifier with the letter.                   *)
with_precision(spec, precision) ==
  [spec EXCEPT !.at = precision.at, !.arg = precision.arg] @@ [precision |-> precision.value]

precision_field(fmt, at, args, arg) ==
  IF CharAt(fmt, at) # "." THEN [value |-> -1, at |-> at, arg |-> arg]
  ELSE LET given == field(fmt, at + 1, args, arg, 0) IN [given EXCEPT !.value = Max({@, 0})]

QualifierLength(first, second) ==
  CASE first = "l" /\ second = "l" -> 2
    [] first \in {"h", "l", "L", "Z", "z"} /\ ~(first = "l" /\ second = "l") -> 1
    [] OTHER -> 0

with_letter(spec, fmt, length) ==
  [spec EXCEPT !.at = @ + length]
    @@ [half |-> CharAt(fmt, spec.at) = "h", letter |-> CharAt(fmt, spec.at + length)]

qualified(spec, fmt) ==
  with_letter(spec, fmt, QualifierLength(CharAt(fmt, spec.at), CharAt(fmt, spec.at + 1)))
measured(spec, fmt, args) ==
  qualified(with_precision(spec, precision_field(fmt, spec.at, args, spec.arg)), fmt)
flagged(spec, fmt, args) ==
  measured(with_width(spec, field(fmt, spec.at, args, spec.arg, -1)), fmt, args)

(* The conversion that begins with the % at place i.                       *)
conversion(fmt, i, args, a) ==
  flagged(with_flags(fmt, i + 1, skip(fmt, i + 1, {"-", "+", " ", "#", "0"}), a), fmt, args)

Signed(letter) == letter \in {"d", "i"}
Bases == [letter \in {"o", "x", "X", "p", "d", "i", "u"} |->
            CASE letter = "o" -> 8 [] letter \in {"x", "X", "p"} -> 16 [] OTHER -> 10]

justified(text, spec) ==
  IF "-" \in spec.flags THEN text \o times(spec.width - Len(text), " ")
  ELSE times(spec.width - Len(text), " ") \o text

(* %h cuts the number to half a word and keeps its sign.                   *)
halved(num, letter) ==
  LET n == num % HalfWord
  IN  IF Signed(letter) /\ n >= HalfWord \div 2 THEN n + Word - HalfWord ELSE n

converted(spec, arg) ==
  CASE spec.letter = "c" -> justified(<<arg>>, spec)
    [] spec.letter = "s" ->
         justified(IF spec.precision = -1 THEN arg
                   ELSE SubSeq(arg, 1, Min({spec.precision, Len(arg)})), spec)
    [] spec.letter = "p" ->
         LET default == spec.width = -1 IN
         number(arg, 16, IF default THEN 2 * PointerSize ELSE spec.width, spec.precision,
                spec.flags \cup (IF default THEN {"0"} ELSE {}))
    [] spec.letter \in DOMAIN Bases \ {"p"} ->
         number(IF spec.half THEN halved(arg, spec.letter) ELSE arg, Bases[spec.letter],
                spec.width, spec.precision,
                spec.flags \cup (IF spec.letter = "X" THEN {"LARGE"} ELSE {})
                           \cup (IF Signed(spec.letter) THEN {"SIGN"} ELSE {}))
    [] OTHER -> <<>>

takes_argument(letter) == letter \in {"c", "s"} \cup DOMAIN Bases

(* A letter that means nothing is kept, behind its %.                      *)
written(spec, args) ==
  CASE takes_argument(spec.letter) -> converted(spec, args[spec.arg])
    [] spec.letter \in {"%", ""} -> <<"%">>
    [] OTHER -> <<"%", spec.letter>>

(* What is formatted from place i of the format and argument a on.         *)
vsnprintf(fmt, args) ==
  LET text[i \in 1..Len(fmt) + 1, a \in 1..Len(args) + 1] ==
        LET rest(spec) ==
              written(spec, args) \o text[Min({spec.at, Len(fmt)}) + 1,
                                          spec.arg + (IF takes_argument(spec.letter) THEN 1 ELSE 0)]
        IN  CASE i > Len(fmt) -> <<>>
              [] i <= Len(fmt) /\ fmt[i] # "%" -> <<fmt[i]>> \o text[i + 1, a]
              [] OTHER -> rest(conversion(fmt, i, args, a))
  IN  text[1, 1]
=============================================================================
