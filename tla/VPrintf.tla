------------------------------ MODULE VPrintf ------------------------------
(***************************************************************************)
(* The printf of software/dhrystone (dhry_printf.c): vprintfmt reads the   *)
(* format a character at a time and keeps what it has seen of a directive  *)
(* in padc, width and precision; digits are first read into precision.     *)
(* The caller's format is a directive of any form and then a plain one, to *)
(* see what the first leaves behind.  A character is a string of one       *)
(* letter.  A double is a number of Unit-ths, with as many binary digits   *)
(* as its significand holds: what it is multiplied by is rounded to them.  *)
(***************************************************************************)
EXTENDS Integers, Sequences

CONSTANTS
    IntMod,      \* 2^32
    Widths,      \* field widths and precisions that callers write
    Unsigneds,   \* numbers they print
    Unit,        \* the fraction in which doubles are written: a power of two
    Significand, \* 2^53: up to here, each whole number is a double
    Doubles      \* magnitudes of the doubles they print, in Unit-ths

ASSUME PrintfAssumption ==
    /\ IntMod \in Nat /\ IntMod > 3 /\ IntMod % 2 = 0
    /\ Widths \subseteq Nat \ {0}
    /\ Unsigneds \subseteq 0..(IntMod - 1)
    /\ Unit \in Nat \ {0} /\ Significand \in Nat \ {0} /\ Doubles \subseteq Nat

VARIABLES
    pf_at,       \* "caller", or vprintfmt is in "text" or in an "escape"
    follows,     \* whether this is the second directive
    piece,       \* history: the directive that is being printed
    out,         \* history: what it has printed
    rest,        \* *fmt
    last_fmt,
    ap,          \* the arguments that are left
    padc, width, precision

pf_vars == <<pf_at, follows, piece, out, rest, last_fmt, ap, padc, width, precision>>

Unset == -1

Digit == <<"0", "1", "2", "3", "4", "5", "6", "7", "8", "9",
           "a", "b", "c", "d", "e", "f">>

DigitValue(ch) == (CHOOSE i \in 1..10 : Digit[i] = ch) - 1

Digits == {Digit[i] : i \in 1..10}

Copies(ch, n) == [i \in 1..n |-> ch]

Lesser(a, b) == IF a < b THEN a ELSE b

(***************************************************************************)
(* base to the n, as print_double multiplies by ten, n times; and the      *)
(* numeral of n, the highest digit first, as C prints it.                  *)
(***************************************************************************)
Power(base, n) ==
    LET power[k \in Nat] == IF k = 0 THEN 1 ELSE base * power[k - 1] IN power[n]

Numeral(n, base) ==
    LET k == CHOOSE j \in 1..(n + 1) :
                Power(base, j) > n /\ (j = 1 \/ Power(base, j - 1) <= n)
    IN  [i \in 1..k |-> Digit[((n \div Power(base, k - i)) % base) + 1]]

(***************************************************************************)
(* What a caller writes: %, a flag, a width, a precision, l, a conversion. *)
(* A width or a precision is Unset or a number and may be a *, whose value *)
(* is an argument of its own; z stands for a letter that means nothing.    *)
(***************************************************************************)
Null   == <<"NULL">>
Texts  == {<<>>, <<"p">>, <<"p", "q", "r">>}
Ints   == {IF n >= IntMod \div 2 THEN n - IntMod ELSE n : n \in Unsigneds}

Plain(conv, text, number) ==
    [flag |-> <<>>, width |-> Unset, star |-> FALSE, prec |-> Unset,
     precStar |-> FALSE, long |-> <<>>, conv |-> conv, text |-> text, number |-> number]

PlainPieces ==
    {Plain("d", <<>>, n) : n \in Ints} \cup {Plain("s", t, 0) : t \in Texts}

Conversions ==
    ({"s"} \X (Texts \cup {Null}) \X {0})
    \cup ({"d"} \X {<<>>} \X Ints)
    \cup ({"u", "o", "x"} \X {<<>>} \X Unsigneds)
    \cup ({"f"} \X {<<>>} \X (Doubles \cup {-n : n \in Doubles}))
    \cup ({"c"} \X {<<"q">>} \X {0})
    \cup ({"p", "%", "z"} \X {<<>>} \X {IntMod - 3})

AnyPieces ==
    {p \in [flag : {<<>>, <<"-">>, <<"0">>, <<"#">>},
            width : {Unset} \cup Widths, star : BOOLEAN,
            prec : {Unset, 0} \cup Widths, precStar : BOOLEAN, long : {<<>>, <<"l">>},
            conv : {c[1] : c \in Conversions}, text : {c[2] : c \in Conversions},
            number : {c[3] : c \in Conversions}] :
        /\ p.width = Unset => ~p.star
        /\ <<p.conv, p.text, p.number>> \in Conversions}

(***************************************************************************)
(* The double nearest to a number of Unit-ths, the even one of two: ulp is *)
(* what the last digit of its significand is worth.  print_double          *)
(* multiplies by ten, prec times, and drops what is left of a Unit.        *)
(***************************************************************************)
Magnitude(n) == IF n < 0 THEN -n ELSE n

Rounded(n) ==
    IF n <= Significand THEN n
    ELSE LET k   == CHOOSE j \in 1..n : /\ n < Significand * Power(2, j)
                                        /\ n >= Significand * Power(2, j - 1)
             ulp == Power(2, k)
             low == n \div ulp
             up  == 2 * (n % ulp) > ulp \/ (2 * (n % ulp) = ulp /\ low % 2 = 1)
         IN  ulp * (IF up THEN low + 1 ELSE low)

ASSUME DoublesAssumption == \A n \in Doubles : Rounded(n) = n

Scaled(n, prec) ==
    LET places == IF prec > 0 THEN prec ELSE 0
        d[i \in 0..places] == IF i = 0 THEN Magnitude(n) ELSE Rounded(d[i - 1] * 10)
    IN  d[places] \div Unit

(***************************************************************************)
(* l belongs to an integer.  print_double converts to unsigned long, which *)
(* is only defined below 2^32, and stores before its buffer when it has    *)
(* fewer digits than the precision: callers must not ask for either.       *)
(***************************************************************************)
Pieces ==
    {p \in AnyPieces :
        /\ p.long # <<>> => p.conv = "d"
        /\ p.conv = "f" => p.prec <= 3 /\ Scaled(p.number, p.prec) < IntMod
                           /\ 10 * Scaled(p.number, p.prec) >= Power(10, IF p.prec > 0 THEN p.prec ELSE 0)}

(***************************************************************************)
(* The directive as characters, and the arguments it takes: of text and    *)
(* number, the conversion uses one.                                        *)
(***************************************************************************)
Number(n) == [text |-> <<>>, number |-> n]

Chars(p) ==
    <<"%">> \o p.flag
    \o (IF p.star THEN <<"*">> ELSE IF p.width = Unset THEN <<>> ELSE Numeral(p.width, 10))
    \o (IF p.precStar THEN <<".", "*">>
        ELSE IF p.prec = Unset THEN <<>> ELSE <<".">> \o Numeral(p.prec, 10))
    \o p.long \o <<p.conv>>

Arguments(p) ==
    (IF p.star THEN <<Number(p.width)>> ELSE <<>>)
    \o (IF p.precStar THEN <<Number(p.prec)>> ELSE <<>>)
    \o (IF p.conv \in {"%", "z"} THEN <<>>
        ELSE <<[text |-> p.text, number |-> p.number]>>)

(***************************************************************************)
(* printnum: the digits, the lowest first, are put out from the end.       *)
(***************************************************************************)
printnum(num, base, w, pad) ==
    LET digs[n \in Nat] == IF n < base THEN <<n>> ELSE <<n % base>> \o digs[n \div base]
        pos == Len(digs[num])
    IN  Copies(pad, w - pos) \o [i \in 1..pos |-> Digit[digs[num][pos + 1 - i] + 1]]

print_double(n, prec) ==
    LET digits == printnum(Scaled(n, prec), 10, 0, " ")
        whole  == Len(digits) - prec
    IN  (IF n < 0 THEN <<"-">> ELSE <<>>)
        \o (IF prec > 0 THEN SubSeq(digits, 1, whole) \o <<".">>
                              \o SubSeq(digits, whole + 1, Len(digits))
                        ELSE digits)

(***************************************************************************)
(* vprintfmt.  The caller hands over the format; after the second          *)
(* directive its end is reached.                                           *)
(***************************************************************************)
PfInit ==
    /\ pf_at = "caller" /\ follows = FALSE /\ piece = Plain("d", <<>>, 0) /\ out = <<>>
    /\ rest = <<>> /\ last_fmt = <<>> /\ ap = <<>>
    /\ padc = " " /\ width = Unset /\ precision = Unset

Directive(p) ==
    /\ pf_at' = "text" /\ piece' = p /\ out' = <<>>
    /\ rest' = Chars(p) /\ ap' = ap \o Arguments(p)
    /\ UNCHANGED <<last_fmt, padc, width, precision>>

CallPrintf ==
    /\ pf_at = "caller"
    /\ \E p \in Pieces : Directive(p)
    /\ UNCHANGED follows

SecondDirective ==
    /\ pf_at = "text" /\ rest = <<>> /\ ~follows
    /\ follows' = TRUE
    /\ \E p \in PlainPieces : Directive(p)

ReturnToCaller ==
    /\ pf_at = "text" /\ rest = <<>> /\ follows
    /\ pf_at' = "caller" /\ follows' = FALSE
    /\ piece' = Plain("d", <<>>, 0) /\ out' = <<>> /\ last_fmt' = <<>> /\ ap' = <<>>
    /\ padc' = " " /\ width' = Unset /\ precision' = Unset
    /\ UNCHANGED rest

PutText ==
    /\ pf_at = "text" /\ rest # <<>> /\ Head(rest) # "%"
    /\ out' = Append(out, Head(rest)) /\ rest' = Tail(rest)
    /\ UNCHANGED <<pf_at, follows, piece, last_fmt, ap, padc, width, precision>>

\* Mistake: the precision of the last directive is kept.
StartEscapeStale ==
    /\ pf_at = "text" /\ rest # <<>> /\ Head(rest) = "%"
    /\ pf_at' = "escape"
    /\ rest' = Tail(rest) /\ last_fmt' = Tail(rest)
    /\ padc' = " " /\ width' = Unset
    /\ UNCHANGED <<follows, piece, out, ap, precision>>

StartEscape ==
    /\ pf_at = "text" /\ rest # <<>> /\ Head(rest) = "%"
    /\ pf_at' = "escape"
    /\ rest' = Tail(rest) /\ last_fmt' = Tail(rest)
    /\ padc' = " " /\ width' = Unset /\ precision' = Unset
    /\ UNCHANGED <<follows, piece, out, ap>>

(***************************************************************************)
(* reswitch: the next character of the directive.                          *)
(***************************************************************************)
Case(ch) == pf_at = "escape" /\ Head(rest) = ch

Reswitch ==
    /\ rest' = Tail(rest)
    /\ UNCHANGED <<pf_at, follows, piece, out, last_fmt>>

Flag ==
    /\ \E ch \in {"-", "0"} : Case(ch) /\ padc' = ch
    /\ Reswitch /\ UNCHANGED <<ap, width, precision>>

process_precision(number) ==
    IF width < 0 THEN width' = number /\ precision' = Unset
                 ELSE precision' = number /\ UNCHANGED width

NumberField ==
    /\ \E ch \in Digits \ {"0"} : Case(ch)
    /\ LET n      == CHOOSE k \in 1..Len(rest) :
                        /\ \A i \in 1..k : rest[i] \in Digits
                        /\ rest[k + 1] \notin Digits
           num[k \in 0..n] == IF k = 0 THEN 0 ELSE 10 * num[k - 1] + DigitValue(rest[k])
       IN  process_precision(num[n]) /\ rest' = SubSeq(rest, n + 1, Len(rest))
    /\ UNCHANGED <<pf_at, follows, piece, out, last_fmt, ap, padc>>

Star ==
    /\ Case("*")
    /\ process_precision(Head(ap).number) /\ ap' = Tail(ap)
    /\ Reswitch /\ UNCHANGED padc

Point ==
    /\ Case(".")
    /\ width' = IF width < 0 THEN 0 ELSE width
    /\ Reswitch /\ UNCHANGED <<ap, padc, precision>>

(***************************************************************************)
(* lflag is never set before l tests it, and a long has the width of an    *)
(* int; altflag is set and never tested.                                   *)
(***************************************************************************)
LongOrAltFlag ==
    /\ \E ch \in {"l", "#"} : Case(ch)
    /\ Reswitch /\ UNCHANGED <<ap, padc, width, precision>>

Converted(text) ==
    /\ out' = out \o text /\ ap' = Tail(ap)
    /\ pf_at' = "text" /\ rest' = Tail(rest)
    /\ UNCHANGED <<follows, piece, last_fmt, padc>>

Character ==
    /\ Case("c") /\ Converted(Head(ap).text) /\ UNCHANGED <<width, precision>>

Double ==
    /\ Case("f") /\ Converted(print_double(Head(ap).number, precision))
    /\ UNCHANGED <<width, precision>>

(***************************************************************************)
(* %s: width counts down over the padding and the characters.              *)
(***************************************************************************)
NullText == <<"(", "n", "u", "l", "l", ")">>

String ==
    /\ Case("s")
    /\ LET p     == IF Head(ap).text = Null THEN NullText ELSE Head(ap).text
           shown == IF precision < 0 THEN Len(p) ELSE Lesser(precision, Len(p))
           pads  == IF width > 0 /\ padc # "-" THEN width - shown ELSE 0
           left  == IF width > 0 /\ padc # "-"
                    THEN Lesser(width - shown, 0) - shown ELSE width - shown
       IN  /\ Converted(Copies(padc, pads) \o SubSeq(p, 1, shown) \o Copies(" ", left))
           /\ width' = Lesser(left, 0)
           /\ precision' = IF precision < 0 THEN precision
                           ELSE precision - shown - (IF shown < Len(p) THEN 1 ELSE 0)

(***************************************************************************)
(* A number is converted to unsigned long; a negative one prints its sign  *)
(* first and is negated.                                                   *)
(***************************************************************************)
Signed ==
    /\ Case("d")
    /\ LET n == Head(ap).number
       IN  Converted(IF n < 0
                     THEN <<"-">> \o printnum((-n) % IntMod, 10, width, padc)
                     ELSE printnum(n, 10, width, padc))
    /\ UNCHANGED <<width, precision>>

Base == [u |-> 10, o |-> 8, x |-> 16, p |-> 16]

Unsigned ==
    /\ \E ch \in DOMAIN Base :
          /\ Case(ch)
          /\ Converted((IF ch = "p" THEN <<"0", "x">> ELSE <<>>)
                       \o printnum(Head(ap).number, Base[ch], width, padc))
    /\ UNCHANGED <<width, precision>>

Percent ==
    /\ Case("%")
    /\ out' = Append(out, "%") /\ pf_at' = "text" /\ rest' = Tail(rest)
    /\ UNCHANGED <<follows, piece, last_fmt, ap, padc, width, precision>>

(***************************************************************************)
(* bad: print the %, and the rest of the directive as text.                *)
(***************************************************************************)
Bad ==
    /\ Case("z")
    /\ out' = Append(out, "%") /\ pf_at' = "text" /\ rest' = last_fmt
    /\ UNCHANGED <<follows, piece, last_fmt, ap, padc, width, precision>>

PfNext ==
    \/ CallPrintf \/ SecondDirective \/ ReturnToCaller
    \/ PutText \/ StartEscape \/ Flag \/ NumberField \/ Star \/ Point \/ LongOrAltFlag
    \/ Character \/ Double \/ String \/ Signed \/ Unsigned \/ Percent \/ Bad

(***************************************************************************)
(* What the C library prints for a directive, as far as vprintfmt agrees   *)
(* with it: only strings are left-justified, no #, no precision and no     *)
(* width of a negative number; doubles without a width and not below 1,    *)
(* with no more digits than the significand holds once they are scaled     *)
(* (or the products are rounded), and a rest that C rounds down.           *)
(***************************************************************************)
Exact(p) == Magnitude(p.number) * Power(10, p.prec)

Justified(text, p, pad) ==
    LET fill == p.width - Len(text)
    IN  IF p.flag = <<"-">> THEN text \o Copies(" ", fill) ELSE Copies(pad, fill) \o text

Bare(p) == p.flag = <<>> /\ p.width = Unset /\ p.prec = Unset

Supported(p) == p.flag # <<"#">> /\
    CASE p.conv = "s" -> p.flag # <<"0">> /\ (p.prec = 0 => p.precStar)
      [] p.conv \in {"d", "u", "o", "x"} ->
            /\ p.flag # <<"-">> /\ p.prec = Unset /\ ~p.precStar
            /\ p.width = Unset \/ p.number >= 0
      [] p.conv = "f" ->
            /\ p.flag = <<>> /\ p.width = Unset /\ p.prec > 0
            /\ Magnitude(p.number) >= Unit /\ Exact(p) <= Significand
            /\ 2 * (Exact(p) % Unit) < Unit
      [] p.conv = "z" -> ~p.star /\ ~p.precStar
      [] OTHER -> Bare(p)

InC(p) ==
    LET string  == IF p.text = Null THEN NullText ELSE p.text
        decimal == (IF p.number < 0 THEN <<"-">> ELSE <<>>) \o Numeral(Magnitude(p.number), 10)
        scaled  == Exact(p) \div Unit
        pad     == IF p.flag = <<"0">> THEN "0" ELSE " "
    IN  CASE p.conv = "s" ->
                Justified(IF p.prec < 0 THEN string
                          ELSE SubSeq(string, 1, Lesser(p.prec, Len(string))), p, " ")
          [] p.conv = "d" -> Justified(decimal, p, pad)
          [] p.conv \in {"u", "o", "x"} -> Justified(Numeral(p.number, Base[p.conv]), p, pad)
          [] p.conv = "f" ->
                (IF p.number < 0 THEN <<"-">> ELSE <<>>)
                \o Numeral(scaled \div Power(10, p.prec), 10) \o <<".">>
                \o [i \in 1..p.prec |->
                       Digit[((scaled \div Power(10, p.prec - i)) % 10) + 1]]
          [] p.conv = "p" -> <<"0", "x">> \o Numeral(p.number, 16)
          [] p.conv = "c" -> p.text
          [] p.conv = "%" -> <<"%">>
          [] p.conv = "z" -> Chars(p)

(***************************************************************************)
(* Each directive prints what it prints in C, whatever the directive       *)
(* before it left in vprintfmt's variables; one that means nothing is      *)
(* printed literally.                                                      *)
(***************************************************************************)
PrintsAsC ==
    pf_at = "text" /\ rest = <<>> /\ Supported(piece) => out = InC(piece)
=============================================================================
