---------------------------- MODULE RedisFormat ----------------------------
(***************************************************************************)
(* How hiredis.c turns a printf like format and its variable arguments     *)
(* into the bytes of the redis protocol.  A format is a sequence of bytes; *)
(* of each variable argument only the text counts that it puts into the    *)
(* command: the bytes of a %s or %b, and of any other conversion what      *)
(* vsnprintf makes of it.                                                  *)
(***************************************************************************)
EXTENDS RedisReader

CONSTANT FormatRoom    \* sizeof(_format) - 2, 14 in the code

\* Mutant: ten is taken for a number of one digit.
intlenTen(i) == IF i <= 10 THEN 1 ELSE 2

RECURSIVE intlen(_)
intlen(i) == IF i < 10 THEN 1 ELSE 1 + intlen(i \div 10)

bulklen(len) == 1 + intlen(len) + 2 + len + 2

\* The bytes the code makes room for.
totlen(argv) ==
    FoldLeft(LAMBDA sum, a : sum + bulklen(Len(a)), 1 + intlen(Len(argv)) + 2, argv)

\* The command as bytes; the assertion that they fill the room exactly ends
\* the program otherwise ("aborted").
redisFormatCommandArgv(argv) ==
    LET cmd == <<"*">> \o Digits(Len(argv)) \o <<CR, LF>>
               \o FlattenSeq([j \in 1..Len(argv) |->
                    <<"$">> \o Digits(Len(argv[j])) \o <<CR, LF>> \o argv[j] \o <<CR, LF>>])
    IN  IF Len(cmd) = totlen(argv) THEN [k |-> "ok", cmd |-> cmd]
        ELSE [k |-> "aborted", cmd |-> <<>>]

(***************************************************************************)
(* Recognising a conversion: f is the format, i the byte behind the '%'.   *)
(* The end of the format is the terminating zero.  Zero is the result when *)
(* the conversion is not known, its last byte otherwise.  strchr() finds   *)
(* the terminating zero in any string, so a conversion that the end of the *)
(* format cuts off counts as known, unless a size precedes the end.        *)
(***************************************************************************)
At(f, i) == IF i <= Len(f) THEN f[i] ELSE "zero"

SkipDigits(f, i) == Min({j \in i..(Len(f) + 1) : At(f, j) \notin DOMAIN DigitOf})

intfmts == {"d", "i", "o", "u", "x", "X"}
doublefmts == {"e", "E", "f", "F", "g", "G", "a", "A"}

ConversionEnd(f, i) ==
    LET flags == FoldLeft(LAMBDA j, b : IF At(f, j) = b THEN j + 1 ELSE j,
                          i, <<"#", "0", "-", " ", "+">>)
        width == SkipDigits(f, flags)
        p == IF At(f, width) = "." THEN SkipDigits(f, width + 1) ELSE width
        sized == IF At(f, p + 1) = At(f, p) THEN p + 2 ELSE p + 1
    IN  IF At(f, p) \in intfmts \cup doublefmts \cup {"zero"} THEN p
        ELSE IF At(f, p) \in {"h", "l"} /\ At(f, sized) \in intfmts THEN sized
        ELSE 0

(***************************************************************************)
(* The loop of redisvFormatCommand at byte i of the format f: ap holds the *)
(* variable arguments left, cur is the argument being built, touched tells *)
(* an empty argument from none.  A conversion that does not fit _format is *)
(* not performed: its argument and its first byte are skipped, the rest is *)
(* taken literally.  Behind a conversion cut off by the end of the format  *)
(* the loop goes on beyond that end: "wild".                               *)
(***************************************************************************)
Args(k, argv) == [k |-> k, argv |-> argv]

RECURSIVE FormatArgs(_, _, _, _, _, _)
FormatArgs(f, ap, i, cur, touched, argv) ==
    LET rest == IF ap = <<>> THEN <<>> ELSE Tail(ap)
        end == ConversionEnd(f, i + 1)
        Add(v, left, next) == FormatArgs(f, left, next, cur \o v, TRUE, argv)
    IN  IF i > Len(f) THEN Args("ok", IF touched THEN Append(argv, cur) ELSE argv)
        ELSE IF f[i] # "%" \/ i = Len(f)
        THEN IF f[i] # " " THEN Add(<<f[i]>>, ap, i + 1)
             ELSE IF touched THEN FormatArgs(f, ap, i + 1, <<>>, FALSE, Append(argv, cur))
             ELSE FormatArgs(f, ap, i + 1, cur, FALSE, argv)
        ELSE CASE f[i + 1] \in {"s", "b"} -> Add(Head(ap), rest, i + 2)
               [] f[i + 1] = "%" -> Add(<<"%">>, ap, i + 2)
               [] f[i + 1] \notin {"s", "b", "%"} /\ end = 0 -> Args("err", <<>>)
               [] f[i + 1] \notin {"s", "b", "%"} /\ end # 0 /\ end - i + 1 >= FormatRoom ->
                    Add(<<>>, rest, i + 2)
               [] OTHER -> IF end > Len(f) THEN Args("wild", <<>>) ELSE Add(Head(ap), rest, end + 1)

\* "err" stands for the result -1.
redisvFormatCommand(format, ap) ==
    LET a == FormatArgs(format, ap, 1, <<>>, FALSE, <<>>)
    IN  IF a.k = "ok" THEN redisFormatCommandArgv(a.argv) ELSE [k |-> a.k, cmd |-> <<>>]

(***************************************************************************)
(* What a caller means: a command is a sequence of arguments, an argument  *)
(* a sequence of parts [spec, text].  A part with an empty spec is written *)
(* into the format (a '%' twice), any other is handed over as a variable   *)
(* argument behind '%' and its spec.                                       *)
(***************************************************************************)
Meaning(command) ==
    [j \in DOMAIN command |-> FlattenSeq([i \in DOMAIN command[j] |-> command[j][i].text])]

Doubled(s) == FlattenSeq([i \in DOMAIN s |-> IF s[i] = "%" THEN <<"%", "%">> ELSE <<s[i]>>])

Spelled(command) ==
    FlattenSeq([j \in DOMAIN command |->
        (IF j = 1 THEN <<>> ELSE <<" ">>)
        \o FlattenSeq([i \in DOMAIN command[j] |->
               IF command[j][i].spec = <<>> THEN Doubled(command[j][i].text)
               ELSE <<"%">> \o command[j][i].spec])])

Parts(command) == FlattenSeq(command)

Varargs(command) ==
    LET handed == SelectSeq(Parts(command), LAMBDA p : p.spec # <<>>)
    IN  [i \in DOMAIN handed |-> handed[i].text]

Long(part) == Len(part.spec) + 1 >= FormatRoom
Letters == intfmts \cup doublefmts \cup {"s", "b"}
Unended(part) == part.spec # <<>> /\ Last(part.spec) \in DOMAIN DigitOf
Unknown(part) == part.spec # <<>> /\ ~Unended(part) /\ Last(part.spec) \notin Letters
=============================================================================
