----------------------------- MODULE QueryString -----------------------------
(***************************************************************************)
(* The query string (lib/objects/duda_qs.c) and numbers in a request       *)
(* (lib/duda_utils.c).  A string is a sequence of characters.              *)
(***************************************************************************)
EXTENDS SequencesExt, Integers

CONSTANTS QsMax,   \* QS_ENTRIES_SIZE, the entries a request has room for
          LongMax  \* LONG_MAX

\* The loop of duda_qs_parse: key is where the key starts, val the equal
\* sign after it, both 0 for NULL.
Entry(s, key, val, i) == [key |-> SubSeq(s, key, val - 1), value |-> SubSeq(s, val + 1, i - 1)]
RECURSIVE QsScan(_, _, _, _, _)
QsScan(s, i, key, val, entries) ==
    LET done == IF key > 0 /\ val > 0 THEN Append(entries, Entry(s, key, val, i)) ELSE entries
    IN IF i > Len(s) THEN done
       ELSE IF s[i] = "&" THEN QsScan(s, i + 1, 0, 0, done)
       ELSE IF s[i] = "=" THEN QsScan(s, i + 1, key, IF key > 0 /\ val = 0 THEN i ELSE val, entries)
       ELSE QsScan(s, i + 1, IF key = 0 THEN i ELSE key, val, entries)
\* Mutant: a second equal sign starts the value again.
RECURSIVE QsScanLast(_, _, _, _, _)
QsScanLast(s, i, key, val, entries) ==
    LET done == IF key > 0 /\ val > 0 THEN Append(entries, Entry(s, key, val, i)) ELSE entries
    IN IF i > Len(s) THEN done
       ELSE IF s[i] = "&" THEN QsScanLast(s, i + 1, 0, 0, done)
       ELSE IF s[i] = "=" THEN QsScanLast(s, i + 1, key, IF key > 0 THEN i ELSE val, entries)
       ELSE QsScanLast(s, i + 1, IF key = 0 THEN i ELSE key, val, entries)
duda_qs_parse_last(s) == QsScanLast(s, 1, 0, 0, <<>>)

duda_qs_parse(s) == QsScan(s, 1, 0, 0, <<>>)

\* duda_qs_get and duda_qs_get_id; <<"NULL">> when there is none.
duda_qs_get(entries, key) ==
    LET k == SelectInSeq(entries, LAMBDA e : e.key = key)
    IN IF k = 0 THEN <<"NULL">> ELSE entries[k].value
duda_qs_get_id(entries, idx) ==
    IF idx < 0 \/ idx >= Len(entries) THEN <<"NULL">> ELSE entries[idx + 1].value

\* duda_qs_cmp compares as much as the entry has.
duda_qs_cmp(entries, key, value) ==
    \E k \in DOMAIN entries : IsPrefix(entries[k].key, key) /\ IsPrefix(entries[k].value, value)

\* duda_utils_strtol: <<value, 0>>, or <<0, -1>>.  The first character of an
\* empty field, and the one after a lone sign, belong to something else.
Digit == [c \in {"0", "1", "2", "3", "4", "5", "6", "7", "8", "9"} |->
            CHOOSE d \in 0..9 : <<"0", "1", "2", "3", "4", "5", "6", "7", "8", "9">>[d + 1] = c]
RECURSIVE Accumulate(_, _, _, _, _)
Accumulate(s, i, acc, any, max) ==
    IF i > Len(s) THEN <<acc, any>>
    ELSE IF s[i] \notin DOMAIN Digit THEN <<acc, -1>>
    ELSE LET c == Digit[s[i]]
             cutoff == max \div 10
         IN IF any < 0 \/ acc > cutoff \/ (acc = cutoff /\ c > max % 10)
            THEN Accumulate(s, i + 1, acc, -1, max)
            ELSE Accumulate(s, i + 1, acc * 10 + c, 1, max)
duda_utils_strtol(s) ==
    LET neg  == s # <<>> /\ s[1] = "-"
        from == IF s # <<>> /\ s[1] \in {"-", "+"} THEN 2 ELSE 1
        r    == Accumulate(s, from, 0, 0, IF neg THEN LongMax + 1 ELSE LongMax)
    IN IF r[2] < 0 THEN <<0, -1>> ELSE <<IF neg THEN -r[1] ELSE r[1], 0>>

(***************************************************************************)
(* What they mean.                                                         *)
(***************************************************************************)

\* The pieces between ampersands, without the equal signs they begin with.
Pieces(s) ==
    LET cuts == SelectSeq([i \in 1..(Len(s) + 2) |-> i - 1], LAMBDA i : i \in {0, Len(s) + 1} \/ s[i] = "&")
        piece(k) == SubSeq(s, cuts[k] + 1, cuts[k + 1] - 1)
        start(p) == CHOOSE i \in 1..(Len(p) + 1) : (i = Len(p) + 1 \/ p[i] # "=") /\ \A j \in 1..(i - 1) : p[j] = "="
    IN [k \in 1..(Len(cuts) - 1) |-> SubSeq(piece(k), start(piece(k)), Len(piece(k)))]
Equal(p) == SelectInSeq(p, LAMBDA c : c = "=")

\* The entries are the pieces that have an equal sign, cut at the first one;
\* get finds the first of a key, and cmp finds whatever get does.
QueryRight(s) ==
    LET pieces == SelectSeq(Pieces(s), LAMBDA p : Equal(p) # 0)
        parsed == duda_qs_parse(s)
    IN Len(pieces) <= QsMax =>
       /\ parsed = [k \in DOMAIN pieces |->
             [key |-> SubSeq(pieces[k], 1, Equal(pieces[k]) - 1),
              value |-> SubSeq(pieces[k], Equal(pieces[k]) + 1, Len(pieces[k]))]]
       /\ \A k \in DOMAIN parsed :
             /\ duda_qs_get_id(parsed, k - 1) = parsed[k].value
             /\ duda_qs_get(parsed, parsed[k].key) # <<"NULL">>
             /\ duda_qs_cmp(parsed, parsed[k].key, parsed[k].value)

\* A field of digits with an optional sign is a number, if a long holds it;
\* so is a sign alone, and an empty field.
NumberRight(s) ==
    LET digits == IF s # <<>> /\ s[1] \in {"-", "+"} THEN Tail(s) ELSE s
        value  == FoldLeft(LAMBDA acc, c : acc * 10 + Digit[c], 0, digits)
        signed == IF s # <<>> /\ s[1] = "-" THEN -value ELSE value
    IN duda_utils_strtol(s) =
          IF (\A i \in DOMAIN digits : digits[i] \in DOMAIN Digit) /\ signed \in (-LongMax - 1)..LongMax
          THEN <<signed, 0>> ELSE <<0, -1>>
=============================================================================
