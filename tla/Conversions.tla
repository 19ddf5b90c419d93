----------------------------- MODULE Conversions -----------------------------
\* The two conversions the library does itself (value_type.cc): Binary_data to and
\* from base64, Date_time to and from ISO 8601.  The others are boost's.
EXTENDS Integers, SequencesExt

Byte == 0..255

-----------------------------------------------------------------------------
(* Base64.  A character is its index in base64_alpha, or one of three more. *)

Pad   == 64      \* '='
White == 65      \* what isspace() accepts
Other == 66

Index == 0..63

\* encode(): the four characters for the bytes from i on, padded when they end.
FourFrom(data, i) ==
    LET byte(k) == IF k <= Len(data) THEN data[k] ELSE 0
        c       == byte(i) * 65536 + byte(i + 1) * 256 + byte(i + 2)
    IN  << c \div 262144,
           (c \div 4096) % 64,
           IF i + 1 <= Len(data) THEN (c \div 64) % 64 ELSE Pad,
           IF i + 2 <= Len(data) THEN c % 64 ELSE Pad >>

Encode(data) ==
    FlattenSeq([g \in 1..((Len(data) + 2) \div 3) |-> FourFrom(data, 3 * g - 2)])

\* decode_four(): the bytes up to the first '=', which may not be among the first
\* two characters; {} stands for Malformed_base64.
DecodeFour(four) ==
    LET first  == (four[1] * 64 + four[2]) \div 16
        second == ((four[2] * 64 + four[3]) \div 4) % 256
        third  == (four[3] * 64 + four[4]) % 256
    IN  IF four[1] \notin Index \/ four[2] \notin Index THEN {}
        ELSE IF four[3] = Pad THEN {<<first>>}
        ELSE IF four[3] \notin Index THEN {}
        ELSE IF four[4] = Pad THEN {<<first, second>>}
        ELSE IF four[4] \notin Index THEN {}
        ELSE {<<first, second, third>>}

\* decode(): white space is passed over; {} stands for Malformed_base64.
Decode(base64) ==
    LET text   == FlattenSeq([i \in DOMAIN base64 |->
                                 IF base64[i] = White THEN <<>> ELSE <<base64[i]>>])
        groups == [g \in 1..(Len(text) \div 4) |-> DecodeFour(SubSeq(text, 4 * g - 3, 4 * g))]
    IN  IF Len(text) % 4 # 0 \/ \E g \in DOMAIN groups : groups[g] = {} THEN {}
        ELSE {FlattenSeq([g \in DOMAIN groups |-> CHOOSE bytes \in groups[g] : TRUE])}

-----------------------------------------------------------------------------
(* Dates.  A character is a digit, or one of three more; a text has 17.     *)

T     == 10
Colon == 11
Alien == 12

Digit  == 0..9

\* What Date_time(const std::string&) lets through.
Dates == [year : 0..8099, mon : 0..11, mday : 1..31, hour : 0..23, min : 0..59, sec : 0..61]

\* strftime("%Y%m%dT%H:%M:%S"), in a buffer that holds a year of four digits.
Tens(n)      == (n \div 10) % 10
DateText(tm) ==
    LET year == tm.year + 1900 IN
    << year \div 1000, (year \div 100) % 10, Tens(year), year % 10,
       Tens(tm.mon + 1), (tm.mon + 1) % 10, Tens(tm.mday), tm.mday % 10, T,
       Tens(tm.hour), tm.hour % 10, Colon, Tens(tm.min), tm.min % 10, Colon,
       Tens(tm.sec), tm.sec % 10 >>

\* atoi() of two characters: the digits before the first that is none.
Atoi2(a, b) ==
    IF a \notin Digit THEN 0 ELSE IF b \notin Digit THEN a ELSE 10 * a + b

\* A year of less than four digits is before 1900.
Year(s) ==
    IF \A i \in 1..4 : s[i] \in Digit
    THEN 1000 * s[1] + 100 * s[2] + 10 * s[3] + s[4] ELSE 0

\* Date_time(const std::string&): a digit or a T may stand for a colon, a colon or
\* a T in a number ends it, and the last character may be anything; {} stands for
\* Malformed_iso8601.
DateOf(s) ==
    LET tm == [year |-> Year(s) - 1900, mon |-> Atoi2(s[5], s[6]) - 1,
               mday |-> Atoi2(s[7], s[8]), hour |-> Atoi2(s[10], s[11]),
               min |-> Atoi2(s[13], s[14]), sec |-> Atoi2(s[16], s[17])]
    IN  IF Len(s) = 17 /\ s[9] = T /\ (\A i \in 1..16 : s[i] # Alien) /\ tm \in Dates
        THEN {tm} ELSE {}
=============================================================================
