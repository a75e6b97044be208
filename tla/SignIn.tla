------------------------------- MODULE SignIn --------------------------------
(***************************************************************************)
(* POST and GET /users/me/sign: one bitmap per user and month in Redis.    *)
(* A request reads the clock once; the key, the bit, the width of the read *)
(* and the date of the answer all come from that reading, while the clock, *)
(* the month and other requests of the user move on between its two        *)
(* commands.  Days are numbered through, in the zone of the code (UTC+8),  *)
(* and all months are equally long.                                        *)
(***************************************************************************)
EXTENDS Naturals, FiniteSets, FiniteSetsExt

CONSTANTS
    Users,
    Signers,      \* concurrent requests
    MonthLength,  \* days of a month
    MaxDay,       \* bound: the calendar stops here
    MaxFaults     \* bound: failed or unanswered calls

ASSUME SignAssumption ==
    MonthLength \in Nat \ {0} /\ MaxDay \in Nat /\ MaxFaults \in Nat

VARIABLES
    today,        \* the day of the server's clock
    bits,         \* the bits that are set: <<user, month, offset>>
    call,         \* [Signers -> the request in progress]
    answer,       \* [Signers -> the SignState of the last one]
    signed,       \* history: <<user, day>> for every SETBIT executed
    faults

signVars == <<today, bits, call, answer, signed, faults>>

NoCall == [pc |-> "idle"]
NoState == [streak |-> 0]

Month(day) == day \div MonthLength
Offset(day) == day % MonthLength      \* now.Day()-1

SignTypeOK ==
    /\ today \in 0 .. MaxDay
    /\ bits \subseteq Users \X Nat \X (0 .. MonthLength - 1)
    /\ call \in [Signers -> {NoCall} \cup
                   [pc : {"set", "get"}, user : Users, day : Nat]]
    /\ answer \in [Signers -> {NoState} \cup
                     [user : Users, date : Nat, streak : Nat]]
    /\ signed \subseteq Users \X Nat
    /\ faults \in Nat

SignInit ==
    /\ today = 0
    /\ bits = {}
    /\ call = [c \in Signers |-> NoCall]
    /\ answer = [c \in Signers |-> NoState]
    /\ signed = {}
    /\ faults = 0

Fault == faults < MaxFaults /\ faults' = faults + 1

-----------------------------------------------------------------------------
SignBegin(c, u, write) ==
    /\ call[c] = NoCall
    /\ call' = [call EXCEPT ![c] = [pc |-> IF write THEN "set" ELSE "get",
                                    user |-> u, day |-> today]]
    /\ answer' = [answer EXCEPT ![c] = NoState]
    /\ UNCHANGED <<today, bits, signed, faults>>

\* SETBIT key day-1 1; the request ends here if the answer is lost.
SignSet(c) ==
    LET u == call[c].user
        day == call[c].day IN
    /\ call[c].pc = "set"
    /\ bits' = bits \cup {<<u, Month(day), Offset(day)>>}
    /\ signed' = signed \cup {<<u, day>>}
    /\ \/ call' = [call EXCEPT ![c].pc = "get"] /\ UNCHANGED faults
       \/ call' = [call EXCEPT ![c] = NoCall] /\ Fault
    /\ UNCHANGED <<today, answer>>

\* Mutant: the read stops before the day itself.
WidthBefore(day) == Offset(day)

\* u<day>: the bits of the month up to and including the day.
Width(day) == Offset(day) + 1

\* BITFIELD key GET u<width> 0: the first bit is the most significant one.
Field(u, month, width) ==
    LET ones == {i \in 0 .. width - 1 : <<u, month, i>> \in bits}
    IN  MapThenSumSet(LAMBDA i : 2^(width - 1 - i), ones)

\* The loop over n & 1 and n >>= 1.
TrailingOnes[n \in Nat] ==
    IF n % 2 = 1 THEN 1 + TrailingOnes[n \div 2] ELSE 0

SignGet(c) ==
    LET u == call[c].user
        day == call[c].day IN
    /\ call[c].pc = "get"
    /\ call' = [call EXCEPT ![c] = NoCall]
    /\ answer' = [answer EXCEPT ![c] =
          [user |-> u, date |-> day,
           streak |-> TrailingOnes[Field(u, Month(day), Width(day))]]]
    /\ UNCHANGED <<today, bits, signed, faults>>

\* A command fails without having been executed.
SignFails(c) ==
    /\ call[c] # NoCall
    /\ Fault
    /\ call' = [call EXCEPT ![c] = NoCall]
    /\ UNCHANGED <<today, bits, answer, signed>>

Midnight ==
    /\ today < MaxDay
    /\ today' = today + 1
    /\ UNCHANGED <<bits, call, answer, signed, faults>>

SignStep(c) ==
    \/ \E u \in Users, write \in BOOLEAN : SignBegin(c, u, write)
    \/ SignSet(c)
    \/ SignGet(c)
    \/ SignFails(c)

-----------------------------------------------------------------------------
(* Properties *)

\* The days up to this one, in its month, that the user signed in a row.
RowOfDays(u, day) ==
    {d \in 0 .. day : /\ Month(d) = Month(day)
                      /\ \A x \in d .. day : <<u, x>> \in signed}

\* Every answer counts the consecutive days signed up to its own date within
\* the month, never those of another month, day or user, although midnight
\* may pass and other requests of the user be executed between the clock
\* reading, the SETBIT and the BITFIELD.
StreaksAreTrue ==
    [][ \A c \in Signers :
          (answer'[c] # answer[c] /\ answer'[c] # NoState) =>
             answer'[c].streak =
                Cardinality(RowOfDays(answer'[c].user, answer'[c].date)) ]_signVars
=============================================================================
