---------------------------- MODULE Login_proofs -----------------------------
(***************************************************************************)
(* The guarantees of the login for any number of phones, clients, attempts *)
(* and lifetimes: one account per phone, one session per code, and a limit *)
(* on guessing that no resending of codes gets around.                     *)
(***************************************************************************)
EXTENDS Login, FiniteSetTheorems, TLAPS

\* Users are counted to number the next one.
AccountInv ==
    /\ TypeOK
    /\ IsFiniteSet(users)
    /\ OneAccountPerPhone
    /\ \A c \in Clients : login[c].pc = "save" =>
          [id |-> login[c].user, phone |-> login[c].phone] \in users

\* A serial is in one place: a live code, a login in progress or a session.
SerialInv ==
    /\ \A p \in Phones : code[p] # NoCode => code[p].serial \in 1..issued
    /\ \A c \in Clients : login[c] # Idle => login[c].serial \in 1..issued
    /\ \A s \in granted : s.serial \in 1..issued
    /\ \A p, q \in Phones :
          (code[p] # NoCode /\ code[q] # NoCode
           /\ code[p].serial = code[q].serial) => p = q
    /\ \A c, d \in Clients :
          (login[c] # Idle /\ login[d] # Idle
           /\ login[c].serial = login[d].serial) => c = d
    /\ CodesLogInOnce
    /\ \A p \in Phones, c \in Clients :
          (code[p] # NoCode /\ login[c] # Idle) =>
             code[p].serial # login[c].serial
    /\ \A p \in Phones, s \in granted :
          code[p] # NoCode => code[p].serial # s.serial
    /\ \A c \in Clients, s \in granted :
          login[c] # Idle => login[c].serial # s.serial

\* Cooldowns that have begun: the one that runs counts from its end.
Begun(p) ==
    IF cooldown[p] = 0 THEN now \div Cooldown ELSE cooldown[p] \div Cooldown

\* What was guessed and what may still be guessed fits the cooldowns begun.
GuessesFit(p) ==
    /\ code[p] # NoCode => code[p].left >= 1
    /\ cooldown[p] # 0 => now < cooldown[p] /\ cooldown[p] <= now + Cooldown
    /\ wrong[p] + code[p].left <= MaxAttempts * Begun(p)

GuessInv == \A p \in Phones : GuessesFit(p)

-----------------------------------------------------------------------------
(* Accounts *)

LEMMA InitAccount == Init => AccountInv
<1> SUFFICES ASSUME Init PROVE AccountInv
  OBVIOUS
<1>1. NoCode \in Code
  BY DEF NoCode, Code
<1>2. TypeOK
  BY <1>1 DEF Init, TypeOK, Idle
<1>3. \A c \in Clients : login[c].pc = "idle"
  BY DEF Init, Idle
<1> QED BY <1>2, <1>3, FS_EmptySet DEF Init, AccountInv, OneAccountPerPhone

\* A login in progress is a record with these fields.
LEMMA LoginFields ==
  ASSUME TypeOK, NEW c \in Clients
  PROVE  /\ login[c] # Idle => /\ login[c].pc \in {"insert", "select", "save"}
                               /\ login[c].phone \in Phones
                               /\ login[c].serial \in Nat
                               /\ login[c].user \in Nat
         /\ login[c] = Idle => login[c].pc = "idle"
<1>1. login[c] \in {Idle} \cup
                    [pc : {"insert", "select", "save"}, phone : Phones,
                     serial : Nat, user : Nat]
  BY DEF TypeOK
<1> QED BY <1>1 DEF Idle

LEMMA InsertKeeps ==
  ASSUME AccountInv, NEW p \in Phones, InsertUser(p)
  PROVE  /\ users \subseteq users' /\ users' \subseteq User
         /\ IsFiniteSet(users')
         /\ \A u, v \in users' : u.phone = v.phone => u = v
<1>1. CASE \E u \in users : u.phone = p
  BY <1>1 DEF InsertUser, AccountInv, TypeOK, OneAccountPerPhone
<1>2. CASE ~\E u \in users : u.phone = p
  <2>1. Cardinality(users) + 1 \in Nat \ {0}
    BY FS_CardinalityType DEF AccountInv
  <2>2. NewUser(p) \in User /\ NewUser(p).phone = p
    BY <2>1 DEF NewUser, User
  <2>3. users' = users \cup {NewUser(p)}
    BY <1>2 DEF InsertUser
  <2>4. IsFiniteSet(users')
    BY <2>3, FS_AddElement DEF AccountInv
  <2> QED BY <1>2, <2>2, <2>3, <2>4 DEF AccountInv, TypeOK, OneAccountPerPhone
<1> QED BY <1>1, <1>2

\* The session of a request that selected an account is one of that account.
LEMMA SessionKeeps ==
  ASSUME AccountInv, NEW c \in Clients, login[c].pc = "save"
  PROVE  /\ NewSession(c) \in Session
         /\ [id |-> NewSession(c).user, phone |-> NewSession(c).phone] \in users
         /\ NewSession(c).serial = login[c].serial
<1>1. login[c] # Idle
  BY DEF Idle
<1>2. [id |-> login[c].user, phone |-> login[c].phone] \in users
  BY DEF AccountInv
<1>3. login[c].user \in Nat \ {0}
  BY <1>2 DEF AccountInv, TypeOK, User
<1>4. now + SessionTTL \in Nat
  BY LoginAssumption DEF AccountInv, TypeOK
<1> QED BY <1>1, <1>2, <1>3, <1>4, LoginFields
       DEF NewSession, Session, AccountInv

\* Requests that do not select an account leave the rest to the types.
LEMMA AccountFrame ==
  ASSUME AccountInv, TypeOK', UNCHANGED <<users, granted>>,
         \A c \in Clients : login'[c] = login[c] \/ login'[c].pc # "save"
  PROVE  AccountInv'
  BY DEF AccountInv, OneAccountPerPhone

LEMMA AccountStep ==
  ASSUME AccountInv, [Next]_vars
  PROVE  AccountInv'
<1> USE DEF AccountInv
<1>1. ASSUME NEW p \in Phones, RequestCode(p)
      PROVE  AccountInv'
  <2>1. [serial |-> issued + 1, left |-> MaxAttempts, until |-> now + CodeTTL]
           \in Code
        /\ now + Cooldown \in Nat
    BY LoginAssumption DEF TypeOK, Code
  <2>2. TypeOK'
    BY <1>1, <2>1 DEF RequestCode, TypeOK
  <2> QED BY <1>1, <2>2, AccountFrame DEF RequestCode
<1>2. ASSUME NEW p \in Phones, GuessWrong(p)
      PROVE  AccountInv'
  <2>1. NoCode \in Code
    BY DEF NoCode, Code
  <2>2. ~Exhausted(code[p].left) =>
           [serial |-> code[p].serial, left |-> code[p].left - 1,
            until |-> code[p].until] \in Code
    BY DEF TypeOK, Code, Exhausted
  <2>3. TypeOK'
    BY <1>2, <2>1, <2>2 DEF GuessWrong, TypeOK
  <2> QED BY <1>2, <2>3, AccountFrame DEF GuessWrong
<1>3. ASSUME NEW c \in Clients, NEW p \in Phones, GuessRight(c, p)
      PROVE  AccountInv'
  <2>1. NoCode \in Code /\ code[p].serial \in Nat
    BY DEF NoCode, Code, TypeOK
  <2>2. TypeOK'
    BY <1>3, <2>1 DEF GuessRight, Spend, Fault, TypeOK
  <2>3. \A d \in Clients : login'[d] = login[d] \/ login'[d].pc # "save"
    BY <1>3 DEF GuessRight, TypeOK
  <2> QED BY <1>3, <2>2, <2>3, AccountFrame DEF GuessRight
<1>4. ASSUME NEW c \in Clients, LoginInsert(c)
      PROVE  AccountInv'
  <2>1. login[c] # Idle
    BY <1>4 DEF LoginInsert, Idle
  <2>2. InsertUser(login[c].phone) /\ login[c].phone \in Phones
    BY <1>4, <2>1, LoginFields DEF LoginInsert
  <2>3. TypeOK'
    BY <1>4, <2>1, <2>2, LoginFields, InsertKeeps
    DEF LoginInsert, Advance, TypeOK
  <2>4. \A d \in Clients : login'[d] = login[d] \/ login'[d].pc # "save"
    BY <1>4 DEF LoginInsert, Advance, TypeOK
  <2> QED BY <1>4, <2>2, <2>3, <2>4, InsertKeeps
         DEF LoginInsert, OneAccountPerPhone
<1>5. ASSUME NEW c \in Clients, LoginSelect(c)
      PROVE  AccountInv'
  <2>1. login[c] # Idle
    BY <1>5 DEF LoginSelect, Idle
  <2>2. PICK u \in users : u.phone = login[c].phone /\ Advance(c, "save", u.id)
    BY <1>5 DEF LoginSelect
  <2>3. u.id \in Nat \ {0} /\ u = [id |-> u.id, phone |-> login[c].phone]
    BY <2>2 DEF TypeOK, User
  <2>4. TypeOK'
    BY <1>5, <2>1, <2>2, <2>3, LoginFields DEF LoginSelect, Advance, TypeOK
  <2>5. \A d \in Clients :
           \/ login'[d] = login[d]
           \/ login'[d].user = u.id /\ login'[d].phone = login[c].phone
    BY <2>2 DEF Advance, TypeOK
  <2> QED BY <1>5, <2>3, <2>4, <2>5 DEF LoginSelect, OneAccountPerPhone
<1>6. ASSUME NEW c \in Clients, LoginSave(c)
      PROVE  AccountInv'
  <2>1. login[c].pc = "save" /\ SaveSession(c) /\ users' = users
        /\ login' = [login EXCEPT ![c] = Idle]
    BY <1>6 DEF LoginSave
  <2>2. TypeOK'
    BY <1>6, <2>1, SessionKeeps DEF LoginSave, SaveSession, TypeOK
  <2>3. \A d \in Clients : login'[d] = login[d] \/ login'[d].pc # "save"
    BY <2>1 DEF TypeOK, Idle
  <2> QED BY <2>1, <2>2, <2>3, SessionKeeps DEF SaveSession, OneAccountPerPhone
<1>7. ASSUME NEW c \in Clients, LoginFails(c)
      PROVE  AccountInv'
  <2>1. /\ login[c] # Idle /\ faults' \in Nat
        /\ login' = [login EXCEPT ![c] = Idle]
        /\ UNCHANGED <<code, cooldown, now, issued, wrong>>
    BY <1>7 DEF LoginFails, Fault, TypeOK
  <2>2. \A d \in Clients : login'[d] = login[d] \/ login'[d].pc # "save"
    BY <2>1 DEF TypeOK, Idle
  <2>3. CASE InsertUser(login[c].phone) /\ UNCHANGED <<sessions, granted>>
    <3>1. login[c].phone \in Phones
      BY <2>1, LoginFields
    <3>2. TypeOK'
      BY <2>1, <2>3, <3>1, InsertKeeps DEF TypeOK
    <3> QED BY <2>2, <2>3, <3>1, <3>2, InsertKeeps DEF OneAccountPerPhone
  <2>4. CASE login[c].pc = "save" /\ SaveSession(c) /\ UNCHANGED users
    <3>1. TypeOK'
      BY <2>1, <2>4, SessionKeeps DEF SaveSession, TypeOK
    <3> QED BY <2>2, <2>4, <3>1, SessionKeeps DEF SaveSession, OneAccountPerPhone
  <2>5. CASE UNCHANGED <<users, sessions, granted>>
    <3>1. TypeOK'
      BY <2>1, <2>5 DEF TypeOK
    <3> QED BY <2>2, <2>5, <3>1, AccountFrame
  <2> QED BY <1>7, <2>3, <2>4, <2>5 DEF LoginFails
<1>8. ASSUME NEW t \in sessions, Logout(t)
      PROVE  AccountInv'
  <2>1. TypeOK'
    BY <1>8 DEF Logout, TypeOK
  <2> QED BY <1>8, <2>1, AccountFrame DEF Logout
<1>9. CASE Tick
  <2>1. NoCode \in Code
    BY DEF NoCode, Code
  <2>2. TypeOK'
    BY <1>9, <2>1 DEF Tick, TypeOK
  <2> QED BY <1>9, <2>2, AccountFrame DEF Tick
<1>10. CASE UNCHANGED vars
  <2>1. TypeOK'
    BY <1>10 DEF vars, TypeOK
  <2> QED BY <1>10, <2>1, AccountFrame DEF vars
<1> QED BY <1>1, <1>2, <1>3, <1>4, <1>5, <1>6, <1>7, <1>8, <1>9, <1>10
       DEF Next, LoginStep

\* Accounts are unique by phone, and a request about to save its session
\* names one of them.
THEOREM AccountsInvariant == Spec => []AccountInv
<1> QED BY InitAccount, AccountStep, PTL DEF Spec

\* First logins of one phone may coincide, and their INSERTs be answered or
\* not: every session ever handed out belongs to the one account of the phone.
THEOREM AlwaysOneAccount == Spec => []OneAccountPerPhone
<1>1. AccountInv => OneAccountPerPhone
  BY DEF AccountInv
<1> QED BY <1>1, AccountsInvariant, PTL

-----------------------------------------------------------------------------
(* Codes *)

LEMMA InitSerial == Init => SerialInv
  BY DEF Init, SerialInv, CodesLogInOnce

\* Requests that issue no code and hand out no session only move or drop
\* serials.
LEMMA SerialFrame ==
  ASSUME SerialInv, UNCHANGED <<issued, granted>>,
         \A p \in Phones : code'[p] # NoCode =>
            code[p] # NoCode /\ code'[p].serial = code[p].serial,
         \A c \in Clients : login'[c] # Idle =>
            login[c] # Idle /\ login'[c].serial = login[c].serial
  PROVE  SerialInv'
  BY DEF SerialInv, CodesLogInOnce

\* A request that ends may hand out a session with its serial.
LEMMA SerialSaved ==
  ASSUME TypeOK, SerialInv, NEW c \in Clients, login[c] # Idle,
         login' = [login EXCEPT ![c] = Idle], UNCHANGED <<code, issued>>,
         SaveSession(c)
  PROVE  SerialInv'
<1> DEFINE new == NewSession(c)
<1>1. granted' = granted \cup {new} /\ new.serial = login[c].serial
  BY DEF SaveSession, NewSession
<1>2. \A d \in Clients : login'[d] # Idle => d # c /\ login'[d] = login[d]
  BY DEF TypeOK
<1> HIDE DEF new
<1> QED BY <1>1, <1>2 DEF SerialInv, CodesLogInOnce

LEMMA SerialStep ==
  ASSUME TypeOK, SerialInv, [Next]_vars
  PROVE  SerialInv'
<1>1. ASSUME NEW p \in Phones, RequestCode(p)
      PROVE  SerialInv'
  <2>1. /\ issued' = issued + 1 /\ issued \in Nat
        /\ code'[p].serial = issued + 1
        /\ \A q \in Phones : q # p => code'[q] = code[q]
        /\ UNCHANGED <<login, granted>>
    BY <1>1 DEF RequestCode, TypeOK
  <2>2. /\ \A q \in Phones : code[q] # NoCode => code[q].serial # issued + 1
        /\ \A c \in Clients : login[c] # Idle => login[c].serial # issued + 1
        /\ \A s \in granted : s.serial # issued + 1
        /\ 1..issued \subseteq 1..(issued + 1) /\ issued + 1 \in 1..(issued + 1)
    BY <2>1 DEF SerialInv
  <2> QED BY <2>1, <2>2 DEF SerialInv, CodesLogInOnce
<1>2. ASSUME NEW p \in Phones, GuessWrong(p)
      PROVE  SerialInv'
  <2>1. \A q \in Phones : code'[q] # NoCode =>
           code[q] # NoCode /\ code'[q].serial = code[q].serial
    BY <1>2 DEF GuessWrong, TypeOK
  <2> QED BY <1>2, <2>1, SerialFrame DEF GuessWrong
<1>3. ASSUME NEW c \in Clients, NEW p \in Phones, GuessRight(c, p)
      PROVE  SerialInv'
  <2>1. /\ code'[p] = NoCode /\ code[p] # NoCode /\ login[c] = Idle
        /\ \A q \in Phones : q # p => code'[q] = code[q]
        /\ UNCHANGED <<issued, granted>>
    BY <1>3 DEF GuessRight, Spend, TypeOK
  <2>2. CASE login' = login
    BY <2>1, <2>2, SerialFrame
  <2>3. CASE login' # login
    <3>1. /\ login'[c].serial = code[p].serial
          /\ \A d \in Clients : d # c => login'[d] = login[d]
      BY <1>3, <2>3 DEF GuessRight, TypeOK
    <3> QED BY <2>1, <3>1 DEF SerialInv, CodesLogInOnce
  <2> QED BY <2>2, <2>3
<1>4. ASSUME NEW c \in Clients, LoginInsert(c) \/ LoginSelect(c)
      PROVE  SerialInv'
  <2>1. login[c] # Idle /\ UNCHANGED <<code, issued, granted>>
    BY <1>4 DEF LoginInsert, LoginSelect, Idle
  <2>2. \A d \in Clients : login'[d] # Idle =>
           login[d] # Idle /\ login'[d].serial = login[d].serial
    BY <1>4, <2>1 DEF LoginInsert, LoginSelect, Advance, TypeOK
  <2> QED BY <2>1, <2>2, SerialFrame
<1>5. ASSUME NEW c \in Clients, LoginSave(c)
      PROVE  SerialInv'
  <2>1. login[c] # Idle
    BY <1>5 DEF LoginSave, Idle
  <2> QED BY <1>5, <2>1, SerialSaved DEF LoginSave
<1>6. ASSUME NEW c \in Clients, LoginFails(c)
      PROVE  SerialInv'
  <2>1. /\ login[c] # Idle /\ login' = [login EXCEPT ![c] = Idle]
        /\ UNCHANGED <<code, issued>>
        /\ SaveSession(c) \/ UNCHANGED granted
    BY <1>6 DEF LoginFails
  <2>2. \A d \in Clients : login'[d] # Idle => login'[d] = login[d]
    BY <2>1 DEF TypeOK
  <2> QED BY <2>1, <2>2, SerialSaved, SerialFrame
<1>7. ASSUME NEW t \in sessions, Logout(t)
      PROVE  SerialInv'
  BY <1>7, SerialFrame DEF Logout
<1>8. CASE Tick
  <2>1. \A q \in Phones : code'[q] # NoCode => code'[q] = code[q]
    BY <1>8 DEF Tick
  <2> QED BY <1>8, <2>1, SerialFrame DEF Tick
<1>9. CASE UNCHANGED vars
  BY <1>9, SerialFrame DEF vars
<1> QED BY <1>1, <1>2, <1>3, <1>4, <1>5, <1>6, <1>7, <1>8, <1>9
       DEF Next, LoginStep

\* A code logs in once, whatever requests present it at the same time and
\* whatever answers are lost on the way.
THEOREM CodesAlwaysLogInOnce == Spec => []CodesLogInOnce
<1>1. AccountInv => TypeOK
  BY DEF AccountInv
<1>2. SerialInv => CodesLogInOnce
  BY DEF SerialInv
<1> QED BY <1>1, <1>2, InitSerial, SerialStep, AccountsInvariant, PTL DEF Spec

-----------------------------------------------------------------------------
(* Guesses *)

\* The facts about \div that the count of cooldowns needs.
LEMMA DivMono ==
  ASSUME NEW a \in Nat, NEW b \in Nat, NEW d \in Nat \ {0}, a <= b
  PROVE  a \div d \in Nat /\ b \div d \in Nat /\ a \div d <= b \div d
  BY SMT

LEMMA DivNext ==
  ASSUME NEW a \in Nat, NEW d \in Nat \ {0}
  PROVE  (a + d) \div d = a \div d + 1
  BY SMT

LEMMA TimesMono ==
  ASSUME NEW m \in Nat, NEW a \in Nat, NEW b \in Nat, a <= b
  PROVE  m * a \in Nat /\ m * b \in Nat /\ m * a <= m * b
  BY SMT

LEMMA TimesNext ==
  ASSUME NEW m \in Nat, NEW a \in Nat
  PROVE  m * (a + 1) = m * a + m
  BY SMT

LEMMA InitGuess == Init => GuessInv
<1> SUFFICES ASSUME Init PROVE GuessInv
  OBVIOUS
<1>1. 0 \div Cooldown \in Nat
  BY DivMono, LoginAssumption
<1>2. 0 <= MaxAttempts * (0 \div Cooldown)
  BY <1>1, TimesMono, LoginAssumption
<1> QED BY <1>2 DEF Init, GuessInv, GuessesFit, Begun, NoCode

LEMMA PhoneTypes ==
  ASSUME TypeOK, NEW p \in Phones
  PROVE  /\ wrong[p] \in Nat /\ code[p].left \in Nat /\ cooldown[p] \in Nat
         /\ now \in Nat /\ now \div Cooldown \in Nat
         /\ Begun(p) \in Nat /\ MaxAttempts * Begun(p) \in Nat
<1>1. wrong[p] \in Nat /\ code[p].left \in Nat /\ cooldown[p] \in Nat /\ now \in Nat
  BY DEF TypeOK, Code
<1>2. now \div Cooldown \in Nat /\ cooldown[p] \div Cooldown \in Nat
  BY <1>1, DivMono, LoginAssumption
<1>3. Begun(p) \in Nat
  BY <1>2 DEF Begun
<1> QED BY <1>1, <1>2, <1>3, TimesMono, LoginAssumption

\* At a standing clock a phone's guesses go on fitting while they are only
\* moved from those left to those made.
LEMMA GuessFrame ==
  ASSUME TypeOK, TypeOK', NEW p \in Phones, GuessesFit(p),
         now' = now, cooldown'[p] = cooldown[p],
         code'[p] # NoCode => code'[p].left >= 1,
         wrong'[p] + code'[p].left <= wrong[p] + code[p].left
  PROVE  GuessesFit(p)'
<1>1. Begun(p)' = Begun(p) /\ MaxAttempts * Begun(p) \in Nat
  BY PhoneTypes DEF Begun
<1>2. wrong'[p] + code'[p].left \in Nat /\ wrong[p] + code[p].left \in Nat
  BY PhoneTypes DEF TypeOK, Code
<1> QED BY <1>1, <1>2 DEF GuessesFit

\* A new code brings as many guesses as the cooldown it begins allows.
LEMMA GuessIssue ==
  ASSUME TypeOK, TypeOK', NEW p \in Phones, GuessesFit(p), RequestCode(p)
  PROVE  GuessesFit(p)'
<1>1. /\ cooldown[p] = 0 /\ cooldown'[p] = now + Cooldown /\ now' = now
      /\ code'[p].left = MaxAttempts /\ wrong' = wrong
  BY DEF RequestCode, MayIssue, TypeOK
<1>2. /\ Begun(p) = now \div Cooldown
      /\ Begun(p)' = (now + Cooldown) \div Cooldown
  BY <1>1, LoginAssumption DEF Begun, TypeOK
<1>3. Begun(p)' = Begun(p) + 1 /\ Begun(p) \in Nat
  BY <1>2, DivNext, PhoneTypes, LoginAssumption
<1>4. MaxAttempts * Begun(p)' = MaxAttempts * Begun(p) + MaxAttempts
  BY <1>3, TimesNext, LoginAssumption
<1>5. wrong[p] <= MaxAttempts * Begun(p)
  BY PhoneTypes DEF GuessesFit
<1> QED BY <1>1, <1>4, <1>5, PhoneTypes, LoginAssumption DEF GuessesFit

\* Time ends a cooldown no earlier than at its end.
LEMMA GuessTick ==
  ASSUME TypeOK, TypeOK', NEW p \in Phones, GuessesFit(p), Tick
  PROVE  GuessesFit(p)'
<1>1. /\ now' = now + 1 /\ wrong' = wrong
      /\ code'[p] = code[p] \/ code'[p] = NoCode
      /\ cooldown'[p] = IF cooldown[p] <= now + 1 THEN 0 ELSE cooldown[p]
  BY DEF Tick
<1>2. code'[p].left <= code[p].left /\ code'[p].left \in Nat
  BY <1>1, PhoneTypes DEF NoCode
<1>3. Begun(p) <= Begun(p)' /\ Begun(p)' \in Nat
  <2>1. CASE cooldown[p] = 0
    <3>1. cooldown'[p] = 0
      BY <1>1, <2>1
    <3>2. Begun(p) = now \div Cooldown /\ Begun(p)' = (now + 1) \div Cooldown
      BY <1>1, <2>1, <3>1 DEF Begun
    <3> QED BY <3>2, DivMono, PhoneTypes, LoginAssumption
  <2>2. CASE cooldown[p] # 0 /\ cooldown[p] <= now + 1
    <3>1. cooldown[p] = now + 1 /\ cooldown'[p] = 0
      BY <1>1, <2>2, PhoneTypes DEF GuessesFit
    <3>2. Begun(p) = (now + 1) \div Cooldown /\ Begun(p)' = Begun(p)
      BY <1>1, <2>2, <3>1 DEF Begun
    <3> QED BY <3>2, PhoneTypes
  <2>3. CASE cooldown[p] > now + 1
    <3>1. Begun(p)' = Begun(p)
      BY <1>1, <2>3, PhoneTypes DEF Begun
    <3> QED BY <3>1, PhoneTypes
  <2> QED BY <2>1, <2>2, <2>3, PhoneTypes
<1>4. MaxAttempts * Begun(p) <= MaxAttempts * Begun(p)'
  BY <1>3, TimesMono, PhoneTypes, LoginAssumption
<1>5. cooldown'[p] # 0 => now' < cooldown'[p] /\ cooldown'[p] <= now' + Cooldown
  BY <1>1, PhoneTypes, LoginAssumption DEF GuessesFit
<1>6. code'[p] # NoCode => code'[p].left >= 1
  BY <1>1 DEF GuessesFit
<1>7. MaxAttempts * Begun(p)' \in Nat
  BY <1>3, TimesMono, LoginAssumption
<1>8. wrong'[p] + code'[p].left <= MaxAttempts * Begun(p)'
  BY <1>1, <1>2, <1>4, <1>7, PhoneTypes DEF GuessesFit
<1> QED BY <1>5, <1>6, <1>8 DEF GuessesFit

LEMMA GuessStep ==
  ASSUME TypeOK, TypeOK', GuessInv, [Next]_vars
  PROVE  GuessInv'
<1> SUFFICES ASSUME NEW p \in Phones PROVE GuessesFit(p)'
  BY DEF GuessInv
<1>1. GuessesFit(p)
  BY DEF GuessInv
<1>2. CASE RequestCode(p)
  BY <1>1, <1>2, GuessIssue
<1>3. CASE Tick
  BY <1>1, <1>3, GuessTick
<1>4. CASE GuessWrong(p)
  <2>1. /\ now' = now /\ cooldown' = cooldown /\ wrong'[p] = wrong[p] + 1
        /\ \/ code'[p] = NoCode
           \/ code[p].left > 1 /\ code'[p].left = code[p].left - 1
        /\ code[p].left >= 1
    BY <1>1, <1>4, PhoneTypes DEF GuessWrong, Exhausted, GuessesFit, TypeOK
  <2>2. wrong'[p] + code'[p].left <= wrong[p] + code[p].left
        /\ (code'[p] # NoCode => code'[p].left >= 1)
    BY <2>1, PhoneTypes DEF NoCode
  <2> QED BY <1>1, <2>1, <2>2, GuessFrame
<1>5. CASE \E c \in Clients : GuessRight(c, p)
  <2>1. /\ now' = now /\ cooldown' = cooldown /\ wrong' = wrong
        /\ code'[p] = NoCode
    BY <1>5 DEF GuessRight, Spend, TypeOK
  <2>2. wrong'[p] + code'[p].left <= wrong[p] + code[p].left
    BY <2>1, PhoneTypes DEF NoCode
  <2> QED BY <1>1, <2>1, <2>2, GuessFrame
<1>6. ASSUME /\ now' = now /\ cooldown'[p] = cooldown[p]
             /\ wrong'[p] = wrong[p] /\ code'[p] = code[p]
      PROVE  GuessesFit(p)'
  BY <1>1, <1>6, GuessFrame, PhoneTypes DEF GuessesFit
<1>7. ASSUME NEW q \in Phones, q # p, RequestCode(q) \/ GuessWrong(q)
      PROVE  GuessesFit(p)'
  BY <1>6, <1>7 DEF RequestCode, GuessWrong, TypeOK
<1>8. ASSUME NEW c \in Clients, NEW q \in Phones, q # p, GuessRight(c, q)
      PROVE  GuessesFit(p)'
  BY <1>6, <1>8 DEF GuessRight, Spend, TypeOK
<1>9. ASSUME NEW c \in Clients,
             LoginInsert(c) \/ LoginSelect(c) \/ LoginSave(c) \/ LoginFails(c)
      PROVE  GuessesFit(p)'
  BY <1>6, <1>9 DEF LoginInsert, LoginSelect, LoginSave, LoginFails
<1>10. ASSUME NEW t \in sessions, Logout(t)
       PROVE  GuessesFit(p)'
  BY <1>6, <1>10 DEF Logout
<1>11. CASE UNCHANGED vars
  BY <1>6, <1>11 DEF vars
<1> QED BY <1>2, <1>3, <1>4, <1>5, <1>7, <1>8, <1>9, <1>10, <1>11
       DEF Next, LoginStep

\* Guessing is limited in time: however codes are resent, replaced, spent and
\* expire, a phone never sees more than MaxAttempts wrong guesses for every
\* cooldown that has begun, for any lifetimes (codes may outlive cooldowns).
THEOREM GuessesAlwaysBounded == Spec => []GuessesAreBounded
<1>1. ASSUME TypeOK, GuessInv, NEW p \in Phones
      PROVE  wrong[p] <= MaxAttempts * (1 + now \div Cooldown)
  <2>1. GuessesFit(p)
    BY <1>1 DEF GuessInv
  <2>2. Begun(p) <= now \div Cooldown + 1
    <3>1. CASE cooldown[p] = 0
      BY <1>1, <3>1, PhoneTypes DEF Begun
    <3>2. CASE cooldown[p] # 0
      <4>1. /\ cooldown[p] \in Nat /\ now + Cooldown \in Nat
            /\ cooldown[p] <= now + Cooldown
        BY <1>1, <2>1, <3>2, PhoneTypes, LoginAssumption DEF GuessesFit
      <4>2. cooldown[p] \div Cooldown <= (now + Cooldown) \div Cooldown
        BY <4>1, DivMono, LoginAssumption
      <4> QED BY <1>1, <3>2, <4>2, DivNext, PhoneTypes, LoginAssumption
             DEF Begun
    <3> QED BY <3>1, <3>2
  <2>3. MaxAttempts * Begun(p) <= MaxAttempts * (now \div Cooldown + 1)
        /\ MaxAttempts * (now \div Cooldown + 1) \in Nat
    <3>1. Begun(p) \in Nat /\ now \div Cooldown + 1 \in Nat
      BY <1>1, PhoneTypes
    <3> QED BY <2>2, <3>1, TimesMono, LoginAssumption
  <2>4. now \div Cooldown + 1 = 1 + now \div Cooldown
    BY <1>1, PhoneTypes
  <2> QED BY <1>1, <2>1, <2>3, <2>4, PhoneTypes DEF GuessesFit
<1>2. TypeOK /\ GuessInv => GuessesAreBounded
  BY <1>1 DEF GuessesAreBounded
<1>3. AccountInv => TypeOK
  BY DEF AccountInv
<1> QED BY <1>2, <1>3, InitGuess, GuessStep, AccountsInvariant, PTL DEF Spec
=============================================================================
