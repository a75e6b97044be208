------------------------------- MODULE Login --------------------------------
(***************************************************************************)
(* Logging in with a one-time code: the code, its remaining attempts and   *)
(* the resend cooldown live in Redis, the account in MySQL, the session in *)
(* Redis again.  Clients request codes, guess and log in concurrently.     *)
(*                                                                         *)
(* Granularity: one action per Redis script or command and per MySQL       *)
(* statement.  A code is named by a serial number, as two codes of a phone *)
(* are taken to differ.  Authenticate and Me only read; requests refused   *)
(* before they change anything are left out.                               *)
(***************************************************************************)
EXTENDS Naturals, FiniteSets

CONSTANTS
    Phones,
    Clients,      \* concurrent login requests
    CodeTTL,      \* lifetime of a code (5 minutes)
    Cooldown,     \* time between two codes of a phone (1 minute)
    MaxAttempts,  \* wrong guesses of a code, the last one ends it (5)
    SessionTTL,   \* lifetime of a session (30 minutes)
    MaxTime,      \* bound: the clock stops here
    MaxFaults     \* bound: failed or unanswered calls

ASSUME LoginAssumption ==
    /\ CodeTTL \in Nat \ {0} /\ Cooldown \in Nat \ {0}
    /\ MaxAttempts \in Nat \ {0} /\ SessionTTL \in Nat \ {0}
    /\ MaxTime \in Nat /\ MaxFaults \in Nat

VARIABLES
    code,         \* [Phones -> the code hash, NoCode if there is none]
    cooldown,     \* [Phones -> when the cooldown key expires, 0 if absent]
    users,        \* rows of the users table
    sessions,     \* the session keys
    login,        \* [Clients -> the request in progress]
    now, faults,
    issued,       \* history: codes issued so far
    wrong,        \* history: [Phones -> wrong guesses that were compared]
    granted       \* history: every session ever saved

vars == <<code, cooldown, users, sessions, login, now, faults, issued, wrong,
          granted>>

Code == [serial : Nat, left : Nat, until : Nat]
NoCode == [serial |-> 0, left |-> 0, until |-> 0]
User == [id : Nat \ {0}, phone : Phones]
Session == [serial : Nat, phone : Phones, user : Nat \ {0}, until : Nat,
            by : Clients]
Idle == [pc |-> "idle"]

TypeOK ==
    /\ code \in [Phones -> Code]
    /\ cooldown \in [Phones -> Nat]
    /\ users \subseteq User
    /\ sessions \subseteq Session /\ granted \subseteq Session
    /\ login \in [Clients -> {Idle} \cup
                    [pc : {"insert", "select", "save"}, phone : Phones,
                     serial : Nat, user : Nat]]
    /\ now \in Nat /\ faults \in Nat /\ issued \in Nat
    /\ wrong \in [Phones -> Nat]

Init ==
    /\ code = [p \in Phones |-> NoCode]
    /\ cooldown = [p \in Phones |-> 0]
    /\ users = {}
    /\ sessions = {}
    /\ login = [c \in Clients |-> Idle]
    /\ now = 0
    /\ faults = 0
    /\ issued = 0
    /\ wrong = [p \in Phones |-> 0]
    /\ granted = {}

Fault == faults < MaxFaults /\ faults' = faults + 1

-----------------------------------------------------------------------------
(* Auth.RequestCode *)

\* Mutant: a code may be sent again at once.
MayIssueAlways(p) == TRUE

MayIssue(p) == cooldown[p] = 0

\* The issue script, whether or not its answer arrives.  A code that is still
\* valid is replaced.
RequestCode(p) ==
    /\ MayIssue(p)
    /\ issued' = issued + 1
    /\ code' = [code EXCEPT ![p] = [serial |-> issued + 1,
                                    left |-> MaxAttempts,
                                    until |-> now + CodeTTL]]
    /\ cooldown' = [cooldown EXCEPT ![p] = now + Cooldown]
    /\ UNCHANGED <<users, sessions, login, now, faults, wrong, granted>>

-----------------------------------------------------------------------------
(* Auth.Login *)

\* Mutant: off by one.
ExhaustedBelowZero(left) == left = 0

\* left counts before the guess: the script decrements, then compares with 0.
Exhausted(left) == left <= 1

\* The consume script on a wrong code.
GuessWrong(p) ==
    LET old == code[p] IN
    /\ old # NoCode
    /\ code' = [code EXCEPT ![p] =
                  IF Exhausted(old.left) THEN NoCode
                  ELSE [serial |-> old.serial, left |-> old.left - 1,
                        until |-> old.until]]
    /\ wrong' = [wrong EXCEPT ![p] = @ + 1]
    /\ UNCHANGED <<cooldown, users, sessions, login, now, faults, issued,
                   granted>>

\* Mutant: the code is compared and deleted by two commands.
SpendLater(p) == UNCHANGED code

Spend(p) == code' = [code EXCEPT ![p] = NoCode]

\* The consume script on the right code; without an answer the request fails
\* and the code is gone all the same.
GuessRight(c, p) ==
    /\ login[c] = Idle
    /\ code[p] # NoCode
    /\ Spend(p)
    /\ \/ /\ login' = [login EXCEPT ![c] =
                         [pc |-> "insert", phone |-> p,
                          serial |-> code[p].serial, user |-> 0]]
          /\ UNCHANGED faults
       \/ Fault /\ UNCHANGED login
    /\ UNCHANGED <<cooldown, users, sessions, now, issued, wrong, granted>>

NewUser(p) == [id |-> Cardinality(users) + 1, phone |-> p]

\* Mutant: the phone number is not unique.
InsertAlways(p) == users' = users \cup {NewUser(p)}

\* INSERT that does nothing when the unique phone exists.
InsertUser(p) ==
    users' = IF \E u \in users : u.phone = p THEN users
             ELSE users \cup {NewUser(p)}

\* The request of c goes on to its next call, with an account or none (0).
Advance(c, pc, user) ==
    login' = [login EXCEPT ![c] =
                [pc |-> pc, phone |-> login[c].phone,
                 serial |-> login[c].serial, user |-> user]]

LoginInsert(c) ==
    /\ login[c].pc = "insert"
    /\ InsertUser(login[c].phone)
    /\ Advance(c, "select", 0)
    /\ UNCHANGED <<code, cooldown, sessions, now, faults, issued, wrong,
                   granted>>

LoginSelect(c) ==
    /\ login[c].pc = "select"
    /\ \E u \in users :
       /\ u.phone = login[c].phone
       /\ Advance(c, "save", u.id)
    /\ UNCHANGED <<code, cooldown, users, sessions, now, faults, issued,
                   wrong, granted>>

NewSession(c) ==
    [serial |-> login[c].serial, phone |-> login[c].phone,
     user |-> login[c].user, until |-> now + SessionTTL, by |-> c]

SaveSession(c) ==
    /\ sessions' = sessions \cup {NewSession(c)}
    /\ granted' = granted \cup {NewSession(c)}

LoginSave(c) ==
    /\ login[c].pc = "save"
    /\ SaveSession(c)
    /\ login' = [login EXCEPT ![c] = Idle]
    /\ UNCHANGED <<code, cooldown, users, now, faults, issued, wrong>>

\* A call fails or is not answered, or the process dies: the client has to
\* begin with a new code.
LoginFails(c) ==
    /\ login[c] # Idle
    /\ Fault
    /\ \/ login[c].pc = "insert" /\ InsertUser(login[c].phone)
          /\ UNCHANGED <<sessions, granted>>
       \/ login[c].pc = "save" /\ SaveSession(c) /\ UNCHANGED users
       \/ UNCHANGED <<users, sessions, granted>>
    /\ login' = [login EXCEPT ![c] = Idle]
    /\ UNCHANGED <<code, cooldown, now, issued, wrong>>

\* Auth.Logout
Logout(s) ==
    /\ sessions' = sessions \ {s}
    /\ UNCHANGED <<code, cooldown, users, login, now, faults, issued, wrong,
                   granted>>

\* Keys expire when their time has come.
Tick ==
    /\ now < MaxTime
    /\ now' = now + 1
    /\ code' = [p \in Phones |->
                  IF code[p].until <= now' THEN NoCode ELSE code[p]]
    /\ cooldown' = [p \in Phones |->
                      IF cooldown[p] <= now' THEN 0 ELSE cooldown[p]]
    /\ sessions' = {s \in sessions : now' < s.until}
    /\ UNCHANGED <<users, login, faults, issued, wrong, granted>>

-----------------------------------------------------------------------------
LoginStep(c) ==
    \/ \E p \in Phones : GuessRight(c, p)
    \/ LoginInsert(c) \/ LoginSelect(c) \/ LoginSave(c) \/ LoginFails(c)

Next ==
    \/ \E p \in Phones : RequestCode(p) \/ GuessWrong(p)
    \/ \E c \in Clients : LoginStep(c)
    \/ \E s \in sessions : Logout(s)
    \/ Tick

Spec == Init /\ [][Next]_vars

-----------------------------------------------------------------------------
(* Properties *)

\* Guessing is limited in time, not only per code: however codes are resent,
\* replaced and expire, at most MaxAttempts wrong guesses per cooldown are
\* compared with a code of a phone.
GuessesAreBounded ==
    \A p \in Phones : wrong[p] <= MaxAttempts * (1 + now \div Cooldown)

\* "Can be used only once": a code leads to one session at most, whoever
\* sends it at the same time and whatever is lost on the way.
CodesLogInOnce ==
    \A s, t \in granted : s.serial = t.serial => s = t

\* First logins of one phone may coincide: every session ever handed out
\* belongs to the one account of the phone its code was sent to.
OneAccountPerPhone ==
    /\ \A u, v \in users : u.phone = v.phone => u = v
    /\ \A s \in granted : [id |-> s.user, phone |-> s.phone] \in users
=============================================================================
