------------------------------ MODULE Accounts ------------------------------
(***************************************************************************)
(* AuthService and what hangs on a user's account: one-time passwords in   *)
(* the memory of the process, accounts in the `users` table, their link to *)
(* a person that submitKyc sets, and the lookups of that person by which   *)
(* mintTicket and the gate decide.                                         *)
(*                                                                         *)
(* A phone has at most one account, so the phone stands for the User.id of *)
(* the account as well.  name stands for name and nickname, which are only *)
(* assigned together.                                                      *)
(***************************************************************************)
EXTENDS Naturals, FiniteSets

CONSTANTS
    Phones, Persons, Names,
    Verifications,      \* calls of verifyOtp with the right code, each made once
    Registrations,      \* calls of register, each made once
    MAX_OTP_ATTEMPTS,
    MaxSent             \* bound: passwords sent to one phone

(* User.id and Person.id are uuids that two tables generate on their own,  *)
(* and the NULL of an account without a person is none of them.            *)
ASSUME AccountsAssumption ==
    /\ Phones \cap Persons = {}
    /\ "null" \notin Persons
    /\ IsFiniteSet(Verifications)
    /\ MAX_OTP_ATTEMPTS \in Nat \ {0}
    /\ MaxSent \in Nat \ {0}

VARIABLES
    otpStore,      \* otpStore[n]: the record of phone n in the Map
    users,         \* users[n]: the row of the account of n, as last committed
    persons,       \* persons in the database, all of them approved
    ticketOf,      \* accounts with a ticket; its userId is the account's id
    verify,        \* verify[v]: position of a verification
    reg,           \* reg[r]: position and local variables of a registration
    sent, issued,  \* history: passwords sent to n, tokens answered for n
    guesses,       \* history: codes compared since the last password for n
    overlapped,    \* history: accounts another write to which met a registration
    turnedAway     \* history: linked accounts whose person a lookup did not find

accounts == <<otpStore, users, persons, ticketOf>>
authHistory == <<sent, issued, guesses>>
accountsVars == <<accounts, verify, reg, authHistory, overlapped, turnedAway>>

NoOtp == [attempts |-> 0, state |-> "absent"]
Otp == [attempts : 0..MAX_OTP_ATTEMPTS, state : {"absent", "valid", "expired"}]

User == [exists : BOOLEAN, name : Names \cup {"null"}, personId : Persons \cup {"null"}]
NoUser == [exists |-> FALSE, name |-> "null", personId |-> "null"]
NewUser == [NoUser EXCEPT !.exists = TRUE]

Verification == [pc : {"idle", "find", "insert", "done", "failed"},
                 phone : Phones \cup {"none"}, isNewUser : BOOLEAN]

Registration == [pc : {"idle", "select", "update", "done", "failed"},
                 phone : Phones \cup {"none"}, entity : User,
                 cols : SUBSET {"exists", "name", "personId"}]

Saving == {"select", "update"}

AccountsInit ==
    /\ otpStore = [n \in Phones |-> NoOtp]
    /\ users = [n \in Phones |-> NoUser]
    /\ persons = {}
    /\ ticketOf = {}
    /\ verify = [v \in Verifications |->
                    [pc |-> "idle", phone |-> "none", isNewUser |-> FALSE]]
    /\ reg = [r \in Registrations |->
                 [pc |-> "idle", phone |-> "none", entity |-> NoUser, cols |-> {}]]
    /\ sent = [n \in Phones |-> 0]
    /\ issued = [n \in Phones |-> 0]
    /\ guesses = [n \in Phones |-> 0]
    /\ overlapped = {}
    /\ turnedAway = {}

-----------------------------------------------------------------------------
(* sendOtp replaces whatever record the phone had.                         *)
SendOtp(n) ==
    /\ sent[n] < MaxSent
    /\ otpStore' = [otpStore EXCEPT ![n] = [attempts |-> 0, state |-> "valid"]]
    /\ sent' = [sent EXCEPT ![n] = @ + 1]
    /\ guesses' = [guesses EXCEPT ![n] = 0]
    /\ UNCHANGED <<users, persons, ticketOf, verify, reg, issued, overlapped, turnedAway>>

(* Five minutes pass.                                                      *)
OtpExpires(n) ==
    /\ otpStore[n].state = "valid"
    /\ otpStore' = [otpStore EXCEPT ![n].state = "expired"]
    /\ UNCHANGED <<users, persons, ticketOf, verify, reg, authHistory, overlapped, turnedAway>>

(* verifyOtp up to its first await is one step of the event loop.  It      *)
(* compares the code only for a record that is there, has not expired and  *)
(* has attempts left; otherwise the record goes.                           *)
AttemptsLeftOffByOne(n) == otpStore[n].attempts <= MAX_OTP_ATTEMPTS
AttemptsLeft(n) == otpStore[n].attempts < MAX_OTP_ATTEMPTS

Compares(n) == otpStore[n].state = "valid" /\ AttemptsLeft(n)

Refuse(n) ==
    /\ ~Compares(n)
    /\ otpStore' = [otpStore EXCEPT ![n] = NoOtp]
    /\ UNCHANGED <<users, persons, ticketOf, verify, reg, authHistory, overlapped, turnedAway>>

WrongCode(n) ==
    /\ Compares(n)
    /\ otpStore' = [otpStore EXCEPT ![n].attempts = @ + 1]
    /\ guesses' = [guesses EXCEPT ![n] = @ + 1]
    /\ UNCHANGED <<users, persons, ticketOf, verify, reg, sent, issued, overlapped, turnedAway>>

RightCodeKeepingOtp(v, n) ==
    /\ verify[v].pc = "idle"
    /\ Compares(n)
    /\ otpStore' = [otpStore EXCEPT ![n].attempts = @ + 1]
    /\ guesses' = [guesses EXCEPT ![n] = @ + 1]
    /\ verify' = [verify EXCEPT ![v].pc = "find", ![v].phone = n]
    /\ UNCHANGED <<users, persons, ticketOf, reg, sent, issued, overlapped, turnedAway>>

RightCode(v, n) ==
    /\ verify[v].pc = "idle"
    /\ Compares(n)
    /\ otpStore' = [otpStore EXCEPT ![n] = NoOtp]
    /\ guesses' = [guesses EXCEPT ![n] = @ + 1]
    /\ verify' = [verify EXCEPT ![v].pc = "find", ![v].phone = n]
    /\ UNCHANGED <<users, persons, ticketOf, reg, sent, issued, overlapped, turnedAway>>

(* The token is signed with User.id and answered.                          *)
Answer(v, isNewUser) ==
    /\ verify' = [verify EXCEPT ![v].pc = "done", ![v].isNewUser = isNewUser]
    /\ issued' = [issued EXCEPT ![verify[v].phone] = @ + 1]

(* userRepo.findOne by phone.                                              *)
FindUser(v) ==
    /\ verify[v].pc = "find"
    /\ \/ users[verify[v].phone].exists /\ Answer(v, FALSE)
       \/ /\ ~users[verify[v].phone].exists
          /\ verify' = [verify EXCEPT ![v].pc = "insert"]
          /\ UNCHANGED issued
    /\ UNCHANGED <<accounts, reg, sent, guesses, overlapped, turnedAway>>

(* userRepo.save of a new entity: an INSERT, which the unique index on     *)
(* phone refuses when the account has been made since.                     *)
PhoneFreeUnindexed(n) == TRUE
PhoneFree(n) == ~users[n].exists

InsertUser(v) ==
    LET n == verify[v].phone IN
    /\ verify[v].pc = "insert"
    /\ \/ /\ PhoneFree(n)
          /\ users' = [users EXCEPT ![n] = NewUser]
          /\ Answer(v, TRUE)
       \/ /\ ~PhoneFree(n)
          /\ verify' = [verify EXCEPT ![v].pc = "failed"]
          /\ UNCHANGED <<users, issued>>
    /\ UNCHANGED <<otpStore, persons, ticketOf, reg, sent, guesses, overlapped, turnedAway>>

-----------------------------------------------------------------------------
(* A token, once answered, is good until it expires, across restarts.      *)
HasToken(n) == issued[n] > 0

BeingRegistered == {reg[r].phone : r \in {q \in Registrations : reg[q].pc \in Saving}}

(* register: findOne and its check; the name is assigned to the entity.    *)
RegisterUnchecked(r, n, name) ==
    /\ reg[r].pc = "idle"
    /\ HasToken(n)
    /\ reg' = [reg EXCEPT ![r] = [pc |-> "select", phone |-> n, cols |-> {},
                                  entity |-> [users[n] EXCEPT !.name = name]]]
    /\ overlapped' = overlapped \cup ({n} \cap BeingRegistered)
    /\ UNCHANGED <<accounts, verify, authHistory, turnedAway>>

Register(r, n, name) ==
    /\ reg[r].pc = "idle"
    /\ HasToken(n)
    /\ reg' = [reg EXCEPT ![r] =
                  [pc |-> IF users[n].name = "null" THEN "select" ELSE "failed",
                   phone |-> n, cols |-> {}, entity |-> [users[n] EXCEPT !.name = name]]]
    /\ overlapped' = overlapped \cup ({n} \cap BeingRegistered)
    /\ UNCHANGED <<accounts, verify, authHistory, turnedAway>>

(* userRepo.save(user): the SELECT and the comparison, then the UPDATE of  *)
(* the columns that differ.                                                *)
SaveSelect(r) ==
    LET row == users[reg[r].phone] IN
    /\ reg[r].pc = "select"
    /\ reg' = [reg EXCEPT ![r].pc = "update",
                          ![r].cols = {c \in DOMAIN row : reg[r].entity[c] # row[c]}]
    /\ UNCHANGED <<accounts, verify, authHistory, overlapped, turnedAway>>

SaveUpdate(r) ==
    /\ reg[r].pc = "update"
    /\ users' = [users EXCEPT ![reg[r].phone] =
                    [c \in DOMAIN @ |-> IF c \in reg[r].cols THEN reg[r].entity[c] ELSE @[c]]]
    /\ reg' = [reg EXCEPT ![r].pc = "done"]
    /\ UNCHANGED <<otpStore, persons, ticketOf, verify, authHistory, overlapped, turnedAway>>

(* The end of an approved submitKyc: the person is committed together with *)
(* the UPDATE of User.personId, for the account of the token.              *)
LinkPerson(n, p) ==
    /\ HasToken(n)
    /\ persons' = persons \cup {p}
    /\ users' = [users EXCEPT ![n].personId = p]
    /\ overlapped' = overlapped \cup ({n} \cap BeingRegistered)
    /\ UNCHANGED <<otpStore, ticketOf, verify, reg, authHistory, turnedAway>>

(* deleteUserData removes the person and leaves the link.                  *)
ErasePerson(p) ==
    /\ persons' = persons \ {p}
    /\ UNCHANGED <<otpStore, users, ticketOf, verify, reg, authHistory, overlapped, turnedAway>>

(* preauthorize takes the ticket's userId from the token, whose subject is *)
(* User.id.                                                                *)
Preauthorize(n) ==
    /\ HasToken(n)
    /\ ticketOf' = ticketOf \cup {n}
    /\ UNCHANGED <<otpStore, users, persons, verify, reg, authHistory, overlapped, turnedAway>>

(* personRepo.findOne({ where: { id: userId } })                           *)
PersonFound(userId) == userId \in persons

Linked(n) == users[n].personId \in persons

(* The lookup of a ticket's person by the ticket's userId: getKycStatus in *)
(* mintTicket, and compareFace at a gate in STRONG mode.                   *)
LookUp(n) ==
    /\ n \in ticketOf
    /\ turnedAway' = IF Linked(n) /\ ~PersonFound(n) THEN turnedAway \cup {n} ELSE turnedAway
    /\ UNCHANGED <<accounts, verify, reg, authHistory, overlapped>>

GetKycStatus(n) == LookUp(n)
CompareFace(n)  == LookUp(n)

-----------------------------------------------------------------------------
(* The process stops: the Map is gone, and the calls it was serving.       *)
Restart ==
    /\ otpStore' = [n \in Phones |-> NoOtp]
    /\ verify' = [v \in Verifications |->
                     IF verify[v].pc \in {"find", "insert"}
                     THEN [verify[v] EXCEPT !.pc = "failed"] ELSE verify[v]]
    /\ reg' = [r \in Registrations |->
                  IF reg[r].pc \in Saving THEN [reg[r] EXCEPT !.pc = "failed"] ELSE reg[r]]
    /\ UNCHANGED <<users, persons, ticketOf, authHistory, overlapped, turnedAway>>

AccountsNext ==
    \/ \E n \in Phones :
          \/ SendOtp(n) \/ OtpExpires(n) \/ Refuse(n) \/ WrongCode(n)
          \/ Preauthorize(n) \/ GetKycStatus(n) \/ CompareFace(n)
    \/ \E v \in Verifications, n \in Phones : RightCode(v, n)
    \/ \E v \in Verifications : FindUser(v) \/ InsertUser(v)
    \/ \E r \in Registrations, n \in Phones, name \in Names : Register(r, n, name)
    \/ \E r \in Registrations : SaveSelect(r) \/ SaveUpdate(r)
    \/ \E n \in Phones, p \in Persons : LinkPerson(n, p)
    \/ \E p \in Persons : ErasePerson(p)
    \/ Restart

AccountsSpec == AccountsInit /\ [][AccountsNext]_accountsVars

-----------------------------------------------------------------------------
(* Every variable holds values of the kind its column or local has; no     *)
(* record counts more attempts than MAX_OTP_ATTEMPTS.                      *)
AccountsTypeOK ==
    /\ otpStore \in [Phones -> Otp]
    /\ users \in [Phones -> User]
    /\ persons \subseteq Persons
    /\ ticketOf \subseteq Phones
    /\ verify \in [Verifications -> Verification]
    /\ reg \in [Registrations -> Registration]

(* One password, one token: however many verifications of a phone are      *)
(* waiting for the database, and whatever restarts forget, no more tokens  *)
(* are answered for it than passwords were sent to it.                     *)
OtpUsedOnce == \A n \in Phones : issued[n] <= sent[n]

(* No more than MAX_OTP_ATTEMPTS codes are compared with one password.     *)
OtpGuessesBounded == \A n \in Phones : guesses[n] <= MAX_OTP_ATTEMPTS

(* Of several first verifications of one phone at the same time, one makes *)
(* the account and tells its caller to register.                           *)
NewUserOnce ==
    \A v, w \in Verifications :
        verify[v].isNewUser /\ verify[w].isNewUser /\ verify[v].phone = verify[w].phone
            => v = w

(* An account keeps its name, and stays linked to some person, unless a    *)
(* second registration or an approval came between the load and the save   *)
(* of a registration: the save then writes back what it loaded.            *)
ProfileKeptUnlessOverlapped ==
    [][\A n \in Phones \ overlapped :
         /\ users[n].name # "null" => users'[n].name = users[n].name
         /\ users[n].personId # "null" => users'[n].personId # "null"]_accountsVars

(* The account is linked to the person "so that ticketing and gate         *)
(* verification can find the KYC data through userId": the lookup by a     *)
(* ticket's userId finds the person its account is linked to.              *)
KycFoundThroughUserId == turnedAway = {}
=============================================================================
