--------------------------- MODULE AccountsProofs ---------------------------
(* Proofs about one-time passwords: what one password is good for, with    *)
(* any number of phones, verifications and attempts.                       *)
EXTENDS Accounts, FiniteSetTheorems, TLAPS

(* Verifications of n that have spent a password and not answered yet.     *)
Pending(n) == {v \in Verifications :
                 verify[v].pc \in {"find", "insert"} /\ verify[v].phone = n}

Live(n) == IF otpStore[n].state = "absent" THEN 0 ELSE 1

(* The types of what the passwords touch.                                  *)
OtpTypes ==
    /\ otpStore \in [Phones -> Otp]
    /\ verify \in [Verifications -> Verification]
    /\ sent \in [Phones -> Nat]
    /\ issued \in [Phones -> Nat]
    /\ guesses \in [Phones -> Nat]

AnswersAPhone ==
    \A v \in Verifications :
        verify[v].pc \in {"find", "insert"} => verify[v].phone \in Phones

(* A password in the store has counted every code compared with it.        *)
GuessesCounted ==
    \A n \in Phones :
        /\ guesses[n] <= MAX_OTP_ATTEMPTS
        /\ otpStore[n].state # "absent" => guesses[n] = otpStore[n].attempts

(* Every password sent is in the store, spent by a verification that still *)
(* waits, spent by one that was answered, or lost.                         *)
PasswordsSpent ==
    \A n \in Phones : issued[n] + Cardinality(Pending(n)) + Live(n) <= sent[n]

OtpInv == OtpTypes /\ AnswersAPhone /\ GuessesCounted /\ PasswordsSpent

-----------------------------------------------------------------------------
(* The number of pending verifications is a number.                        *)
LEMMA PendingIsFinite ==
    \A n \in Phones : IsFiniteSet(Pending(n)) /\ Cardinality(Pending(n)) \in Nat
<1> TAKE n \in Phones
<1>1. IsFiniteSet(Verifications)
  BY AccountsAssumption
<1>2. Pending(n) \subseteq Verifications
  BY DEF Pending
<1>3. IsFiniteSet(Pending(n))
  BY <1>1, <1>2, FS_Subset
<1> QED
  BY <1>3, FS_CardinalityType

(* verifyOtp with the right code adds one verification to those of its     *)
(* phone and none to those of another.                                     *)
LEMMA PendingGrows ==
    ASSUME OtpTypes, NEW v \in Verifications, NEW n \in Phones,
           verify[v].pc = "idle",
           verify' = [verify EXCEPT ![v].pc = "find", ![v].phone = n]
    PROVE  /\ Cardinality(Pending(n)') = Cardinality(Pending(n)) + 1
           /\ \A m \in Phones : m # n => Pending(m)' = Pending(m)
<1>1. Pending(n)' = Pending(n) \cup {v}
  BY DEF Pending, OtpTypes, Verification
<1>2. v \notin Pending(n)
  BY DEF Pending
<1>3. \A m \in Phones : m # n => Pending(m)' = Pending(m)
  BY DEF Pending, OtpTypes, Verification
<1>4. Cardinality(Pending(n) \cup {v}) = Cardinality(Pending(n)) + 1
  BY <1>2, PendingIsFinite, FS_AddElement
<1> QED
  BY <1>1, <1>3, <1>4

(* A verification that answers, or fails, leaves those of its phone.       *)
LEMMA PendingShrinks ==
    ASSUME OtpTypes, NEW v \in Verifications, NEW n \in Phones,
           verify[v].pc \in {"find", "insert"}, verify[v].phone = n,
           verify'[v].pc \notin {"find", "insert"},
           \A w \in Verifications \ {v} : verify'[w] = verify[w]
    PROVE  /\ Cardinality(Pending(n)') = Cardinality(Pending(n)) - 1
           /\ \A m \in Phones : m # n => Pending(m)' = Pending(m)
<1>1. Pending(n)' = Pending(n) \ {v}
  BY DEF Pending
<1>2. v \in Pending(n)
  BY DEF Pending
<1>3. \A m \in Phones : m # n => Pending(m)' = Pending(m)
  BY DEF Pending
<1>4. Cardinality(Pending(n) \ {v}) = Cardinality(Pending(n)) - 1
  BY <1>2, PendingIsFinite, FS_RemoveElement
<1> QED
  BY <1>1, <1>3, <1>4

-----------------------------------------------------------------------------
(* Before the first request no password has been sent.                     *)
LEMMA OtpInitially == AccountsInit => OtpInv
<1> SUFFICES ASSUME AccountsInit PROVE OtpInv
  OBVIOUS
<1> USE DEF AccountsInit
<1>1. OtpTypes
  BY AccountsAssumption DEF OtpTypes, Otp, NoOtp, Verification
<1>2. AnswersAPhone
  BY DEF AnswersAPhone
<1>3. GuessesCounted
  BY AccountsAssumption DEF GuessesCounted, NoOtp
<1>4. PasswordsSpent
  <2> SUFFICES ASSUME NEW n \in Phones
               PROVE  issued[n] + Cardinality(Pending(n)) + Live(n) <= sent[n]
    BY DEF PasswordsSpent
  <2>1. Pending(n) = {}
    BY DEF Pending
  <2>2. Live(n) = 0
    BY DEF Live, NoOtp
  <2> QED
    BY <2>1, <2>2, FS_EmptySet
<1> QED
  BY <1>1, <1>2, <1>3, <1>4 DEF OtpInv

(* A step that leaves passwords, verifications and their history alone.    *)
LEMMA OtherStep ==
    ASSUME OtpInv, UNCHANGED <<otpStore, verify, authHistory>>
    PROVE  OtpInv'
BY DEF OtpInv, OtpTypes, AnswersAPhone, GuessesCounted, PasswordsSpent, Pending, Live,
       authHistory

(* Each step keeps the books of the passwords.                             *)
LEMMA OtpPreserved == OtpInv /\ [AccountsNext]_accountsVars => OtpInv'
<1> SUFFICES ASSUME OtpInv, [AccountsNext]_accountsVars PROVE OtpInv'
  OBVIOUS
<1> USE DEF OtpInv
<1>1. ASSUME NEW n \in Phones, SendOtp(n) PROVE OtpInv'
  <2> USE <1>1 DEF SendOtp
  <2>1. OtpTypes'
    BY AccountsAssumption DEF OtpTypes, Otp
  <2>2. AnswersAPhone'
    BY DEF AnswersAPhone
  <2>3. GuessesCounted'
    BY AccountsAssumption DEF GuessesCounted, OtpTypes
  <2>4. PasswordsSpent'
    <3> SUFFICES ASSUME NEW m \in Phones
                 PROVE (issued[m] + Cardinality(Pending(m)) + Live(m) <= sent[m])'
      BY DEF PasswordsSpent
    <3>1. Pending(m)' = Pending(m)
      BY DEF Pending
    <3>2. issued[m] + Cardinality(Pending(m)) + Live(m) <= sent[m]
      BY DEF PasswordsSpent
    <3>3. /\ Live(m) \in {0, 1} /\ Live(m)' \in {0, 1}
          /\ m # n => Live(m)' = Live(m)
      BY DEF Live, OtpTypes
    <3>4. /\ issued'[m] = issued[m] /\ issued[m] \in Nat
          /\ sent'[m] = IF m = n THEN sent[m] + 1 ELSE sent[m]
          /\ sent[m] \in Nat
      BY DEF OtpTypes
    <3>5. Cardinality(Pending(m)) \in Nat
      BY PendingIsFinite
    <3> QED
      BY <3>1, <3>2, <3>3, <3>4, <3>5
  <2> QED
    BY <2>1, <2>2, <2>3, <2>4
<1>2. ASSUME NEW n \in Phones, OtpExpires(n) \/ Refuse(n) \/ WrongCode(n) PROVE OtpInv'
  <2>1. /\ OtpTypes'
        /\ \A m \in Phones : otpStore'[m].state # "absent" => otpStore[m].state # "absent"
        /\ GuessesCounted'
    <3>1. CASE OtpExpires(n)
      BY <3>1 DEF OtpExpires, OtpTypes, Otp, GuessesCounted, authHistory
    <3>2. CASE Refuse(n)
      BY <3>2, AccountsAssumption DEF Refuse, OtpTypes, Otp, NoOtp, GuessesCounted, authHistory
    <3>3. CASE WrongCode(n)
      <4>1. /\ otpStore[n] \in Otp /\ guesses[n] \in Nat
            /\ otpStore[n].attempts \in Nat /\ otpStore[n].attempts + 1 <= MAX_OTP_ATTEMPTS
            /\ guesses[n] = otpStore[n].attempts
            /\ otpStore[n].state = "valid"
        BY <3>3, AccountsAssumption
           DEF WrongCode, Compares, AttemptsLeft, OtpTypes, Otp, GuessesCounted
      <4>2. [otpStore[n] EXCEPT !.attempts = @ + 1] \in Otp
        BY <4>1, AccountsAssumption DEF Otp
      <4>3. OtpTypes'
        BY <3>3, <4>1, <4>2 DEF WrongCode, OtpTypes
      <4>4. \A m \in Phones : otpStore'[m].state = otpStore[m].state
        BY <3>3 DEF WrongCode, OtpTypes, Otp
      <4>5. GuessesCounted'
        BY <3>3, <4>1, <4>4 DEF WrongCode, OtpTypes, Otp, GuessesCounted
      <4> QED
        BY <4>3, <4>4, <4>5
    <3> QED
      BY <1>2, <3>1, <3>2, <3>3
  <2>2. UNCHANGED <<verify, sent, issued>>
    BY <1>2 DEF OtpExpires, Refuse, WrongCode, authHistory
  <2>3. AnswersAPhone'
    BY <2>2 DEF AnswersAPhone
  <2>4. PasswordsSpent'
    <3> SUFFICES ASSUME NEW m \in Phones
                 PROVE (issued[m] + Cardinality(Pending(m)) + Live(m) <= sent[m])'
      BY DEF PasswordsSpent
    <3>1. Pending(m)' = Pending(m)
      BY <2>2 DEF Pending
    <3>2. Live(m) \in {0, 1} /\ Live(m)' \in {0, 1} /\ Live(m)' <= Live(m)
      BY <2>1 DEF Live
    <3>3. issued[m] + Cardinality(Pending(m)) + Live(m) <= sent[m]
      BY DEF PasswordsSpent
    <3>4. issued[m] \in Nat /\ sent[m] \in Nat /\ Cardinality(Pending(m)) \in Nat
      BY PendingIsFinite DEF OtpTypes
    <3> QED
      BY <2>2, <3>1, <3>2, <3>3, <3>4
  <2> QED
    BY <2>1, <2>3, <2>4
<1>3. ASSUME NEW v \in Verifications, NEW n \in Phones, RightCode(v, n) PROVE OtpInv'
  <2>1. /\ otpStore[n] \in Otp /\ guesses[n] \in Nat
        /\ otpStore[n].attempts \in Nat /\ otpStore[n].attempts + 1 <= MAX_OTP_ATTEMPTS
        /\ guesses[n] = otpStore[n].attempts
        /\ otpStore[n].state = "valid"
    BY <1>3, AccountsAssumption
       DEF RightCode, Compares, AttemptsLeft, OtpTypes, Otp, GuessesCounted
  <2>2. OtpTypes'
    <3>1. NoOtp \in Otp
      BY AccountsAssumption DEF NoOtp, Otp
    <3>2. otpStore' \in [Phones -> Otp] /\ guesses' \in [Phones -> Nat]
      BY <1>3, <2>1, <3>1 DEF RightCode, OtpTypes
    <3>3. verify' \in [Verifications -> Verification]
      BY <1>3 DEF RightCode, OtpTypes, Verification
    <3> QED
      BY <1>3, <3>2, <3>3 DEF RightCode, OtpTypes
  <2>3. AnswersAPhone'
    BY <1>3 DEF RightCode, AnswersAPhone, OtpTypes, Verification
  <2>4. GuessesCounted'
    BY <1>3, <2>1 DEF RightCode, GuessesCounted, OtpTypes, NoOtp
  <2>5. PasswordsSpent'
    <3> SUFFICES ASSUME NEW m \in Phones
                 PROVE (issued[m] + Cardinality(Pending(m)) + Live(m) <= sent[m])'
      BY DEF PasswordsSpent
    <3>1. IF m = n THEN Cardinality(Pending(m)') = Cardinality(Pending(m)) + 1
                   ELSE Pending(m)' = Pending(m)
      BY <1>3, PendingGrows DEF RightCode
    <3>2. IF m = n THEN Live(m) = 1 /\ Live(m)' = 0 ELSE Live(m)' = Live(m)
      BY <1>3, <2>1 DEF RightCode, Live, OtpTypes, NoOtp
    <3>3. issued[m] + Cardinality(Pending(m)) + Live(m) <= sent[m]
      BY DEF PasswordsSpent
    <3>4. /\ issued[m] \in Nat /\ sent[m] \in Nat /\ Cardinality(Pending(m)) \in Nat
          /\ issued' = issued /\ sent' = sent /\ Live(m) \in {0, 1}
      BY <1>3, PendingIsFinite DEF RightCode, OtpTypes, Live
    <3> QED
      BY <3>1, <3>2, <3>3, <3>4
  <2> QED
    BY <2>2, <2>3, <2>4, <2>5
<1>4. ASSUME NEW v \in Verifications, FindUser(v) \/ InsertUser(v) PROVE OtpInv'
  <2>1. verify[v].phone \in Phones /\ verify[v].pc \in {"find", "insert"}
    BY <1>4 DEF FindUser, InsertUser, AnswersAPhone
  <2> PICK n \in Phones : verify[v].phone = n
    BY <2>1
  <2>2. UNCHANGED <<otpStore, sent, guesses>>
    BY <1>4 DEF FindUser, InsertUser, accounts
  <2>3. GuessesCounted'
    BY <2>2 DEF GuessesCounted
  <2>4. \A m \in Phones : Live(m)' = Live(m) /\ Live(m) \in {0, 1}
    BY <2>2 DEF Live
  <2>5. \A m \in Phones : /\ issued[m] \in Nat /\ sent[m] \in Nat
                          /\ Cardinality(Pending(m)) \in Nat
    BY PendingIsFinite DEF OtpTypes
  <2>6. CASE \E b \in BOOLEAN : Answer(v, b)
    <3> PICK b \in BOOLEAN : Answer(v, b)
      BY <2>6
    <3> USE DEF Answer
    <3>1. OtpTypes'
      <4>1. verify' \in [Verifications -> Verification]
        BY DEF OtpTypes, Verification
      <4>2. issued' \in [Phones -> Nat]
        BY <2>1 DEF OtpTypes
      <4> QED
        BY <2>2, <4>1, <4>2 DEF OtpTypes
    <3>2. AnswersAPhone'
      BY DEF AnswersAPhone, OtpTypes, Verification
    <3>3. /\ verify'[v].pc \notin {"find", "insert"}
          /\ \A w \in Verifications \ {v} : verify'[w] = verify[w]
      BY DEF OtpTypes, Verification
    <3>4. /\ Cardinality(Pending(n)') = Cardinality(Pending(n)) - 1
          /\ \A m \in Phones : m # n => Pending(m)' = Pending(m)
      BY <2>1, <3>3, PendingShrinks
    <3>5. \A m \in Phones : issued'[m] = IF m = n THEN issued[m] + 1 ELSE issued[m]
      BY DEF OtpTypes
    <3>6. PasswordsSpent'
      <4> SUFFICES ASSUME NEW m \in Phones
                   PROVE (issued[m] + Cardinality(Pending(m)) + Live(m) <= sent[m])'
        BY DEF PasswordsSpent
      <4>1. issued[m] + Cardinality(Pending(m)) + Live(m) <= sent[m]
        BY DEF PasswordsSpent
      <4> QED
        BY <2>2, <2>4, <2>5, <3>4, <3>5, <4>1
    <3> QED
      BY <2>3, <3>1, <3>2, <3>6
  <2>7. CASE UNCHANGED issued /\ \E pc \in {"insert", "failed"} :
                                    verify' = [verify EXCEPT ![v].pc = pc]
    <3> PICK pc \in {"insert", "failed"} : verify' = [verify EXCEPT ![v].pc = pc]
      BY <2>7
    <3>1. OtpTypes'
      BY <2>2, <2>7 DEF OtpTypes, Verification
    <3>2. AnswersAPhone'
      BY <2>1 DEF AnswersAPhone, OtpTypes, Verification
    <3>3. \A m \in Phones : Pending(m)' \subseteq Pending(m)
      BY <2>1 DEF Pending, OtpTypes, Verification
    <3>4. \A m \in Phones : /\ Cardinality(Pending(m)') \in Nat
                            /\ Cardinality(Pending(m)') <= Cardinality(Pending(m))
      BY <3>3, PendingIsFinite, FS_Subset, FS_CardinalityType
    <3>5. PasswordsSpent'
      BY <2>2, <2>4, <2>5, <2>7, <3>4 DEF PasswordsSpent
    <3> QED
      BY <2>3, <3>1, <3>2, <3>5
  <2> QED
    BY <1>4, <2>6, <2>7 DEF FindUser, InsertUser
<1>5. CASE Restart
  <2> USE <1>5 DEF Restart
  <2>1. OtpTypes'
    <3>1. NoOtp \in Otp
      BY AccountsAssumption DEF NoOtp, Otp
    <3>2. verify' \in [Verifications -> Verification]
      BY DEF OtpTypes, Verification
    <3> QED
      BY <3>1, <3>2 DEF OtpTypes, authHistory
  <2>2. AnswersAPhone'
    BY DEF AnswersAPhone, OtpTypes, Verification
  <2>3. GuessesCounted'
    BY DEF GuessesCounted, NoOtp, authHistory
  <2>4. PasswordsSpent'
    <3> SUFFICES ASSUME NEW m \in Phones
                 PROVE (issued[m] + Cardinality(Pending(m)) + Live(m) <= sent[m])'
      BY DEF PasswordsSpent
    <3>1. Pending(m)' = {}
      BY DEF Pending, OtpTypes, Verification
    <3>2. Live(m)' = 0 /\ Live(m) \in {0, 1}
      BY DEF Live, NoOtp
    <3>3. issued[m] + Cardinality(Pending(m)) + Live(m) <= sent[m]
      BY DEF PasswordsSpent
    <3>4. /\ issued[m] \in Nat /\ sent[m] \in Nat /\ Cardinality(Pending(m)) \in Nat
          /\ issued' = issued /\ sent' = sent
      BY PendingIsFinite DEF OtpTypes, authHistory
    <3>5. Cardinality(Pending(m)') = 0
      BY <3>1, FS_EmptySet
    <3> QED
      BY <3>2, <3>3, <3>4, <3>5
  <2> QED
    BY <2>1, <2>2, <2>3, <2>4
<1>6. CASE UNCHANGED <<otpStore, verify, authHistory>>
  BY <1>6, OtherStep
<1>7. CASE AccountsNext
  <2>1. \/ \E n \in Phones : SendOtp(n)
        \/ \E n \in Phones : OtpExpires(n) \/ Refuse(n) \/ WrongCode(n)
        \/ \E v \in Verifications, n \in Phones : RightCode(v, n)
        \/ \E v \in Verifications : FindUser(v) \/ InsertUser(v)
        \/ Restart
        \/ UNCHANGED <<otpStore, verify, authHistory>>
    BY <1>7 DEF AccountsNext, Preauthorize, GetKycStatus, CompareFace, LookUp, Register,
                SaveSelect, SaveUpdate, LinkPerson, ErasePerson, accounts
  <2> QED
    BY <2>1, <1>1, <1>2, <1>3, <1>4, <1>5, <1>6
<1> QED
  BY <1>6, <1>7 DEF accountsVars, accounts

-----------------------------------------------------------------------------
(* The passwords' books are kept in every reachable state.                 *)
LEMMA OtpInvariant == AccountsSpec => []OtpInv
BY OtpInitially, OtpPreserved, PTL DEF AccountsSpec

(* verifyOtp: for any number of phones and of concurrent verifications, a  *)
(* password is answered with one token at most, across restarts.           *)
THEOREM OnePasswordOneToken == AccountsSpec => []OtpUsedOnce
<1>1. OtpInv => OtpUsedOnce
  <2> SUFFICES ASSUME OtpInv, NEW n \in Phones PROVE issued[n] <= sent[n]
    BY DEF OtpUsedOnce
  <2>1. issued[n] + Cardinality(Pending(n)) + Live(n) <= sent[n]
    BY DEF OtpInv, PasswordsSpent
  <2>2. issued[n] \in Nat /\ sent[n] \in Nat /\ Cardinality(Pending(n)) \in Nat
    BY PendingIsFinite DEF OtpInv, OtpTypes
  <2>3. Live(n) \in {0, 1}
    BY DEF Live
  <2> QED
    BY <2>1, <2>2, <2>3
<1> QED
  BY <1>1, OtpInvariant, PTL

(* verifyOtp: MAX_OTP_ATTEMPTS bounds the codes compared with a password,  *)
(* whatever its value.                                                     *)
THEOREM GuessesAreBounded == AccountsSpec => []OtpGuessesBounded
<1>1. OtpInv => OtpGuessesBounded
  BY DEF OtpInv, GuessesCounted, OtpGuessesBounded
<1> QED
  BY <1>1, OtpInvariant, PTL

-----------------------------------------------------------------------------
(* Accounts.  A registration at work loaded a row that was there.          *)
RegistrationKnown ==
    \A r \in Registrations : reg[r].pc \in Saving =>
        reg[r].phone \in Phones /\ reg[r].entity.exists /\ users[reg[r].phone].exists

(* A token is answered for an account that exists, and an account, once    *)
(* made, is never removed.                                                 *)
TokenHasAccount ==
    \A n \in Phones :
        /\ issued[n] > 0 => users[n].exists
        /\ ~users[n].exists => users[n].name = "null" /\ users[n].personId = "null"

NewUserHasAccount ==
    \A v \in Verifications : verify[v].isNewUser =>
        /\ verify[v].pc = "done" /\ verify[v].phone \in Phones
        /\ users[verify[v].phone].exists

AccountInv ==
    AccountsTypeOK /\ RegistrationKnown /\ TokenHasAccount /\ NewUserHasAccount /\ NewUserOnce

(* Until a second write met it, a registration is alone on its account and *)
(* the row is as it was when it was loaded.                                *)
ProfileInv ==
    /\ \A r, q \in Registrations :
          reg[r].pc \in Saving /\ reg[q].pc \in Saving /\ reg[r].phone = reg[q].phone
             => r = q \/ reg[r].phone \in overlapped
    /\ \A r \in Registrations : reg[r].pc \in Saving /\ reg[r].phone \notin overlapped =>
          /\ users[reg[r].phone].name = "null"
          /\ users[reg[r].phone].personId = reg[r].entity.personId

(* What a step does to an account and its registrations.                   *)
AccountMade(v) ==
    LET n == verify[v].phone IN
    /\ n \in Phones /\ ~users[n].exists
    /\ users' = [users EXCEPT ![n] = NewUser]
    /\ verify'[v].pc = "done" /\ verify'[v].phone = n
    /\ \A w \in Verifications \ {v} : verify'[w] = verify[w]
    /\ \A m \in Phones \ {n} : issued'[m] = issued[m]
    /\ UNCHANGED <<persons, ticketOf, reg, overlapped>>

(* The INSERT of a first verification makes the account.                   *)
LEMMA InsertMakes ==
    ASSUME OtpInv, NEW v \in Verifications, InsertUser(v), PhoneFree(verify[v].phone)
    PROVE  AccountMade(v)
<1>0. /\ verify \in [Verifications -> Verification] /\ issued \in [Phones -> Nat]
      /\ verify[v].phone \in Phones
  BY DEF OtpInv, OtpTypes, InsertUser, AnswersAPhone
<1>1. /\ users' = [users EXCEPT ![verify[v].phone] = NewUser]
      /\ verify' = [verify EXCEPT ![v].pc = "done", ![v].isNewUser = TRUE]
      /\ issued' = [issued EXCEPT ![verify[v].phone] = @ + 1]
      /\ UNCHANGED <<persons, ticketOf, reg, overlapped>>
  BY DEF InsertUser, Answer
<1>2. /\ verify'[v].pc = "done" /\ verify'[v].phone = verify[v].phone
      /\ \A w \in Verifications \ {v} : verify'[w] = verify[w]
  BY <1>0, <1>1 DEF Verification
<1>3. \A m \in Phones \ {verify[v].phone} : issued'[m] = issued[m]
  BY <1>0, <1>1
<1>4. QED
  BY <1>0, <1>1, <1>2, <1>3 DEF AccountMade, PhoneFree

(* Nobody becomes a new user in this step.                                 *)
NoNewcomer == \A w \in Verifications : verify'[w].isNewUser => verify'[w] = verify[w]

(* Only the INSERT of a new account makes a new user.                      *)
LEMMA NewUserOrNone ==
    ASSUME OtpInv, AccountInv, AccountsNext
    PROVE  NoNewcomer \/ \E v \in Verifications : AccountMade(v)
<1> USE DEF NoNewcomer
<1>0. verify \in [Verifications -> Verification] /\ NewUserHasAccount
  BY DEF OtpInv, OtpTypes, AccountInv
<1>1. ASSUME NEW v \in Verifications, NEW n \in Phones, RightCode(v, n) PROVE NoNewcomer
  <2>1. ~verify[v].isNewUser /\ verify' = [verify EXCEPT ![v].pc = "find", ![v].phone = n]
    BY <1>0, <1>1 DEF RightCode, NewUserHasAccount, Verification
  <2>2. ~verify'[v].isNewUser /\ \A w \in Verifications \ {v} : verify'[w] = verify[w]
    BY <1>0, <2>1 DEF Verification
  <2>3. QED
    BY <2>2
<1>2. ASSUME NEW v \in Verifications, FindUser(v) PROVE NoNewcomer
  <2>1. verify[v].pc = "find" /\ ~verify[v].isNewUser
    BY <1>0, <1>2 DEF FindUser, NewUserHasAccount, Verification
  <2>2. ~verify'[v].isNewUser /\ \A w \in Verifications \ {v} : verify'[w] = verify[w]
    BY <1>0, <1>2, <2>1 DEF FindUser, Answer, Verification
  <2>3. QED
    BY <2>2
<1>i. ASSUME NEW v \in Verifications, InsertUser(v) PROVE NoNewcomer \/ AccountMade(v)
  <2>1. CASE PhoneFree(verify[v].phone)
    BY <1>i, <2>1, InsertMakes
  <2>2. CASE ~PhoneFree(verify[v].phone)
    <3>1. verify' = [verify EXCEPT ![v].pc = "failed"] /\ ~verify[v].isNewUser
      BY <1>0, <1>i, <2>2 DEF InsertUser, NewUserHasAccount, Verification
    <3>2. ~verify'[v].isNewUser /\ \A w \in Verifications \ {v} : verify'[w] = verify[w]
      BY <1>0, <3>1 DEF Verification
    <3>3. QED
      BY <3>2
  <2>3. QED
    BY <2>1, <2>2
<1>3. CASE Restart
  <2>1. \A w \in Verifications : verify[w].isNewUser => verify[w].pc = "done"
    BY <1>0 DEF NewUserHasAccount
  <2>2. \A w \in Verifications :
            verify'[w] = IF verify[w].pc \in {"find", "insert"}
                         THEN [verify[w] EXCEPT !.pc = "failed"] ELSE verify[w]
    BY <1>3 DEF Restart
  <2>3. \A w \in Verifications : [verify[w] EXCEPT !.pc = "failed"].isNewUser = verify[w].isNewUser
    BY <1>0 DEF Verification
  <2>4. QED
    BY <2>1, <2>2, <2>3
<1>4. CASE UNCHANGED verify
  BY <1>4
<1>5. QED
  <2>1. \/ \E v \in Verifications, n \in Phones : RightCode(v, n)
        \/ \E v \in Verifications : FindUser(v) \/ InsertUser(v)
        \/ Restart
        \/ UNCHANGED verify
    BY DEF AccountsNext, SendOtp, OtpExpires, Refuse, WrongCode, Preauthorize, GetKycStatus,
           CompareFace, LookUp, Register, SaveSelect, SaveUpdate, LinkPerson, ErasePerson
  <2>2. QED
    BY <1>1, <1>2, <1>3, <1>4, <1>i, <2>1

(* Columns of two rows of an account, mixed by an UPDATE.                  *)
Mixed(row, entity, cols) == [c \in DOMAIN row |-> IF c \in cols THEN entity[c] ELSE row[c]]

(* The mixture is a row, column by column one or the other.                *)
LEMMA MixedUser ==
    ASSUME NEW row \in User, NEW entity \in User, NEW cols
    PROVE  /\ Mixed(row, entity, cols) \in User
           /\ Mixed(row, entity, cols).exists \in {entity.exists, row.exists}
           /\ Mixed(row, entity, cols).personId \in {entity.personId, row.personId}
<1> DEFINE m == Mixed(row, entity, cols)
<1>1. DOMAIN row = {"exists", "name", "personId"}
  BY DEF User
<1>2. /\ m = [exists |-> m.exists, name |-> m.name, personId |-> m.personId]
      /\ m.exists \in {entity.exists, row.exists}
      /\ m.name \in {entity.name, row.name}
      /\ m.personId \in {entity.personId, row.personId}
  BY <1>1 DEF Mixed
<1> HIDE DEF m
<1>3. m \in User
  BY <1>2 DEF User
<1>4. QED
  BY <1>2, <1>3 DEF m

(* What the UPDATE of a registration does.                                 *)
LEMMA SaveUpdateMixes ==
    ASSUME OtpInv, AccountInv, NEW r \in Registrations, SaveUpdate(r)
    PROVE  /\ reg[r].pc \in Saving /\ reg[r].phone \in Phones
           /\ users' \in [Phones -> User]
           /\ users'[reg[r].phone].exists
           /\ users'[reg[r].phone].personId \in
                 {reg[r].entity.personId, users[reg[r].phone].personId}
           /\ \A q \in Phones \ {reg[r].phone} : users'[q] = users[q]
           /\ reg' \in [Registrations -> Registration]
           /\ reg'[r].pc = "done" /\ \A q \in Registrations \ {r} : reg'[q] = reg[q]
           /\ UNCHANGED <<persons, ticketOf, issued, overlapped>>
<1>0. /\ users \in [Phones -> User] /\ reg \in [Registrations -> Registration] /\ RegistrationKnown
  BY DEF AccountInv, AccountsTypeOK
<1> DEFINE n == reg[r].phone
<1>1. /\ reg[r].pc \in Saving /\ n \in Phones /\ users[n].exists /\ users[n] \in User
      /\ reg[r].entity.exists /\ reg[r].entity \in User
  BY <1>0 DEF SaveUpdate, RegistrationKnown, Saving, Registration
<1>2. PICK m : m = Mixed(users[n], reg[r].entity, reg[r].cols)
  OBVIOUS
<1>3. /\ m \in User /\ m.exists
      /\ m.personId \in {reg[r].entity.personId, users[n].personId}
  BY <1>1, <1>2, MixedUser
<1>4. /\ users' = [users EXCEPT ![n] = m] /\ reg' = [reg EXCEPT ![r].pc = "done"]
      /\ UNCHANGED <<persons, ticketOf, issued, overlapped>>
  BY <1>2 DEF SaveUpdate, authHistory, Mixed
<1>5. /\ users' \in [Phones -> User] /\ users'[n] = m
      /\ \A q \in Phones \ {n} : users'[q] = users[q]
  BY <1>0, <1>1, <1>3, <1>4
<1>6. /\ reg' \in [Registrations -> Registration] /\ reg'[r].pc = "done"
      /\ \A q \in Registrations \ {r} : reg'[q] = reg[q]
  BY <1>0, <1>4 DEF Registration
<1>7. QED
  BY <1>1, <1>3, <1>4, <1>5, <1>6

AccountAnswered(n) ==
    /\ n \in Phones /\ users[n].exists
    /\ \A m \in Phones \ {n} : issued'[m] = issued[m]
    /\ UNCHANGED <<users, persons, ticketOf, reg, overlapped>>

NoAccountTouched ==
    /\ persons' \subseteq Persons /\ ticketOf' \subseteq Phones
    /\ UNCHANGED <<users, reg, issued, overlapped>>

(* The steps of a verification, a password, a ticket or a lookup.          *)
LEMMA VerificationSteps ==
    ASSUME OtpInv, AccountInv, AccountsNext
    PROVE  \/ NoAccountTouched
           \/ \E n \in Phones : AccountAnswered(n)
           \/ \E v \in Verifications : AccountMade(v)
           \/ \E r \in Registrations, n \in Phones, name \in Names : Register(r, n, name)
           \/ \E r \in Registrations : SaveSelect(r) \/ SaveUpdate(r)
           \/ \E n \in Phones, p \in Persons : LinkPerson(n, p)
           \/ Restart
<1>0. /\ verify \in [Verifications -> Verification] /\ AnswersAPhone
      /\ issued \in [Phones -> Nat] /\ persons \subseteq Persons /\ ticketOf \subseteq Phones
  BY DEF OtpInv, OtpTypes, AccountInv, AccountsTypeOK
<1>1. ASSUME NEW n \in Phones,
             \/ SendOtp(n) \/ OtpExpires(n) \/ Refuse(n) \/ WrongCode(n)
             \/ Preauthorize(n) \/ GetKycStatus(n) \/ CompareFace(n)
      PROVE  NoAccountTouched
  BY <1>0, <1>1 DEF NoAccountTouched, SendOtp, OtpExpires, Refuse, WrongCode, Preauthorize,
                    GetKycStatus, CompareFace, LookUp, accounts, authHistory
<1>2. ASSUME NEW v \in Verifications, NEW n \in Phones, RightCode(v, n) PROVE NoAccountTouched
  BY <1>0, <1>2 DEF NoAccountTouched, RightCode
<1>3. ASSUME NEW p \in Persons, ErasePerson(p) PROVE NoAccountTouched
  BY <1>0, <1>3 DEF NoAccountTouched, ErasePerson, authHistory
<1>4. ASSUME NEW v \in Verifications, FindUser(v)
      PROVE  NoAccountTouched \/ \E n \in Phones : AccountAnswered(n)
  <2>1. verify[v].phone \in Phones
    BY <1>0, <1>4 DEF FindUser, AnswersAPhone
  <2>2. QED
    BY <1>0, <1>4, <2>1 DEF FindUser, Answer, NoAccountTouched, AccountAnswered, accounts
<1>5. ASSUME NEW v \in Verifications, InsertUser(v)
      PROVE  NoAccountTouched \/ AccountMade(v)
  <2>2. CASE PhoneFree(verify[v].phone)
    BY <1>5, <2>2, InsertMakes
  <2>3. CASE ~PhoneFree(verify[v].phone)
    BY <1>0, <1>5, <2>3 DEF InsertUser, NoAccountTouched
  <2>4. QED
    BY <2>2, <2>3
<1>6. QED
  BY <1>1, <1>2, <1>3, <1>4, <1>5 DEF AccountsNext

(* Every step keeps the accounts in order, ...                             *)
LEMMA AccountPreserved ==
    ASSUME OtpInv, OtpInv', AccountInv, AccountsNext
    PROVE  AccountInv'
<1>0. /\ users \in [Phones -> User] /\ reg \in [Registrations -> Registration]
      /\ persons \subseteq Persons /\ ticketOf \subseteq Phones
      /\ issued \in [Phones -> Nat] /\ issued' \in [Phones -> Nat]
      /\ RegistrationKnown /\ TokenHasAccount /\ NewUserHasAccount /\ NewUserOnce
      /\ verify \in [Verifications -> Verification]
  BY DEF OtpInv, OtpTypes, AccountInv, AccountsTypeOK
<1>t. otpStore' \in [Phones -> Otp] /\ verify' \in [Verifications -> Verification]
  BY DEF OtpInv, OtpTypes
<1>n. NoUser \in User /\ NewUser \in User /\ NewUser.exists
  BY DEF NoUser, NewUser, User
<1>1. ASSUME NEW v \in Verifications, AccountMade(v) PROVE AccountInv'
  <2> DEFINE n == verify[v].phone
  <2>1. /\ n \in Phones /\ ~users[n].exists /\ users' \in [Phones -> User]
        /\ users'[n] = NewUser /\ \A m \in Phones \ {n} : users'[m] = users[m]
    BY <1>0, <1>1, <1>n DEF AccountMade
  <2>2. AccountsTypeOK' /\ RegistrationKnown'
    BY <1>0, <1>t, <1>1, <1>n, <2>1 DEF AccountMade, AccountsTypeOK, RegistrationKnown
  <2>3. TokenHasAccount'
    BY <1>0, <1>1, <1>n, <2>1 DEF AccountMade, TokenHasAccount
  <2>4. NewUserHasAccount'
    BY <1>0, <1>1, <1>n, <2>1 DEF AccountMade, NewUserHasAccount
  <2>5. NewUserOnce'
    <3>1. \A w \in Verifications \ {v} : verify[w].isNewUser => verify[w].phone # n
      BY <1>0, <2>1 DEF NewUserHasAccount
    <3>2. QED
      BY <1>0, <1>1, <3>1 DEF AccountMade, NewUserOnce
  <2>6. QED
    BY <2>2, <2>3, <2>4, <2>5 DEF AccountInv
<1>2. ASSUME NoNewcomer, \A n \in Phones : users[n].exists => users'[n].exists
      PROVE  NewUserHasAccount' /\ NewUserOnce'
  BY <1>0, <1>2 DEF NoNewcomer, NewUserHasAccount, NewUserOnce
<1>3. CASE NoNewcomer
  <2>1. CASE NoAccountTouched
    <3>1. AccountsTypeOK' /\ RegistrationKnown' /\ TokenHasAccount'
      BY <1>0, <1>t, <2>1 DEF NoAccountTouched, AccountsTypeOK, RegistrationKnown, TokenHasAccount
    <3>2. QED
      BY <1>2, <1>3, <2>1, <3>1 DEF AccountInv, NoAccountTouched
  <2>2. ASSUME NEW n \in Phones, AccountAnswered(n) PROVE AccountInv'
    <3>1. AccountsTypeOK' /\ RegistrationKnown' /\ TokenHasAccount'
      BY <1>0, <1>t, <2>2 DEF AccountAnswered, AccountsTypeOK, RegistrationKnown, TokenHasAccount
    <3>2. QED
      BY <1>2, <1>3, <2>2, <3>1 DEF AccountInv, AccountAnswered
  <2>3. ASSUME NEW r \in Registrations, NEW n \in Phones, NEW name \in Names, Register(r, n, name)
        PROVE  AccountInv'
    <3>1. PICK entity : entity = [users[n] EXCEPT !.name = name]
      OBVIOUS
    <3>2. users[n].exists
      BY <1>0, <2>3 DEF Register, HasToken, TokenHasAccount
    <3>3. entity \in User /\ entity.exists
      BY <1>0, <3>1, <3>2 DEF User
    <3>4. PICK pc \in {"select", "failed"} :
            reg' = [reg EXCEPT ![r] = [pc |-> pc, phone |-> n, cols |-> {}, entity |-> entity]]
      BY <2>3, <3>1 DEF Register
    <3>5. reg' \in [Registrations -> Registration]
      BY <1>0, <3>3, <3>4 DEF Registration
    <3>6. UNCHANGED <<users, persons, ticketOf, issued>>
      BY <2>3 DEF Register, accounts, authHistory
    <3>7. RegistrationKnown'
      BY <1>0, <3>2, <3>3, <3>4, <3>6 DEF RegistrationKnown
    <3>8. AccountsTypeOK' /\ TokenHasAccount'
      BY <1>0, <1>t, <3>5, <3>6 DEF AccountsTypeOK, TokenHasAccount
    <3>9. QED
      BY <1>2, <1>3, <3>6, <3>7, <3>8 DEF AccountInv
  <2>4. ASSUME NEW r \in Registrations, SaveSelect(r) PROVE AccountInv'
    <3>1. PICK cols : cols = {c \in DOMAIN users[reg[r].phone] :
                                 reg[r].entity[c] # users[reg[r].phone][c]}
      OBVIOUS
    <3>2. /\ reg' = [reg EXCEPT ![r].pc = "update", ![r].cols = cols] /\ reg[r].pc = "select"
          /\ UNCHANGED <<users, persons, ticketOf, issued>>
      BY <2>4, <3>1 DEF SaveSelect, accounts, authHistory
    <3>3. cols \in SUBSET {"exists", "name", "personId"}
      BY <1>0, <3>1, <3>2 DEF User, RegistrationKnown, Saving
    <3>4. reg' \in [Registrations -> Registration]
      <4>1. [reg[r] EXCEPT !.pc = "update", !.cols = cols] \in Registration
        BY <1>0, <3>3 DEF Registration
      <4>2. QED
        BY <1>0, <3>2, <4>1
    <3>5. RegistrationKnown'
      BY <1>0, <3>2 DEF RegistrationKnown, Registration, Saving
    <3>6. AccountsTypeOK' /\ TokenHasAccount'
      BY <1>0, <1>t, <3>2, <3>4 DEF AccountsTypeOK, TokenHasAccount
    <3>7. QED
      BY <1>2, <1>3, <3>2, <3>5, <3>6 DEF AccountInv
  <2>5. ASSUME NEW r \in Registrations, SaveUpdate(r) PROVE AccountInv'
    <3> DEFINE n == reg[r].phone
    <3>1. /\ n \in Phones /\ users' \in [Phones -> User] /\ users'[n].exists
          /\ \A q \in Phones \ {n} : users'[q] = users[q]
          /\ reg' \in [Registrations -> Registration]
          /\ reg'[r].pc = "done" /\ \A q \in Registrations \ {r} : reg'[q] = reg[q]
          /\ UNCHANGED <<persons, ticketOf, issued>>
      BY <2>5, SaveUpdateMixes
    <3>2. \A q \in Phones : users[q].exists => users'[q].exists
      BY <3>1
    <3>3. RegistrationKnown'
      BY <1>0, <3>1, <3>2 DEF RegistrationKnown, Saving
    <3>4. AccountsTypeOK' /\ TokenHasAccount'
      BY <1>0, <1>t, <3>1 DEF AccountsTypeOK, TokenHasAccount
    <3>5. QED
      BY <1>2, <1>3, <3>2, <3>3, <3>4 DEF AccountInv
  <2>6. ASSUME NEW n \in Phones, NEW p \in Persons, LinkPerson(n, p) PROVE AccountInv'
    <3>1. users[n].exists
      BY <1>0, <2>6 DEF LinkPerson, HasToken, TokenHasAccount
    <3>2. PICK m : m = [users[n] EXCEPT !.personId = p]
      OBVIOUS
    <3>3. m \in User /\ m.exists
      BY <1>0, <3>1, <3>2 DEF User
    <3>4. /\ users' = [users EXCEPT ![n] = m] /\ persons' \subseteq Persons
          /\ UNCHANGED <<reg, ticketOf, issued>>
      BY <1>0, <2>6, <3>2 DEF LinkPerson, authHistory
    <3>5. users' \in [Phones -> User] /\ users'[n] = m /\ \A q \in Phones \ {n} : users'[q] = users[q]
      BY <1>0, <3>3, <3>4
    <3>6. AccountsTypeOK' /\ RegistrationKnown' /\ TokenHasAccount'
      BY <1>0, <1>t, <3>3, <3>4, <3>5 DEF AccountsTypeOK, RegistrationKnown, TokenHasAccount
    <3>7. \A q \in Phones : users[q].exists => users'[q].exists
      BY <3>3, <3>5
    <3>8. QED
      BY <1>2, <1>3, <3>6, <3>7 DEF AccountInv
  <2>7. CASE Restart
    <3>1. UNCHANGED <<users, persons, ticketOf, issued>>
      BY <2>7 DEF Restart, authHistory
    <3>2. reg' \in [Registrations -> Registration]
      BY <1>0, <2>7 DEF Restart, Registration
    <3>3. RegistrationKnown'
      <4>1. \A q \in Registrations :
                reg'[q] = IF reg[q].pc \in Saving THEN [reg[q] EXCEPT !.pc = "failed"] ELSE reg[q]
        BY <2>7 DEF Restart
      <4>2. \A q \in Registrations : [reg[q] EXCEPT !.pc = "failed"].pc = "failed"
        BY <1>0 DEF Registration
      <4>3. QED
        BY <1>0, <3>1, <4>1, <4>2 DEF RegistrationKnown, Saving
    <3>4. AccountsTypeOK' /\ TokenHasAccount'
      BY <1>0, <1>t, <3>1, <3>2 DEF AccountsTypeOK, TokenHasAccount
    <3>5. QED
      BY <1>2, <1>3, <3>1, <3>3, <3>4 DEF AccountInv
  <2>8. QED
    BY <1>1, <2>1, <2>2, <2>3, <2>4, <2>5, <2>6, <2>7, VerificationSteps
<1>4. QED
  BY <1>1, <1>3, NewUserOrNone

(* ... from a state in which they are.                                     *)
LEMMA AccountInitially == AccountsInit => AccountInv /\ ProfileInv
<1> SUFFICES ASSUME AccountsInit PROVE AccountInv /\ ProfileInv
  OBVIOUS
<1>1. NoUser \in User /\ NoUser.name = "null" /\ NoUser.personId = "null"
  BY DEF NoUser, User
<1>2. OtpTypes
  BY OtpInitially DEF OtpInv
<1>3. /\ reg \in [Registrations -> Registration]
      /\ \A r \in Registrations : reg[r].pc \notin Saving
  BY <1>1 DEF AccountsInit, Registration, Saving
<1>4. AccountsTypeOK
  BY <1>1, <1>2, <1>3 DEF AccountsInit, AccountsTypeOK, OtpTypes
<1>5. TokenHasAccount
  BY <1>1 DEF AccountsInit, TokenHasAccount
<1>6. NewUserHasAccount /\ NewUserOnce
  BY DEF AccountsInit, NewUserHasAccount, NewUserOnce
<1>7. QED
  BY <1>3, <1>4, <1>5, <1>6 DEF AccountInv, ProfileInv, RegistrationKnown

(* The accounts are in order in every reachable state.                     *)
LEMMA AccountInvariant == AccountsSpec => [](OtpInv /\ AccountInv)
<1>1. OtpInv /\ OtpInv' /\ AccountInv /\ [AccountsNext]_accountsVars => AccountInv'
  <2>1. AccountInv /\ UNCHANGED accountsVars => AccountInv'
    BY DEF accountsVars, accounts, authHistory, AccountInv, AccountsTypeOK, RegistrationKnown,
           TokenHasAccount, NewUserHasAccount, NewUserOnce
  <2>2. QED
    BY <2>1, AccountPreserved
<1>2. QED
  BY <1>1, AccountInitially, OtpInitially, OtpPreserved, PTL DEF AccountsSpec

(* The columns and locals of the authentication service keep their kinds,  *)
(* and no record counts more than MAX_OTP_ATTEMPTS attempts.               *)
THEOREM AccountsTypeCorrect == AccountsSpec => []AccountsTypeOK
<1>1. AccountInv => AccountsTypeOK
  BY DEF AccountInv
<1>2. QED
  BY <1>1, AccountInvariant, PTL

(* Of any number of first verifications of one phone, one tells its caller *)
(* to register.                                                            *)
THEOREM OneNewUser == AccountsSpec => []NewUserOnce
<1>1. AccountInv => NewUserOnce
  BY DEF AccountInv
<1>2. QED
  BY <1>1, AccountInvariant, PTL

-----------------------------------------------------------------------------
ProfileKept ==
    \A n \in Phones \ overlapped :
        /\ users[n].name # "null" => users'[n].name = users[n].name
        /\ users[n].personId # "null" => users'[n].personId # "null"

(* A save that is alone writes back what the row has.                      *)
LEMMA ProfilePreserved ==
    ASSUME OtpInv, AccountInv, ProfileInv, AccountsNext
    PROVE  ProfileInv' /\ ProfileKept
<1>0. /\ users \in [Phones -> User] /\ reg \in [Registrations -> Registration]
      /\ issued \in [Phones -> Nat] /\ RegistrationKnown /\ TokenHasAccount
  BY DEF OtpInv, OtpTypes, AccountInv, AccountsTypeOK
<1>1. ASSUME UNCHANGED <<users, reg, overlapped>> PROVE ProfileInv' /\ ProfileKept
  BY <1>1 DEF ProfileInv, ProfileKept
<1>2. ASSUME NEW v \in Verifications, AccountMade(v) PROVE ProfileInv' /\ ProfileKept
  <2> DEFINE n == verify[v].phone
  <2>1. /\ n \in Phones /\ ~users[n].exists
        /\ \A m \in Phones \ {n} : users'[m] = users[m]
        /\ UNCHANGED <<reg, overlapped>>
    BY <1>0, <1>2 DEF AccountMade
  <2>2. users[n].name = "null" /\ users[n].personId = "null"
    BY <1>0, <2>1 DEF TokenHasAccount
  <2>3. \A r \in Registrations : reg[r].pc \in Saving => reg[r].phone \in Phones \ {n}
    BY <1>0, <2>1 DEF RegistrationKnown
  <2>4. ProfileInv'
    BY <2>1, <2>3 DEF ProfileInv
  <2>5. QED
    BY <2>1, <2>2, <2>4 DEF ProfileKept
<1>3. ASSUME NEW r \in Registrations, NEW n \in Phones, NEW name \in Names, Register(r, n, name)
      PROVE  ProfileInv' /\ ProfileKept
  <2>1. PICK entity : entity = [users[n] EXCEPT !.name = name]
    OBVIOUS
  <2>2. entity.personId = users[n].personId
    BY <1>0, <2>1 DEF User
  <2>3. PICK pc \in {"select", "failed"} :
          /\ reg' = [reg EXCEPT ![r] = [pc |-> pc, phone |-> n, cols |-> {}, entity |-> entity]]
          /\ pc = "select" => users[n].name = "null"
    BY <1>3, <2>1 DEF Register
  <2>4. /\ reg'[r].phone = n /\ reg'[r].entity = entity /\ reg'[r].pc = pc
        /\ \A q \in Registrations \ {r} : reg'[q] = reg[q]
    BY <1>0, <2>3
  <2>5. /\ overlapped' = overlapped \cup ({n} \cap BeingRegistered) /\ UNCHANGED users
    BY <1>3 DEF Register, accounts
  <2>6. \A q \in Registrations : reg[q].pc \in Saving /\ reg[q].phone = n => n \in overlapped'
    BY <2>5 DEF BeingRegistered
  <2>7. ProfileInv'
    BY <2>2, <2>3, <2>4, <2>5, <2>6 DEF ProfileInv, Saving
  <2>8. QED
    BY <2>5, <2>7 DEF ProfileKept
<1>4. ASSUME NEW r \in Registrations, SaveSelect(r) PROVE ProfileInv' /\ ProfileKept
  <2>1. PICK cols : reg' = [reg EXCEPT ![r].pc = "update", ![r].cols = cols]
    BY <1>4 DEF SaveSelect
  <2>2. /\ reg[r].pc \in Saving /\ reg'[r].phone = reg[r].phone /\ reg'[r].entity = reg[r].entity
        /\ \A q \in Registrations \ {r} : reg'[q] = reg[q]
        /\ UNCHANGED <<users, overlapped>>
    BY <1>0, <1>4, <2>1 DEF SaveSelect, Saving, Registration, accounts
  <2>3. QED
    BY <2>2 DEF ProfileInv, ProfileKept
<1>5. ASSUME NEW r \in Registrations, SaveUpdate(r) PROVE ProfileInv' /\ ProfileKept
  <2> DEFINE n == reg[r].phone
  <2>1. /\ reg[r].pc \in Saving /\ n \in Phones
        /\ users'[n].personId \in {reg[r].entity.personId, users[n].personId}
        /\ \A q \in Phones \ {n} : users'[q] = users[q]
        /\ reg'[r].pc = "done" /\ \A q \in Registrations \ {r} : reg'[q] = reg[q]
        /\ UNCHANGED overlapped
    BY <1>5, SaveUpdateMixes
  <2>2. n \notin overlapped => users[n].name = "null" /\ users[n].personId = reg[r].entity.personId
    BY <2>1 DEF ProfileInv
  <2>3. \A q \in Registrations : /\ reg'[q].pc \in Saving /\ reg'[q].phone \notin overlapped'
                                 => reg'[q].phone \in Phones \ {n}
    BY <1>0, <2>1 DEF ProfileInv, RegistrationKnown, Saving
  <2>4. ProfileInv'
    BY <2>1, <2>3 DEF ProfileInv, Saving
  <2>5. QED
    BY <2>1, <2>2, <2>4 DEF ProfileKept
<1>6. ASSUME NEW n \in Phones, NEW p \in Persons, LinkPerson(n, p) PROVE ProfileInv' /\ ProfileKept
  <2>1. /\ users' = [users EXCEPT ![n].personId = p] /\ UNCHANGED reg
        /\ overlapped' = overlapped \cup ({n} \cap BeingRegistered)
    BY <1>6 DEF LinkPerson
  <2>2. /\ users'[n].name = users[n].name /\ users'[n].personId = p
        /\ \A q \in Phones \ {n} : users'[q] = users[q]
    BY <1>0, <2>1 DEF User
  <2>3. p # "null"
    BY AccountsAssumption
  <2>4. \A q \in Registrations : reg[q].pc \in Saving /\ reg[q].phone = n => n \in overlapped'
    BY <2>1 DEF BeingRegistered
  <2>5. \A q \in Registrations : /\ reg[q].pc \in Saving /\ reg[q].phone \notin overlapped'
                                 => reg[q].phone \in Phones \ {n} /\ reg[q].phone \notin overlapped
    BY <1>0, <2>1, <2>4 DEF RegistrationKnown
  <2>6. ProfileInv'
    BY <2>1, <2>2, <2>5 DEF ProfileInv
  <2>7. QED
    BY <2>2, <2>3, <2>6 DEF ProfileKept
<1>7. CASE Restart
  <2>1. UNCHANGED <<users, overlapped>>
    BY <1>7 DEF Restart
  <2>2. \A q \in Registrations :
            reg'[q] = IF reg[q].pc \in Saving THEN [reg[q] EXCEPT !.pc = "failed"] ELSE reg[q]
    BY <1>7 DEF Restart
  <2>3. \A q \in Registrations : [reg[q] EXCEPT !.pc = "failed"].pc = "failed"
    BY <1>0 DEF Registration
  <2>4. \A q \in Registrations : reg'[q].pc \notin Saving
    BY <2>2, <2>3 DEF Saving
  <2>5. QED
    BY <2>1, <2>4 DEF ProfileInv, ProfileKept
<1>8. QED
  BY <1>1, <1>2, <1>3, <1>4, <1>5, <1>6, <1>7, VerificationSteps
     DEF NoAccountTouched, AccountAnswered

(* An account keeps its name and stays linked to a person, whatever number *)
(* of registrations and approvals there is, unless two of them met on it.  *)
THEOREM ProfilesAreKept == AccountsSpec => ProfileKeptUnlessOverlapped
<1>1. OtpInv /\ AccountInv /\ ProfileInv /\ [AccountsNext]_accountsVars
         => ProfileInv' /\ [ProfileKept]_accountsVars
  <2>1. ProfileInv /\ UNCHANGED accountsVars => ProfileInv'
    BY DEF accountsVars, accounts, ProfileInv
  <2>2. QED
    BY <2>1, ProfilePreserved
<1>2. QED
  BY <1>1, AccountInitially, AccountInvariant, PTL
     DEF AccountsSpec, ProfileKeptUnlessOverlapped, ProfileKept
=============================================================================
