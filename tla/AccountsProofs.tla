--------------------------- MODULE AccountsProofs ---------------------------
(***************************************************************************)
(* Proofs about module Accounts, for any number of requests, users and     *)
(* passwords.                                                              *)
(***************************************************************************)
EXTENDS Accounts, SequenceTheorems, TLAPS

(* A token was made for somebody with the password of the account; the one *)
(* Hive has for a user, and the one the game has, were made for this user. *)
MadeRight ==
    /\ \A t \in Tokens : issued[t].password = passwords[issued[t].id]
    /\ \A i \in Ids : hiveTokens[i] # NoToken => issued[hiveTokens[i]].id = i
    /\ \A i \in Ids : gameTokens[i] # NoToken => issued[gameTokens[i]].id = i

(* What a request that has come this far has established. *)
CallOK(k) ==
    /\ k.at \in {"emailExists", "insertAccount", "verify", "registHive"}
          \/ k.result = "created" => k.password \in Passwords
    /\ k.at = "registHive" => k.password = passwords[k.id]
    /\ k.at \in {"checkHive", "registGame", "checkMemory"} => k.token \in Tokens
    /\ k.at = "registGame" => issued[k.token].id = k.id
    /\ k.result # "none" => k.at = "done"

(* The inductive invariant. *)
AccountsInv ==
    /\ TypeOK
    /\ MadeRight
    /\ \A c \in Calls : CallOK(calls[c])
    /\ OneCreator
    /\ TokenMeansData
    /\ LoginHasData

(* What has to hold of the result of a request, and of a request that      *)
(* leaves the login, for the data of its user.                             *)
ResultOK(k, f) ==
    k.result = "login" \/ (~f /\ k.result = "LoginFailInsertDB") => rows[k.id] > 0

LeaveOK(old, new, f) ==
    ~f /\ old.at \in InLogin => rows[old.id] > 0 \/ (new.at \in InLogin /\ new.id = old.id)
-----------------------------------------------------------------------------
(* It holds at the start. *)
LEMMA InitInv == Init => AccountsInv
<1> SUFFICES ASSUME Init PROVE AccountsInv
  OBVIOUS
<1>1. NewCall \in CallType
  <2>1. (CHOOSE i \in Ids : TRUE) \in Ids
    BY AccountsAssumption
  <2> QED BY <2>1 DEF NewCall, CallType, NoToken
<1>2. Tokens = {}
  BY DEF Init, Tokens
<1>3. TypeOK
  <2>1. calls \in [Calls -> CallType]
    BY <1>1 DEF Init
  <2>2. issued \in Seq([id : Ids, password : Passwords])
    BY DEF Init
  <2>3. rows \in [Ids -> 0 .. 1]
    BY DEF Init
  <2> QED BY <2>1, <2>2, <2>3 DEF Init, TypeOK
<1>4. \A c \in Calls : calls[c].at = "new" /\ calls[c].result = "none"
  BY DEF Init, NewCall
<1>5. MadeRight
  BY <1>2 DEF Init, MadeRight
<1>6. \A c \in Calls : CallOK(calls[c])
  BY <1>4 DEF CallOK
<1>7. OneCreator /\ TokenMeansData /\ LoginHasData
  BY <1>4 DEF Init, OneCreator, TokenMeansData, LoginHasData
<1> QED
  BY <1>3, <1>5, <1>6, <1>7 DEF AccountsInv

(* A request that goes on, and changes nothing but itself, preserves the   *)
(* invariant.                                                              *)
LEMMA CallMoves ==
    ASSUME AccountsInv, NEW c \in Calls, NEW k \in CallType, CallOK(k),
           calls' = [calls EXCEPT ![c] = k], UNCHANGED <<stores, issued>>,
           failed' \in BOOLEAN, failed => failed',
           k.result # "created", ResultOK(k, failed'), LeaveOK(calls[c], k, failed')
    PROVE  AccountsInv'
<1>1. /\ passwords' = passwords /\ hiveTokens' = hiveTokens /\ gameTokens' = gameTokens
      /\ rows' = rows /\ issued' = issued
  BY DEF stores
<1>2. calls \in [Calls -> CallType] /\ calls'[c] = k
      /\ \A d \in Calls : d # c => calls'[d] = calls[d]
  BY DEF AccountsInv, TypeOK
<1>3. TypeOK'
  BY <1>1, <1>2 DEF AccountsInv, TypeOK, Tokens
<1>4. MadeRight'
  BY <1>1 DEF AccountsInv, MadeRight, Tokens
<1>5. \A d \in Calls : CallOK(calls[d])'
  BY <1>1, <1>2 DEF AccountsInv, CallOK, Tokens
<1>6. OneCreator'
  BY <1>1, <1>2 DEF AccountsInv, OneCreator
<1>7. TokenMeansData'
  BY <1>1, <1>2 DEF AccountsInv, TokenMeansData, LeaveOK
<1>8. LoginHasData'
  BY <1>1, <1>2 DEF AccountsInv, LoginHasData, ResultOK
<1> QED BY <1>3, <1>4, <1>5, <1>6, <1>7, <1>8 DEF AccountsInv

(* Going to the next step, or returning, puts a request of the right type  *)
(* in the place of the old one.                                            *)
LEMMA GotoIs ==
    ASSUME AccountsInv, NEW c \in Calls, NEW at, Goto(c, at)
    PROVE  calls' = [calls EXCEPT ![c] = [calls[c] EXCEPT !.at = at]]
BY DEF AccountsInv, TypeOK, Goto

LEMMA ReturnIs ==
    ASSUME AccountsInv, NEW c \in Calls, NEW result, Return(c, result)
    PROVE  calls' = [calls EXCEPT ![c] =
                       [calls[c] EXCEPT !.at = "done", !.result = result]]
BY DEF AccountsInv, TypeOK, Return

(* What is known of a request. *)
LEMMA CallFacts ==
    ASSUME AccountsInv, NEW c \in Calls
    PROVE  calls[c] \in CallType /\ CallOK(calls[c]) /\ calls[c].id \in Ids
BY DEF AccountsInv, TypeOK, CallType

(* The steps in which a request only moves on itself.                      *)
LEMMA RequestInv ==
    ASSUME AccountsInv, NEW c \in Calls, NEW id \in Ids, Arrives(c, id)
    PROVE  AccountsInv'
<1>1. NewCall \in CallType
  <2>1. (CHOOSE i \in Ids : TRUE) \in Ids
    BY AccountsAssumption
  <2> QED BY <2>1 DEF NewCall, CallType, NoToken
<1>2. ASSUME NEW at \in {"emailExists", "verify", "checkHive", "checkMemory"},
             NEW p \in Passwords \cup {NoPassword}, NEW t \in Nat, Request(c, at, id, p, t),
             at \in {"emailExists", "verify"} => p \in Passwords,
             at \in {"checkHive", "checkMemory"} => t \in Tokens
      PROVE  AccountsInv'
  <2> DEFINE k == [NewCall EXCEPT !.at = at, !.id = id, !.password = p, !.token = t]
  <2>1. k \in CallType
    BY <1>1, <1>2 DEF CallType
  <2>2. /\ k.at = at /\ k.id = id /\ k.password = p /\ k.token = t /\ k.result = "none"
    BY <1>1 DEF CallType, NewCall
  <2>3. /\ calls[c].at = "new" /\ calls' = [calls EXCEPT ![c] = k]
        /\ UNCHANGED <<stores, past>>
    BY <1>2 DEF Request
  <2> HIDE DEF k
  <2>4. CallOK(k)
    BY <1>2, <2>2 DEF CallOK
  <2>5. ResultOK(k, failed') /\ LeaveOK(calls[c], k, failed') /\ k.result # "created"
    BY <2>2, <2>3 DEF ResultOK, LeaveOK, InLogin
  <2>6. failed' \in BOOLEAN /\ (failed => failed') /\ issued' = issued
    BY <2>3 DEF AccountsInv, TypeOK, past
  <2> QED BY <2>1, <2>3, <2>4, <2>5, <2>6, CallMoves
<1>3. ASSUME NEW p \in Passwords, NEW at \in {"emailExists", "verify"},
             Request(c, at, id, p, NoToken)
      PROVE  AccountsInv'
  BY <1>2, <1>3 DEF NoToken
<1>4. ASSUME NEW t \in Tokens, NEW at \in {"checkHive", "checkMemory"},
             Request(c, at, id, NoPassword, t)
      PROVE  AccountsInv'
  <2>1. t \in Nat
    BY DEF AccountsInv, TypeOK, Tokens
  <2> QED BY <1>2, <1>4, <2>1
<1> QED BY <1>3, <1>4 DEF Arrives

(* A request that goes to its next step. *)
LEMMA GotoInv ==
    ASSUME AccountsInv, NEW c \in Calls,
           NEW at \in {"insertAccount", "registHive", "registGame", "idExists", "insertData",
                       "remove"},
           Goto(c, at), UNCHANGED <<stores, past>>,
           CallOK([calls[c] EXCEPT !.at = at]),
           calls[c].result = "none",
           calls[c].at \in InLogin => at \in InLogin
    PROVE  AccountsInv'
<1> DEFINE k == [calls[c] EXCEPT !.at = at]
<1>1. calls[c] \in CallType /\ calls' = [calls EXCEPT ![c] = k]
  BY CallFacts, GotoIs
<1>2. k \in CallType /\ k.at = at /\ k.id = calls[c].id /\ k.result = "none"
  BY <1>1 DEF CallType, InLogin
<1> HIDE DEF k
<1>3. CallOK(k)
  BY DEF k
<1>4. ResultOK(k, failed') /\ LeaveOK(calls[c], k, failed') /\ k.result # "created"
  BY <1>2 DEF ResultOK, LeaveOK
<1>5. failed' \in BOOLEAN /\ (failed => failed') /\ issued' = issued
  BY DEF AccountsInv, TypeOK, past
<1> QED BY <1>1, <1>2, <1>3, <1>4, <1>5, CallMoves

(* A request that is answered with anything but "created". *)
Results == {"CreateAccountFailAlreadyExist", "CreateAccountFailException",
            "LoginFailWrongPassword", "token", "LoginFailOnHive", "login",
            "LoginFailInsertDB", "logout", "refused", "error"}

LEMMA ReturnInv ==
    ASSUME AccountsInv, NEW c \in Calls, NEW result \in Results,
           Return(c, result), UNCHANGED <<stores, issued>>,
           failed' \in BOOLEAN, failed => failed',
           result = "login" \/ (~failed' /\ result = "LoginFailInsertDB")
              => rows[calls[c].id] > 0,
           ~failed' /\ calls[c].at \in InLogin => rows[calls[c].id] > 0
    PROVE  AccountsInv'
<1> DEFINE k == [calls[c] EXCEPT !.at = "done", !.result = result]
<1>1. calls[c] \in CallType /\ calls' = [calls EXCEPT ![c] = k]
  BY CallFacts, ReturnIs
<1>2. k \in CallType /\ k.at = "done" /\ k.id = calls[c].id /\ k.result = result
  BY <1>1 DEF CallType, Results
<1>3. result # "created"
  BY DEF Results
<1> HIDE DEF k
<1>4. CallOK(k)
  BY <1>2, <1>3 DEF CallOK
<1>5. ResultOK(k, failed') /\ LeaveOK(calls[c], k, failed')
  BY <1>2 DEF ResultOK, LeaveOK
<1> QED BY <1>1, <1>2, <1>3, <1>4, <1>5, CallMoves

(* The handlers' steps that only look. *)
LEMMA LookInv ==
    ASSUME AccountsInv, NEW c \in Calls,
           \/ IsUserEmailExist(c) \/ VerifyPassword(c) \/ CheckUserAuthToHive(c)
           \/ IsNewUser(c) \/ IsUserIdExist(c) \/ CheckUserAuthToMemoryDb(c)
    PROVE  AccountsInv'
<1>1. /\ calls[c] \in CallType /\ CallOK(calls[c]) /\ calls[c].id \in Ids
      /\ rows[calls[c].id] \in 0 .. 1 /\ failed \in BOOLEAN
  BY CallFacts DEF AccountsInv, TypeOK
<1>2. UNCHANGED <<stores, past>> /\ issued' = issued /\ failed' = failed
  BY DEF IsUserEmailExist, VerifyPassword, CheckUserAuthToHive, IsNewUser, IsUserIdExist,
     CheckUserAuthToMemoryDb, past
<1>3. calls[c].at # "done" => calls[c].result = "none"
  BY <1>1 DEF CallOK
<1>4. CASE IsUserEmailExist(c)
  <2>1. CASE Goto(c, "insertAccount")
    <3>1. CallOK([calls[c] EXCEPT !.at = "insertAccount"])
      BY <1>1, <1>4 DEF CallOK, CallType, IsUserEmailExist
    <3> QED BY <1>2, <1>3, <1>4, <2>1, <3>1, GotoInv DEF IsUserEmailExist, InLogin
  <2>2. CASE Return(c, "CreateAccountFailAlreadyExist")
    BY <1>1, <1>2, <1>4, <2>2, ReturnInv DEF IsUserEmailExist, InLogin, Results
  <2> QED BY <1>4, <2>1, <2>2 DEF IsUserEmailExist
<1>5. CASE VerifyPassword(c)
  <2>1. CASE passwords[calls[c].id] = calls[c].password /\ Goto(c, "registHive")
    <3>1. CallOK([calls[c] EXCEPT !.at = "registHive"])
      BY <1>1, <1>5, <2>1 DEF CallOK, CallType, VerifyPassword
    <3> QED BY <1>2, <1>3, <1>5, <2>1, <3>1, GotoInv DEF VerifyPassword, InLogin
  <2>2. CASE Return(c, "LoginFailWrongPassword")
    BY <1>1, <1>2, <1>5, <2>2, ReturnInv DEF VerifyPassword, InLogin, Results
  <2> QED BY <1>5, <2>1, <2>2 DEF VerifyPassword
<1>6. CASE CheckUserAuthToHive(c)
  <2>1. CASE hiveTokens[calls[c].id] = calls[c].token /\ Goto(c, "registGame")
    <3>1. calls[c].token \in Tokens
      BY <1>1, <1>6 DEF CallOK, CheckUserAuthToHive
    <3>2. issued[calls[c].token].id = calls[c].id
      BY <1>1, <2>1, <3>1 DEF AccountsInv, MadeRight, Tokens, NoToken
    <3>3. CallOK([calls[c] EXCEPT !.at = "registGame"])
      BY <1>1, <1>3, <1>6, <3>1, <3>2 DEF CallOK, CallType, CheckUserAuthToHive
    <3> QED BY <1>2, <1>3, <1>6, <2>1, <3>3, GotoInv DEF CheckUserAuthToHive, InLogin
  <2>2. CASE Return(c, "LoginFailOnHive")
    BY <1>1, <1>2, <1>6, <2>2, ReturnInv DEF CheckUserAuthToHive, InLogin, Results
  <2> QED BY <1>6, <2>1, <2>2 DEF CheckUserAuthToHive
<1>7. CASE IsNewUser(c)
  <2>1. CASE Goto(c, "idExists")
    <3>1. CallOK([calls[c] EXCEPT !.at = "idExists"])
      BY <1>1, <1>3, <1>7 DEF CallOK, CallType, IsNewUser
    <3> QED BY <1>2, <1>3, <1>7, <2>1, <3>1, GotoInv DEF IsNewUser, InLogin
  <2>2. CASE rows[calls[c].id] > 0 /\ Return(c, "login")
    BY <1>1, <1>2, <1>7, <2>2, ReturnInv DEF IsNewUser, Results
  <2> QED BY <1>7, <2>1, <2>2 DEF IsNewUser
<1>8. CASE IsUserIdExist(c)
  <2>1. CASE Goto(c, "insertData")
    <3>1. CallOK([calls[c] EXCEPT !.at = "insertData"])
      BY <1>1, <1>3, <1>8 DEF CallOK, CallType, IsUserIdExist
    <3> QED BY <1>2, <1>3, <1>8, <2>1, <3>1, GotoInv DEF IsUserIdExist, InLogin
  <2>2. CASE rows[calls[c].id] > 0 /\ Return(c, "LoginFailInsertDB")
    BY <1>1, <1>2, <1>8, <2>2, ReturnInv DEF IsUserIdExist, Results
  <2> QED BY <1>8, <2>1, <2>2 DEF IsUserIdExist
<1>9. CASE CheckUserAuthToMemoryDb(c)
  <2>1. CASE Goto(c, "remove")
    <3>1. CallOK([calls[c] EXCEPT !.at = "remove"])
      BY <1>1, <1>3, <1>9 DEF CallOK, CallType, CheckUserAuthToMemoryDb
    <3> QED BY <1>2, <1>3, <1>9, <2>1, <3>1, GotoInv DEF CheckUserAuthToMemoryDb, InLogin
  <2>2. CASE Return(c, "refused")
    BY <1>1, <1>2, <1>9, <2>2, ReturnInv DEF CheckUserAuthToMemoryDb, InLogin, Results
  <2> QED BY <1>9, <2>1, <2>2 DEF CheckUserAuthToMemoryDb
<1> QED BY <1>4, <1>5, <1>6, <1>7, <1>8, <1>9

(* A database or a Redis fails. *)
LEMMA FailInv ==
    ASSUME AccountsInv, NEW c \in Calls, GameDbFails(c) \/ RedisFails(c)
    PROVE  AccountsInv'
<1>1. CASE GameDbFails(c)
  BY <1>1, ReturnInv DEF GameDbFails, Results, AccountsInv, TypeOK
<1>2. CASE RedisFails(c)
  <2>1. calls[c].at \notin InLogin /\ Return(c, "error") /\ UNCHANGED <<stores, past>>
    BY <1>2 DEF RedisFails, InLogin
  <2>2. issued' = issued /\ failed' = failed /\ failed \in BOOLEAN
    BY <2>1 DEF past, AccountsInv, TypeOK
  <2> QED BY <2>1, <2>2, ReturnInv DEF Results
<1> QED BY <1>1, <1>2

(* Making an account preserves the invariant: nobody has a token, or is    *)
(* past the password check, for an ID without an account.                  *)
LEMMA InsertAccountInv ==
    ASSUME AccountsInv, NEW c \in Calls, InsertAccount(c)
    PROVE  AccountsInv'
<1> DEFINE id == calls[c].id
           p  == calls[c].password
           k  == [calls[c] EXCEPT !.at = "done", !.result = "created"]
<1>1. calls[c] \in CallType /\ CallOK(calls[c]) /\ id \in Ids /\ p \in Passwords
  BY CallFacts DEF InsertAccount, CallOK
<1>2. CASE passwords[id] # NoPassword
  <2>1. /\ Return(c, "CreateAccountFailException") /\ UNCHANGED <<stores, past>>
        /\ calls[c].at = "insertAccount"
    BY <1>2 DEF InsertAccount, stores
  <2>2. issued' = issued /\ failed' = failed /\ failed \in BOOLEAN
    BY <2>1 DEF past, AccountsInv, TypeOK
  <2> QED BY <2>1, <2>2, ReturnInv DEF Results, InLogin
<1>3. CASE passwords[id] = NoPassword
  <2>1. /\ passwords' = [passwords EXCEPT ![id] = p]
        /\ hiveTokens' = hiveTokens /\ gameTokens' = gameTokens /\ rows' = rows
        /\ issued' = issued /\ failed' = failed /\ calls[c].at = "insertAccount"
        /\ Return(c, "created")
    BY <1>3 DEF InsertAccount, past
  <2>2. calls' = [calls EXCEPT ![c] = k]
    BY <2>1, ReturnIs
  <2>3. /\ k \in CallType /\ k.at = "done" /\ k.id = id /\ k.password = p
        /\ k.result = "created"
    BY <1>1 DEF CallType
  <2> HIDE DEF k
  <2>4. /\ calls \in [Calls -> CallType] /\ calls'[c] = k
        /\ \A d \in Calls : d # c => calls'[d] = calls[d]
    BY <2>2 DEF AccountsInv, TypeOK
  <2>5. /\ passwords \in [Ids -> Passwords \cup {NoPassword}]
        /\ issued \in Seq([id : Ids, password : Passwords])
        /\ \A t \in Tokens : issued[t] \in [id : Ids, password : Passwords]
    <3>1. issued \in Seq([id : Ids, password : Passwords])
      BY DEF AccountsInv, TypeOK
    <3>2. \A t \in Tokens : issued[t] \in [id : Ids, password : Passwords]
      BY <3>1, ElementOfSeq DEF Tokens
    <3> QED BY <3>1, <3>2 DEF AccountsInv, TypeOK
  <2>6. /\ passwords'[id] = p
        /\ \A i \in Ids : passwords[i] \in Passwords => passwords'[i] = passwords[i]
    BY <1>1, <1>3, <2>1, <2>5, AccountsAssumption
  <2>7. TypeOK'
    BY <1>1, <2>1, <2>2, <2>3 DEF AccountsInv, TypeOK, Tokens
  <2>8. MadeRight'
    <3>1. \A t \in Tokens : passwords[issued[t].id] \in Passwords
      BY <2>5 DEF AccountsInv, MadeRight
    <3> QED BY <2>1, <2>5, <2>6, <3>1 DEF AccountsInv, MadeRight, Tokens
  <2>9. ASSUME NEW d \in Calls PROVE CallOK(calls[d])'
    <3>1. calls[d] \in CallType /\ CallOK(calls[d]) /\ calls[d].id \in Ids
      BY CallFacts
    <3>2. CASE d = c
      BY <1>1, <2>3, <2>4, <3>2 DEF CallOK
    <3>3. CASE d # c
      BY <2>1, <2>4, <2>6, <3>1, <3>3 DEF CallOK, Tokens
    <3> QED BY <3>2, <3>3
  <2>10. OneCreator'
    <3>1. \A d \in Calls : calls[d].result = "created" =>
             /\ passwords[calls[d].id] = calls[d].password
             /\ calls[d].password \in Passwords /\ calls[d].id \in Ids /\ calls[d].id # id
      BY <1>3, CallFacts, AccountsAssumption DEF AccountsInv, OneCreator, CallOK
    <3> QED BY <2>3, <2>4, <2>6, <3>1 DEF AccountsInv, OneCreator
  <2>11. TokenMeansData' /\ LoginHasData'
    BY <2>1, <2>3, <2>4 DEF AccountsInv, TokenMeansData, LoginHasData, InLogin
  <2> QED BY <2>7, <2>8, <2>9, <2>10, <2>11 DEF AccountsInv
<1> QED BY <1>2, <1>3

(* A new token preserves the invariant: its owner gave the password.       *)
LEMMA RegistUserInv ==
    ASSUME AccountsInv, NEW c \in Calls, RegistUser(c)
    PROVE  AccountsInv'
<1> DEFINE id == calls[c].id
           n  == Len(issued) + 1
           e  == [id |-> id, password |-> calls[c].password]
           k  == [calls[c] EXCEPT !.at = "done", !.result = "token"]
<1>1. /\ calls[c] \in CallType /\ CallOK(calls[c]) /\ id \in Ids
      /\ e \in [id : Ids, password : Passwords] /\ passwords[id] = e.password
      /\ calls[c].at = "registHive"
  BY CallFacts DEF RegistUser, CallOK
<1>2. /\ issued \in Seq([id : Ids, password : Passwords]) /\ issued' = Append(issued, e)
      /\ hiveTokens \in [Ids -> Tokens \cup {NoToken}]
      /\ gameTokens \in [Ids -> Tokens \cup {NoToken}]
  BY DEF RegistUser, AccountsInv, TypeOK
<1> HIDE DEF e
<1>3. /\ issued' \in Seq([id : Ids, password : Passwords]) /\ Len(issued') = n
      /\ issued'[n] = e /\ \A t \in Tokens : issued'[t] = issued[t]
      /\ Tokens' = Tokens \cup {n} /\ n \notin Tokens /\ Tokens \subseteq Nat
  BY <1>1, <1>2, AppendProperties DEF Tokens
<1>4. /\ hiveTokens' = [hiveTokens EXCEPT ![id] = n] /\ Return(c, "token")
      /\ passwords' = passwords /\ gameTokens' = gameTokens /\ rows' = rows
      /\ failed' = failed
  BY <1>3 DEF RegistUser
<1>5. calls' = [calls EXCEPT ![c] = k]
  BY <1>4, ReturnIs
<1>6. k \in CallType /\ k.at = "done" /\ k.id = id /\ k.result = "token"
  BY <1>1 DEF CallType
<1> HIDE DEF k, n
<1>7. /\ calls \in [Calls -> CallType] /\ calls'[c] = k
      /\ \A d \in Calls : d # c => calls'[d] = calls[d]
  BY <1>5 DEF AccountsInv, TypeOK
<1>8. TypeOK'
  <2>1. hiveTokens' \in [Ids -> Tokens' \cup {NoToken}]
    BY <1>1, <1>2, <1>3, <1>4
  <2>2. gameTokens' \in [Ids -> Tokens' \cup {NoToken}]
    BY <1>2, <1>3, <1>4
  <2>3. calls' \in [Calls -> CallType]
    BY <1>5, <1>6, <1>7
  <2> QED BY <1>3, <1>4, <2>1, <2>2, <2>3 DEF AccountsInv, TypeOK
<1>9. MadeRight'
  <2>1. e.id = id
    BY DEF e
  <2>2. \A i \in Ids : hiveTokens'[i] # NoToken => issued'[hiveTokens'[i]].id = i
    BY <1>1, <1>2, <1>3, <1>4, <2>1 DEF AccountsInv, MadeRight
  <2>3. \A i \in Ids : gameTokens'[i] # NoToken => issued'[gameTokens'[i]].id = i
    BY <1>2, <1>3, <1>4 DEF AccountsInv, MadeRight
  <2>4. \A t \in Tokens' : issued'[t].password = passwords'[issued'[t].id]
    BY <1>1, <1>3, <1>4, <2>1 DEF AccountsInv, MadeRight
  <2> QED BY <2>2, <2>3, <2>4 DEF MadeRight
<1>10. ASSUME NEW d \in Calls PROVE CallOK(calls[d])'
  <2>1. CallOK(calls[d])
    BY CallFacts
  <2>2. CASE d = c
    BY <1>6, <1>7, <2>2 DEF CallOK
  <2>3. CASE d # c
    BY <1>3, <1>4, <1>7, <2>1, <2>3 DEF CallOK
  <2> QED BY <2>2, <2>3
<1>11. OneCreator' /\ LoginHasData'
  BY <1>4, <1>6, <1>7 DEF AccountsInv, OneCreator, LoginHasData
<1>12. TokenMeansData'
  BY <1>1, <1>4, <1>6, <1>7 DEF AccountsInv, TokenMeansData, InLogin
<1> QED BY <1>8, <1>9, <1>10, <1>11, <1>12 DEF AccountsInv

(* Storing the token in the game's Redis preserves the invariant. *)
LEMMA RegistUserAuthInv ==
    ASSUME AccountsInv, NEW c \in Calls, RegistUserAuth(c)
    PROVE  AccountsInv'
<1> DEFINE id == calls[c].id
           t  == calls[c].token
           k  == [calls[c] EXCEPT !.at = "isNew"]
<1>1. /\ calls[c] \in CallType /\ CallOK(calls[c]) /\ id \in Ids
      /\ calls[c].at = "registGame" /\ t \in Tokens /\ issued[t].id = id
      /\ calls[c].result = "none"
  BY CallFacts DEF RegistUserAuth, CallOK
<1>2. /\ gameTokens' = [gameTokens EXCEPT ![id] = t] /\ Goto(c, "isNew")
      /\ passwords' = passwords /\ hiveTokens' = hiveTokens /\ rows' = rows
      /\ issued' = issued /\ failed' = failed
  BY DEF RegistUserAuth, past
<1>3. calls' = [calls EXCEPT ![c] = k]
  BY <1>2, GotoIs
<1>4. k \in CallType /\ k.at = "isNew" /\ k.id = id /\ k.result = "none"
  BY <1>1 DEF CallType, InLogin
<1> HIDE DEF k
<1>5. /\ calls \in [Calls -> CallType] /\ calls'[c] = k
      /\ \A d \in Calls : d # c => calls'[d] = calls[d]
  BY <1>3 DEF AccountsInv, TypeOK
<1>6. TypeOK'
  BY <1>1, <1>2, <1>3, <1>4 DEF AccountsInv, TypeOK, Tokens
<1>7. MadeRight'
  BY <1>1, <1>2 DEF AccountsInv, MadeRight, Tokens, TypeOK
<1>8. ASSUME NEW d \in Calls PROVE CallOK(calls[d])'
  <2>1. CallOK(calls[d])
    BY CallFacts
  <2>2. CASE d = c
    BY <1>4, <1>5, <2>2 DEF CallOK
  <2>3. CASE d # c
    BY <1>2, <1>5, <2>1, <2>3 DEF CallOK, Tokens
  <2> QED BY <2>2, <2>3
<1>9. OneCreator' /\ LoginHasData'
  BY <1>2, <1>4, <1>5 DEF AccountsInv, OneCreator, LoginHasData
<1>10. TokenMeansData'
  <2>1. calls[c].at \notin InLogin /\ k.at \in InLogin
    BY <1>1, <1>4 DEF InLogin
  <2> QED BY <1>1, <1>2, <1>4, <1>5, <2>1 DEF AccountsInv, TokenMeansData, TypeOK
<1> QED BY <1>6, <1>7, <1>8, <1>9, <1>10 DEF AccountsInv

(* The row of a new user preserves the invariant. *)
LEMMA InsertGameDataInv ==
    ASSUME AccountsInv, NEW c \in Calls, InsertGameData(c)
    PROVE  AccountsInv'
<1> DEFINE id == calls[c].id
           k  == [calls[c] EXCEPT !.at = "done", !.result = "login"]
<1>1. /\ calls[c] \in CallType /\ CallOK(calls[c]) /\ id \in Ids
      /\ calls[c].at = "insertData" /\ rows[id] \in 0 .. 1
  BY CallFacts DEF InsertGameData, AccountsInv, TypeOK
<1>2. CASE rows[id] # 0
  <2>1. /\ Return(c, "LoginFailInsertDB") /\ UNCHANGED <<stores, past>> /\ rows[id] > 0
    BY <1>1, <1>2 DEF InsertGameData, stores
  <2>2. issued' = issued /\ failed' = failed /\ failed \in BOOLEAN
    BY <2>1 DEF past, AccountsInv, TypeOK
  <2> QED BY <2>1, <2>2, ReturnInv DEF Results
<1>3. CASE rows[id] = 0
  <2>1. /\ rows' = [rows EXCEPT ![id] = 1] /\ Return(c, "login")
        /\ passwords' = passwords /\ hiveTokens' = hiveTokens /\ gameTokens' = gameTokens
        /\ issued' = issued /\ failed' = failed
    BY <1>3 DEF InsertGameData, past
  <2>2. calls' = [calls EXCEPT ![c] = k]
    BY <2>1, ReturnIs
  <2>3. k \in CallType /\ k.at = "done" /\ k.id = id /\ k.result = "login"
    BY <1>1 DEF CallType
  <2> HIDE DEF k
  <2>4. /\ calls \in [Calls -> CallType] /\ calls'[c] = k
        /\ \A d \in Calls : d # c => calls'[d] = calls[d]
    BY <2>2 DEF AccountsInv, TypeOK
  <2>5. /\ rows \in [Ids -> 0 .. 1] /\ rows'[id] = 1
        /\ \A i \in Ids : i # id => rows'[i] = rows[i]
    BY <1>1, <2>1 DEF AccountsInv, TypeOK
  <2>6. TypeOK'
    BY <1>1, <2>1, <2>2, <2>3 DEF AccountsInv, TypeOK, Tokens
  <2>7. MadeRight'
    BY <2>1 DEF AccountsInv, MadeRight, Tokens
  <2>8. ASSUME NEW d \in Calls PROVE CallOK(calls[d])'
    <3>1. CallOK(calls[d])
      BY CallFacts
    <3>2. CASE d = c
      BY <2>3, <2>4, <3>2 DEF CallOK
    <3>3. CASE d # c
      BY <2>1, <2>4, <3>1, <3>3 DEF CallOK, Tokens
    <3> QED BY <3>2, <3>3
  <2>9. OneCreator'
    BY <2>1, <2>3, <2>4 DEF AccountsInv, OneCreator
  <2>10. TokenMeansData'
    <3>1. ASSUME NEW i \in Ids, i # id, NEW d \in Calls, calls[d].at \in InLogin,
                 calls[d].id = i
          PROVE  calls'[d].at \in InLogin /\ calls'[d].id = i
      BY <2>4, <3>1
    <3> QED BY <2>1, <2>5, <3>1 DEF AccountsInv, TokenMeansData
  <2>11. LoginHasData'
    <3>1. \A d \in Calls : calls[d].id \in Ids
      BY CallFacts
    <3> QED BY <2>1, <2>3, <2>4, <2>5, <3>1 DEF AccountsInv, LoginHasData
  <2> QED BY <2>6, <2>7, <2>8, <2>9, <2>10, <2>11 DEF AccountsInv
<1> QED BY <1>2, <1>3

(* A token that goes preserves the invariant. *)
LEMMA TokenGone ==
    ASSUME AccountsInv, NEW i \in Ids,
           \/ /\ hiveTokens' = [hiveTokens EXCEPT ![i] = NoToken]
              /\ gameTokens' = gameTokens
           \/ /\ gameTokens' = [gameTokens EXCEPT ![i] = NoToken]
              /\ hiveTokens' = hiveTokens,
           UNCHANGED <<passwords, rows, calls, past>>
    PROVE  AccountsInv'
<1>1. issued' = issued /\ failed' = failed
  BY DEF past
<1>2. TypeOK'
  BY <1>1 DEF AccountsInv, TypeOK, Tokens
<1>3. /\ \A j \in Ids : gameTokens'[j] \in {gameTokens[j], NoToken}
      /\ \A j \in Ids : hiveTokens'[j] \in {hiveTokens[j], NoToken}
  BY DEF AccountsInv, TypeOK
<1>4. MadeRight' /\ TokenMeansData'
  BY <1>1, <1>3 DEF AccountsInv, MadeRight, TokenMeansData, Tokens
<1>5. (\A c \in Calls : CallOK(calls[c]))' /\ OneCreator' /\ LoginHasData'
  BY <1>1 DEF AccountsInv, CallOK, OneCreator, LoginHasData, Tokens
<1> QED BY <1>2, <1>4, <1>5 DEF AccountsInv

(* So does a logout: its request is answered, then the token is gone.      *)
LEMMA RemoveUserAuthInv ==
    ASSUME AccountsInv, NEW c \in Calls, RemoveUserAuth(c)
    PROVE  AccountsInv'
<1>0. PICK id \in Ids : gameTokens' = [gameTokens EXCEPT ![id] = NoToken]
  BY DEF RemoveUserAuth
<1> DEFINE k == [calls[c] EXCEPT !.at = "done", !.result = "logout"]
<1>1. /\ calls[c] \in CallType /\ calls[c].at = "remove"
  BY CallFacts DEF RemoveUserAuth
<1>2. /\ gameTokens' = [gameTokens EXCEPT ![id] = NoToken] /\ Return(c, "logout")
      /\ passwords' = passwords /\ hiveTokens' = hiveTokens /\ rows' = rows
      /\ issued' = issued /\ failed' = failed
  BY <1>0 DEF RemoveUserAuth, past
<1>3. calls' = [calls EXCEPT ![c] = k]
  BY <1>2, ReturnIs
<1>4. k \in CallType /\ k.at = "done" /\ k.id = calls[c].id /\ k.result = "logout"
  BY <1>1 DEF CallType
<1> HIDE DEF k
<1>5. /\ calls \in [Calls -> CallType] /\ calls'[c] = k
      /\ \A d \in Calls : d # c => calls'[d] = calls[d]
  BY <1>3 DEF AccountsInv, TypeOK
<1>6. TypeOK'
  BY <1>1, <1>2, <1>3, <1>4 DEF AccountsInv, TypeOK, Tokens
<1>7. \A j \in Ids : gameTokens'[j] \in {gameTokens[j], NoToken}
  BY <1>2 DEF AccountsInv, TypeOK
<1>8. MadeRight'
  BY <1>2, <1>7 DEF AccountsInv, MadeRight, Tokens
<1>9. ASSUME NEW d \in Calls PROVE CallOK(calls[d])'
  <2>1. CallOK(calls[d])
    BY CallFacts
  <2>2. CASE d = c
    BY <1>4, <1>5, <2>2 DEF CallOK
  <2>3. CASE d # c
    BY <1>2, <1>5, <2>1, <2>3 DEF CallOK, Tokens
  <2> QED BY <2>2, <2>3
<1>10. OneCreator' /\ LoginHasData'
  BY <1>2, <1>4, <1>5 DEF AccountsInv, OneCreator, LoginHasData
<1>11. TokenMeansData'
  <2>1. calls[c].at \notin InLogin
    BY <1>1 DEF InLogin
  <2> QED BY <1>2, <1>5, <1>7, <2>1 DEF AccountsInv, TokenMeansData
<1> QED BY <1>6, <1>8, <1>9, <1>10, <1>11 DEF AccountsInv

(* Every step preserves the invariant. *)
LEMMA NextInv == AccountsInv /\ [Next]_vars => AccountsInv'
<1> SUFFICES ASSUME AccountsInv, [Next]_vars PROVE AccountsInv'
  OBVIOUS
<1>1. ASSUME NEW c \in Calls, Handler(c) PROVE AccountsInv'
  BY <1>1, LookInv, FailInv, InsertAccountInv, RegistUserInv, RegistUserAuthInv,
     InsertGameDataInv, RemoveUserAuthInv DEF Handler
<1>2. ASSUME NEW c \in Calls, NEW id \in Ids, Arrives(c, id) PROVE AccountsInv'
  BY <1>2, RequestInv
<1>3. ASSUME NEW id \in Ids, HiveTokenExpires(id) \/ GameTokenExpires(id) PROVE AccountsInv'
  BY <1>3, TokenGone DEF HiveTokenExpires, GameTokenExpires
<1>4. CASE UNCHANGED vars
  BY <1>4 DEF vars, stores, past, AccountsInv, TypeOK, MadeRight, CallOK, OneCreator,
     TokenMeansData, LoginHasData, Tokens
<1> QED BY <1>1, <1>2, <1>3, <1>4 DEF Next
-----------------------------------------------------------------------------
LEMMA Invariance == Spec => []AccountsInv
BY InitInv, NextInv, PTL DEF Spec

(* Type correctness; no ID ever has two rows. *)
THEOREM TypeCorrect == Spec => []TypeOK
<1>1. AccountsInv => TypeOK
  BY DEF AccountsInv
<1> QED BY <1>1, Invariance, PTL

(* One request makes the account, and its password is the account's. *)
THEOREM AccountsHaveOneCreator == Spec => []OneCreator
<1>1. AccountsInv => OneCreator
  BY DEF AccountsInv
<1> QED BY <1>1, Invariance, PTL

(* The token that lets a user play was made by Hive for this user and the  *)
(* account's password.                                                     *)
THEOREM TokensComeFromHive == Spec => []TokenFromHive
<1>1. AccountsInv => TokenFromHive
  BY DEF AccountsInv, MadeRight, TokenFromHive, TypeOK, Tokens, NoToken
<1> QED BY <1>1, Invariance, PTL

(* A token without game data means that a login is under way. *)
THEOREM TokensMeanData == Spec => []TokenMeansData
<1>1. AccountsInv => TokenMeansData
  BY DEF AccountsInv
<1> QED BY <1>1, Invariance, PTL

(* Whoever has logged in, or lost the race for the first login, has data.  *)
THEOREM LoginsHaveData == Spec => []LoginHasData
<1>1. AccountsInv => LoginHasData
  BY DEF AccountsInv
<1> QED BY <1>1, Invariance, PTL
=============================================================================
