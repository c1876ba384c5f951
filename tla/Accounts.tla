------------------------------ MODULE Accounts ------------------------------
(***************************************************************************)
(* Accounts, tokens and game data: the Hive auth server and the login and  *)
(* logout of the game API server.  A request is handled by a task of its   *)
(* own; it waits at every call of a database or of the other server, so a  *)
(* call is a step and anybody may come in between.                         *)
(*                                                                         *)
(* External: both Redis keep one token for a user and drop it some time;   *)
(* both tables have a unique key on the user ID, so that an insert of a    *)
(* second row throws.  A hashed password stands for the password, a token  *)
(* is new whenever one is made.  Clients send an ID, a password, a token   *)
(* somebody was given, whatever they belong to.                            *)
(***************************************************************************)
EXTENDS Integers, Sequences, FiniteSets

CONSTANTS Calls,       \* bound: the HTTP requests
          Ids,
          Passwords,
          NoPassword

ASSUME AccountsAssumption ==
    /\ IsFiniteSet(Calls)
    /\ NoPassword \notin Passwords
    /\ Ids # {}

NoToken == 0

VARIABLES
    passwords,   \* Hive DB, user_account_data; NoPassword for no row
    hiveTokens,  \* Hive Redis
    gameTokens,  \* game Redis
    rows,        \* game DB, user_game_data: how many rows each ID has
    calls,       \* the requests: where each is, what it was sent, the result
    issued,      \* history: ID and password for which each token was made
    failed       \* history: a call of the game DB failed

stores == <<passwords, hiveTokens, gameTokens, rows>>
past   == <<issued, failed>>
vars == <<stores, calls, past>>

Tokens == 1 .. Len(issued)

NewCall == [at |-> "new", id |-> CHOOSE i \in Ids : TRUE, password |-> NoPassword,
            token |-> NoToken, result |-> "none"]

(* Some of the users have an account already. *)
Init ==
    /\ passwords \in [Ids -> Passwords \cup {NoPassword}]
    /\ hiveTokens = [i \in Ids |-> NoToken] /\ gameTokens = [i \in Ids |-> NoToken]
    /\ rows = [i \in Ids |-> 0]
    /\ calls = [c \in Calls |-> NewCall]
    /\ issued = <<>> /\ failed = FALSE

Goto(c, at) == calls' = [calls EXCEPT ![c].at = at]
Return(c, result) == calls' = [calls EXCEPT ![c].at = "done", ![c].result = result]
-----------------------------------------------------------------------------
(* Requests arrive: POST /createaccount and /login of the Hive server,     *)
(* POST /login and /logout of the game API server.                         *)
Request(c, at, id, password, token) ==
    /\ calls[c].at = "new"
    /\ calls' = [calls EXCEPT ![c] = [NewCall EXCEPT !.at = at, !.id = id,
                                        !.password = password, !.token = token]]
    /\ UNCHANGED <<stores, past>>

Arrives(c, id) ==
    \/ \E p \in Passwords, at \in {"emailExists", "verify"} : Request(c, at, id, p, NoToken)
    \/ \E t \in Tokens, at \in {"checkHive", "checkMemory"} : Request(c, at, id, NoPassword, t)
-----------------------------------------------------------------------------
(* Hive: CreateAccount, which is InsertAccountAsync.                       *)
IsUserEmailExist(c) ==
    /\ calls[c].at = "emailExists"
    /\ IF passwords[calls[c].id] # NoPassword
       THEN Return(c, "CreateAccountFailAlreadyExist") ELSE Goto(c, "insertAccount")
    /\ UNCHANGED <<stores, past>>

(* Mutant: there is no unique key, a row of the same ID takes over. *)
InsertWithoutKey(c) ==
    /\ calls[c].at = "insertAccount"
    /\ passwords' = [passwords EXCEPT ![calls[c].id] = calls[c].password]
    /\ Return(c, "created")
    /\ UNCHANGED <<hiveTokens, gameTokens, rows, past>>

InsertAccount(c) ==
    /\ calls[c].at = "insertAccount"
    /\ IF passwords[calls[c].id] = NoPassword
       THEN /\ passwords' = [passwords EXCEPT ![calls[c].id] = calls[c].password]
            /\ Return(c, "created")
       ELSE Return(c, "CreateAccountFailException") /\ UNCHANGED passwords
    /\ UNCHANGED <<hiveTokens, gameTokens, rows, past>>

(* Hive: Login.  GetPasswordByIdAsync looks twice at a row that is never   *)
(* changed nor removed: one step.                                          *)
VerifyPassword(c) ==
    /\ calls[c].at = "verify"
    /\ IF passwords[calls[c].id] = calls[c].password
       THEN Goto(c, "registHive") ELSE Return(c, "LoginFailWrongPassword")
    /\ UNCHANGED <<stores, past>>

(* The token made before replaces the one the user had. *)
RegistUser(c) ==
    /\ calls[c].at = "registHive"
    /\ issued' = Append(issued, [id |-> calls[c].id, password |-> calls[c].password])
    /\ hiveTokens' = [hiveTokens EXCEPT ![calls[c].id] = Len(issued')]
    /\ Return(c, "token")
    /\ UNCHANGED <<passwords, gameTokens, rows, failed>>
-----------------------------------------------------------------------------
(* Game API: Login.                                                        *)
(* Mutant: the Hive server finds a token and does not compare it. *)
CheckAnyToken(c) ==
    /\ calls[c].at = "checkHive"
    /\ IF hiveTokens[calls[c].id] # NoToken
       THEN Goto(c, "registGame") ELSE Return(c, "LoginFailOnHive")
    /\ UNCHANGED <<stores, past>>

(* CheckUserAuthToHiveAsync, answered by CheckUserAuth of the Hive server. *)
CheckUserAuthToHive(c) ==
    /\ calls[c].at = "checkHive"
    /\ IF hiveTokens[calls[c].id] = calls[c].token
       THEN Goto(c, "registGame") ELSE Return(c, "LoginFailOnHive")
    /\ UNCHANGED <<stores, past>>

RegistUserAuth(c) ==
    /\ calls[c].at = "registGame"
    /\ gameTokens' = [gameTokens EXCEPT ![calls[c].id] = calls[c].token]
    /\ Goto(c, "isNew")
    /\ UNCHANGED <<passwords, hiveTokens, rows, past>>

(* Mutant: nobody is taken for a new user. *)
NewUserIsAnswered(c) ==
    /\ calls[c].at = "isNew"
    /\ Return(c, "login")
    /\ UNCHANGED <<stores, past>>

IsNewUser(c) ==
    /\ calls[c].at = "isNew"
    /\ IF rows[calls[c].id] > 0 THEN Return(c, "login") ELSE Goto(c, "idExists")
    /\ UNCHANGED <<stores, past>>

(* InsertAccountAsync asks once more. *)
IsUserIdExist(c) ==
    /\ calls[c].at = "idExists"
    /\ IF rows[calls[c].id] > 0 THEN Return(c, "LoginFailInsertDB") ELSE Goto(c, "insertData")
    /\ UNCHANGED <<stores, past>>

(* Mutant: there is no unique key. *)
InsertSecondRow(c) ==
    /\ calls[c].at = "insertData"
    /\ rows' = [rows EXCEPT ![calls[c].id] = @ + 1]
    /\ Return(c, "login")
    /\ UNCHANGED <<passwords, hiveTokens, gameTokens, past>>

InsertGameData(c) ==
    /\ calls[c].at = "insertData"
    /\ IF rows[calls[c].id] = 0
       THEN rows' = [rows EXCEPT ![calls[c].id] = 1] /\ Return(c, "login")
       ELSE Return(c, "LoginFailInsertDB") /\ UNCHANGED rows
    /\ UNCHANGED <<passwords, hiveTokens, gameTokens, past>>

(* A call of the game database throws: InsertAccountAsync catches it, the  *)
(* look before it does not.                                                *)
GameDbFails(c) ==
    /\ \/ calls[c].at = "isNew" /\ Return(c, "error")
       \/ calls[c].at \in {"idExists", "insertData"} /\ Return(c, "LoginFailInsertDB")
    /\ failed' = TRUE
    /\ UNCHANGED <<stores, issued>>

(* Game API: Logout, past CheckAuthMiddleware.                             *)
CheckUserAuthToMemoryDb(c) ==
    /\ calls[c].at = "checkMemory"
    /\ IF gameTokens[calls[c].id] = calls[c].token
       THEN Goto(c, "remove") ELSE Return(c, "refused")
    /\ UNCHANGED <<stores, past>>

(* The check was for the ID in the header, the logout is for the one in    *)
(* the body, which nobody compares with it.                                *)
RemoveUserAuth(c) ==
    /\ calls[c].at = "remove"
    /\ \E id \in Ids : gameTokens' = [gameTokens EXCEPT ![id] = NoToken]
    /\ Return(c, "logout")
    /\ UNCHANGED <<passwords, hiveTokens, rows, past>>

(* Either Redis fails: the request is answered with an error. *)
RedisFails(c) ==
    /\ calls[c].at \in {"registHive", "checkHive", "registGame", "checkMemory", "remove"}
    /\ Return(c, "error")
    /\ UNCHANGED <<stores, past>>

(* Tokens expire: ten minutes at Hive, six hours at the game. *)
HiveTokenExpires(id) ==
    /\ hiveTokens[id] # NoToken
    /\ hiveTokens' = [hiveTokens EXCEPT ![id] = NoToken]
    /\ UNCHANGED <<passwords, gameTokens, rows, calls, past>>

GameTokenExpires(id) ==
    /\ gameTokens[id] # NoToken
    /\ gameTokens' = [gameTokens EXCEPT ![id] = NoToken]
    /\ UNCHANGED <<passwords, hiveTokens, rows, calls, past>>
-----------------------------------------------------------------------------
Handler(c) ==
    \/ IsUserEmailExist(c) \/ InsertAccount(c)
    \/ VerifyPassword(c) \/ RegistUser(c)
    \/ CheckUserAuthToHive(c) \/ RegistUserAuth(c)
    \/ IsNewUser(c) \/ IsUserIdExist(c) \/ InsertGameData(c) \/ GameDbFails(c)
    \/ CheckUserAuthToMemoryDb(c) \/ RemoveUserAuth(c) \/ RedisFails(c)

Next ==
    \/ \E c \in Calls : Handler(c) \/ \E id \in Ids : Arrives(c, id)
    \/ \E id \in Ids : HiveTokenExpires(id) \/ GameTokenExpires(id)

Spec == Init /\ [][Next]_vars
-----------------------------------------------------------------------------
(* Type invariant. *)
InLogin == {"isNew", "idExists", "insertData"}

CallType ==
    [at : {"new", "done", "emailExists", "insertAccount", "verify", "registHive", "checkHive",
           "registGame", "checkMemory", "remove"} \cup InLogin,
     id : Ids, password : Passwords \cup {NoPassword}, token : Nat,
     result : {"none", "CreateAccountFailAlreadyExist", "CreateAccountFailException",
               "created", "LoginFailWrongPassword", "token", "LoginFailOnHive", "login",
               "LoginFailInsertDB", "logout", "refused", "error"}]

TypeOK ==
    /\ passwords \in [Ids -> Passwords \cup {NoPassword}]
    /\ hiveTokens \in [Ids -> Tokens \cup {NoToken}]
    /\ gameTokens \in [Ids -> Tokens \cup {NoToken}]
    /\ rows \in [Ids -> 0 .. 1]
    /\ calls \in [Calls -> CallType]
    /\ issued \in Seq([id : Ids, password : Passwords])
    /\ failed \in BOOLEAN

(* However requests for one ID overlap, at most one is told that it made   *)
(* the account, and the account has that request's password.               *)
OneCreator ==
    \A c \in Calls : calls[c].result = "created" =>
        /\ passwords[calls[c].id] = calls[c].password
        /\ \A d \in Calls : calls[d].result = "created" /\ calls[d].id = calls[c].id => d = c

(* Whatever expires, is replaced or overtakes between the check at Hive    *)
(* and the store in the game's Redis: the token that lets a user play was  *)
(* made by Hive for this ID, for somebody with the account's password.     *)
TokenFromHive ==
    \A i \in Ids : gameTokens[i] # NoToken =>
        /\ issued[gameTokens[i]].id = i
        /\ issued[gameTokens[i]].password = passwords[i]

(* The token is stored before the user has game data.  As long as the game *)
(* database does not fail, a token without data means that a login of the  *)
(* user is under way.                                                      *)
TokenMeansData ==
    ~failed => \A i \in Ids : gameTokens[i] # NoToken =>
        rows[i] > 0 \/ \E c \in Calls : calls[c].at \in InLogin /\ calls[c].id = i

(* A login that succeeded has game data, and unless the database failed so *)
(* has one that lost the race for the first login: a retry gets in.        *)
LoginHasData ==
    \A c \in Calls :
        calls[c].result = "login" \/ (~failed /\ calls[c].result = "LoginFailInsertDB") =>
            rows[calls[c].id] > 0
=============================================================================
