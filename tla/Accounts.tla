------------------------------ MODULE Accounts ------------------------------
(***************************************************************************)
(* The users table and what is read and written of it: registration with   *)
(* a code sent by mail, profile, passwords, administration and the model   *)
(* a user chose last, which is kept in a cache as well                     *)
(* (auth_service.go, user_service.go, admin_user_service.go).  A request   *)
(* is a plan of single queries; other requests run between them.           *)
(***************************************************************************)
EXTENDS Naturals, Sequences

CONSTANTS Requests,            \* requests at work at one time
          Names, Mails, Models,
          MaxUsers, MaxWrites  \* bounds: rows ever created, password writes and codes

ASSUME AccountBounds == {MaxUsers, MaxWrites} \subseteq Nat

VARIABLES users,     \* the table: row by id, ids are given once
          codes,     \* email_code:<mail>
          lastCode,
          cached,    \* user:model:<id>
          unsaved,   \* writes of last_model that run on goroutines of their own
          requests,  \* per request: what it does, the rest of its plan, what it read
          passwords, \* ghost: the password each user was last given
          gone       \* ghost: deleted users

accountVars == <<users, codes, lastCode, cached, unsaved, requests, passwords, gone>>

NoValue == 0
Ids == 1..MaxUsers
NoRow == [name |-> "none", mail |-> "none", password |-> NoValue, model |-> "none"]
Idle == [op |-> "idle", plan |-> <<>>, id |-> NoValue, name |-> "none", mail |-> "none", code |-> NoValue, seen |-> NoRow]

Exists(id) == users[id] # NoRow
NameTaken(name) == \E id \in Ids : Exists(id) /\ users[id].name = name
MailTaken(mail) == \E id \in Ids : Exists(id) /\ users[id].mail = mail

\* The queries of each operation, in their order.
Plans ==
    [register       |-> <<"name", "mail", "code", "drop", "create">>,
     admin_create   |-> <<"name", "mail", "create">>,
     admin_update   |-> <<"read", "name", "mail", "write">>,
     update_user    |-> <<"read", "cache", "mail", "write">>,
     profile        |-> <<"read", "cache">>,
     change         |-> <<"read", "cache", "write">>,
     reset          |-> <<"code", "drop", "find", "write">>,
     admin_reset    |-> <<"read", "write">>,
     admin_delete   |-> <<"read", "delete">>]
SetsPassword == {"change", "reset", "admin_reset"}

AccountInit ==
    /\ users = [id \in Ids |-> NoRow] /\ codes = [m \in Mails |-> NoValue] /\ lastCode = 0
    /\ cached = [id \in Ids |-> "none"] /\ unsaved = {}
    /\ requests = [r \in Requests |-> Idle]
    /\ passwords = [id \in Ids |-> NoValue] /\ gone = {}

-----------------------------------------------------------------------------
(* Requests                                                                *)

Begin(r, op, id, name, mail, code) ==
    /\ requests[r] = Idle
    /\ requests' = [requests EXCEPT ![r] = [op |-> op, plan |-> Plans[op], id |-> id, name |-> name, mail |-> mail,
                                            code |-> code, seen |-> NoRow]]
    /\ UNCHANGED <<users, codes, lastCode, cached, unsaved, passwords, gone>>

At(r, step) == requests[r].plan # <<>> /\ Head(requests[r].plan) = step
Reply(r) == requests' = [requests EXCEPT ![r] = Idle]
GoOn(r) == IF Len(requests[r].plan) = 1 THEN Reply(r) ELSE requests' = [requests EXCEPT ![r].plan = Tail(@)]
GoOnIf(r, ok) == IF ok THEN GoOn(r) ELSE Reply(r)

\* ExistsByUsername, ExistsByEmail; an update asks only when the value changes.
CheckName(r) == At(r, "name") /\ GoOnIf(r, requests[r].name = requests[r].seen.name \/ ~NameTaken(requests[r].name))
                /\ UNCHANGED <<users, codes, lastCode, cached, unsaved, passwords, gone>>
CheckMail(r) == At(r, "mail") /\ GoOnIf(r, requests[r].mail = requests[r].seen.mail \/ ~MailTaken(requests[r].mail))
                /\ UNCHANGED <<users, codes, lastCode, cached, unsaved, passwords, gone>>

\* The code that was sent to this mail, read and then removed.
ReadCode(r) == At(r, "code") /\ GoOnIf(r, codes[requests[r].mail] # NoValue /\ codes[requests[r].mail] = requests[r].code)
               /\ UNCHANGED <<users, codes, lastCode, cached, unsaved, passwords, gone>>
DropCode(r) == /\ At(r, "drop") /\ GoOn(r)
               /\ codes' \in {codes, [codes EXCEPT ![requests[r].mail] = NoValue]}   \* a failed Del is logged
               /\ UNCHANGED <<users, lastCode, cached, unsaved, passwords, gone>>

\* FindByID; ChangePassword compares the old password with the row, here a user knows the last one it was given.
ReadUser(r) ==
    /\ At(r, "read")
    /\ IF Exists(requests[r].id) /\ (requests[r].op = "change" => users[requests[r].id].password = requests[r].code)
       THEN requests' = [requests EXCEPT ![r].plan = Tail(@), ![r].seen = users[requests[r].id]]
       ELSE Reply(r)
    /\ UNCHANGED <<users, codes, lastCode, cached, unsaved, passwords, gone>>

\* FindByEmail: of several rows, any.
FindByMail(r) ==
    /\ At(r, "find")
    /\ \/ ~MailTaken(requests[r].mail) /\ Reply(r)
       \/ \E id \in Ids : Exists(id) /\ users[id].mail = requests[r].mail
             /\ requests' = [requests EXCEPT ![r].plan = Tail(@), ![r].id = id, ![r].seen = users[id]]
    /\ UNCHANGED <<users, codes, lastCode, cached, unsaved, passwords, gone>>

\* GetUserByID: a model that is not in the cache is put there as the row had it.
Backfill(r) ==
    LET id == requests[r].id IN
    /\ At(r, "cache") /\ GoOn(r)
    /\ cached' = IF cached[id] = "none" THEN [cached EXCEPT ![id] = requests[r].seen.model] ELSE cached
    /\ UNCHANGED <<users, codes, lastCode, unsaved, passwords, gone>>

NewPassword == lastCode + 1

Create(r) ==
    \E id \in Ids :
        /\ At(r, "create") /\ Reply(r) /\ lastCode < MaxWrites
        /\ ~Exists(id) /\ id \notin gone /\ \A k \in 1..id - 1 : Exists(k) \/ k \in gone
        /\ users' = [users EXCEPT ![id] = [name |-> requests[r].name, mail |-> requests[r].mail,
                                           password |-> NewPassword, model |-> "none"]]
        /\ passwords' = [passwords EXCEPT ![id] = NewPassword] /\ lastCode' = NewPassword
        /\ UNCHANGED <<codes, cached, unsaved, gone>>

\* Mutant: the row that was read is saved whole, as gorm's Save does.
Written_Whole(row, request) ==
    CASE request.op \in SetsPassword -> [request.seen EXCEPT !.password = NewPassword]
      [] request.op = "admin_update" -> [request.seen EXCEPT !.name = request.name, !.mail = request.mail]
      [] OTHER -> [request.seen EXCEPT !.mail = request.mail]

\* Update with a map: only the columns that the operation is about, of the row as it is now.
Written(row, request) ==
    CASE request.op \in SetsPassword -> [row EXCEPT !.password = NewPassword]
      [] request.op = "admin_update" ->
            [row EXCEPT !.name = IF request.name # request.seen.name THEN request.name ELSE @,
                        !.mail = IF request.mail # request.seen.mail THEN request.mail ELSE @]
      [] OTHER -> [row EXCEPT !.mail = IF request.mail # request.seen.mail THEN request.mail ELSE @]

\* Mutant: a write creates the row that it does not find.
Matches_Always(id) == TRUE

\* UPDATE ... WHERE id = ?
Matches(id) == Exists(id)

Write(r) ==
    LET q == requests[r] IN
    /\ At(r, "write") /\ Reply(r) /\ (q.op \in SetsPassword => lastCode < MaxWrites)
    /\ users' = IF Matches(q.id) THEN [users EXCEPT ![q.id] = Written(@, q)] ELSE users
    /\ IF q.op \in SetsPassword /\ Matches(q.id)
       THEN passwords' = [passwords EXCEPT ![q.id] = NewPassword] /\ lastCode' = NewPassword
       ELSE UNCHANGED <<passwords, lastCode>>
    /\ UNCHANGED <<codes, cached, unsaved, gone>>

RemoveUser(r) ==
    LET id == requests[r].id IN
    /\ At(r, "delete") /\ Reply(r)
    /\ users' = [users EXCEPT ![id] = NoRow] /\ gone' = IF Exists(id) THEN gone \cup {id} ELSE gone
    /\ UNCHANGED <<codes, lastCode, cached, unsaved, passwords>>

-----------------------------------------------------------------------------
(* Codes and models                                                        *)

\* SendEmailCode: the code is kept before the mail goes, which may fail.
SendEmailCode(mail) ==
    /\ lastCode < MaxWrites
    /\ codes' = [codes EXCEPT ![mail] = lastCode + 1] /\ lastCode' = lastCode + 1
    /\ UNCHANGED <<users, cached, unsaved, requests, passwords, gone>>
CodeExpires(mail) ==
    /\ codes[mail] # NoValue /\ codes' = [codes EXCEPT ![mail] = NoValue]
    /\ UNCHANGED <<users, lastCode, cached, unsaved, requests, passwords, gone>>

\* updateUserLastModel: the cache at once, the row on a goroutine.
ChooseModel(id, model) ==
    /\ Exists(id) /\ cached[id] # model
    /\ cached' = [cached EXCEPT ![id] = model] /\ unsaved' = unsaved \cup {<<id, model>>}
    /\ UNCHANGED <<users, codes, lastCode, requests, passwords, gone>>
SaveModel(write) ==
    /\ unsaved' = unsaved \ {write}
    /\ users' = IF Exists(write[1]) THEN [users EXCEPT ![write[1]].model = write[2]] ELSE users
    /\ UNCHANGED <<codes, lastCode, cached, requests, passwords, gone>>
CacheExpires(id) ==
    /\ cached[id] # "none" /\ cached' = [cached EXCEPT ![id] = "none"]
    /\ UNCHANGED <<users, codes, lastCode, unsaved, requests, passwords, gone>>

AccountNext ==
    \/ \E r \in Requests, name \in Names, mail \in Mails :
          \/ Begin(r, "register", NoValue, name, mail, codes[mail])
          \/ Begin(r, "admin_create", NoValue, name, mail, NoValue)
          \/ Begin(r, "reset", NoValue, "none", mail, codes[mail])
          \/ \E id \in Ids : Exists(id) /\ ( \/ Begin(r, "admin_update", id, name, mail, NoValue)
                                             \/ Begin(r, "update_user", id, "none", mail, NoValue) )
    \/ \E r \in Requests, id \in Ids : Exists(id) /\ ( \/ Begin(r, "profile", id, "none", "none", NoValue)
                                                       \/ Begin(r, "change", id, "none", "none", passwords[id])
                                                       \/ Begin(r, "admin_reset", id, "none", "none", NoValue)
                                                       \/ Begin(r, "admin_delete", id, "none", "none", NoValue) )
    \/ \E r \in Requests : \/ CheckName(r) \/ CheckMail(r) \/ ReadCode(r) \/ DropCode(r) \/ ReadUser(r)
                           \/ FindByMail(r) \/ Backfill(r) \/ Create(r) \/ Write(r) \/ RemoveUser(r)
    \/ \E mail \in Mails : SendEmailCode(mail) \/ CodeExpires(mail)
    \/ \E id \in Ids : CacheExpires(id) \/ \E model \in Models : ChooseModel(id, model)
    \/ \E write \in unsaved : SaveModel(write)

-----------------------------------------------------------------------------
(* Properties                                                              *)

AccountTypeOK ==
    /\ \A id \in Ids : Exists(id) => users[id].name \in Names /\ users[id].mail \in Mails /\ users[id].password \in 1..MaxWrites
    /\ \A r \in Requests : requests[r].op \in DOMAIN Plans \cup {"idle"} /\ Len(requests[r].plan) <= 5
    /\ lastCode \in 0..MaxWrites /\ unsaved \subseteq Ids \X Models

\* A user's password is the one it was last given, whatever changes of the profile, of the model or by an
\* administrator had read the row before and are written after.
PasswordIsKept == \A id \in Ids : Exists(id) => users[id].password = passwords[id]

\* A deleted user does not come back with a change that had read it.
DeletedIsGone == \A id \in gone : ~Exists(id)

\* Names and mail addresses, which are checked before each write, are each held by one user.
NamesAreUnique == \A i, j \in Ids : Exists(i) /\ Exists(j) /\ i # j => users[i].name # users[j].name /\ users[i].mail # users[j].mail

\* Why it is so.  A request knows a row before it asks for it, and only those write
\* that have what they write.
Queries == {"name", "mail", "code", "drop", "create", "read", "cache", "write", "find", "delete"}
RowSet == [name : Names \cup {"none"}, mail : Mails \cup {"none"}, password : Nat, model : Models \cup {"none"}]
RequestSet == [op : DOMAIN Plans \cup {"idle"}, plan : Seq(Queries), id : Ids \cup {NoValue},
               name : Names \cup {"none"}, mail : Mails \cup {"none"}, code : Nat, seen : RowSet]
RowsAreWhole ==
    /\ users \in [Ids -> RowSet] /\ passwords \in [Ids -> Nat] /\ gone \subseteq Ids
    /\ codes \in [Mails -> Nat] /\ cached \in [Ids -> Models \cup {"none"}]
RequestsKnowTheirRow ==
    /\ requests \in [Requests -> RequestSet]
    /\ \A r \in Requests : \A k \in DOMAIN requests[r].plan :
          LET q == requests[r] IN
          /\ q.plan[k] \in {"read", "cache", "write", "delete"} =>
                q.id \in Ids \/ \E j \in 1..k - 1 : q.plan[j] = "find"
          /\ q.plan[k] \in {"write", "create"} =>
                /\ q.op \in {"register", "admin_create", "admin_update"} => q.name \in Names
                /\ q.op \notin SetsPassword => q.mail \in Mails
          /\ q.plan[k] = "create" => q.op \in {"register", "admin_create"}

\* The inductive invariant of the accounts.
AccountInv == AccountTypeOK /\ PasswordIsKept /\ DeletedIsGone /\ RowsAreWhole /\ RequestsKnowTheirRow

=============================================================================
