--------------------------- MODULE ServicesProofs ---------------------------
(***************************************************************************)
(* Proofs about the services: what was taken back stays so (Accounts,      *)
(* LoginTokens), a resumed task of an older program runs on finished work  *)
(* only (LegacyResume), a run of an agent runs only what was approved and  *)
(* calls only a whole answer done (AgentRun), what is read of a stored     *)
(* result is what was stored (ArtifactReading), and an agent gets the      *)
(* tools its prompt lists and no others (ToolSet).                         *)
(***************************************************************************)
EXTENDS MCServices, ListsProofs

-----------------------------------------------------------------------------
(* Tokens: what was logged out stays out.                                  *)

LEMMA TokensStart == TokenInit => TokenInv
<1> SUFFICES ASSUME TokenInit PROVE TokenInv
  OBVIOUS
<1>1. Given = {} /\ DOMAIN revoked = {} /\ out = {} /\ late = {} /\ now = 1 /\ captchas = 0
  BY DEF TokenInit, Given
<1>2. Cardinality(Given) = 0
  BY <1>1, FS_EmptySet
<1>3. TokenTypeOK
  BY <1>1, <1>2, TokenBounds DEF TokenTypeOK
<1> QED
  BY <1>1, <1>2, <1>3 DEF TokenInv, LogoutHolds, LogoutsLast

\* Tokens are numbered in the order they are given.
LEMMA OneTokenMore ==
  ASSUME TokenInv
  PROVE  /\ Cardinality(Given) + 1 \notin Given
         /\ Cardinality(Given \cup {Cardinality(Given) + 1}) = Cardinality(Given) + 1
         /\ Given \cup {Cardinality(Given) + 1} = 1 .. Cardinality(Given) + 1
<1> DEFINE c == Cardinality(Given)
<1>1. c \in Nat /\ Given = 1 .. c
  BY DEF TokenInv, TokenTypeOK, LogoutsLast
<1> HIDE DEF c
<1>2. c + 1 \notin Given /\ Given \cup {c + 1} = 1 .. c + 1
  BY <1>1
<1>3. Cardinality(1 .. c + 1) = c + 1
  <2>1. Cardinality(1 .. c + 1) = IF 1 > c + 1 THEN 0 ELSE c + 1 - 1 + 1
    BY <1>1, FS_Interval
  <2> QED
    BY <1>1, <2>1
<1> QED
  BY <1>2, <1>3 DEF c

LEMMA IssueKeeps ==
  ASSUME TokenInv, NEW user \in Users, Issue(user), UNCHANGED <<now, out, late>>, captchas' \in 0 .. 1
  PROVE  TokenInv'
<1> DEFINE n == Cardinality(Given) + 1
           new == [user |-> user, end |-> now + Life]
<1>1. n \notin Given /\ Cardinality(Given \cup {n}) = n /\ Given \cup {n} = 1 .. n /\ n \in Nat
  BY OneTokenMore DEF TokenInv, LogoutsLast
<1>2. /\ tokens' = [t \in Given \cup {n} |-> IF t = n THEN new ELSE tokens[t]]
      /\ revoked' = [t \in Given \cup {n} |-> IF t = n THEN 0 ELSE revoked[t]]
  BY DEF Issue
<1>3. /\ now \in 1 .. MaxTime /\ out \subseteq Given /\ late = {}
      /\ \A t \in Given : tokens[t] \in [user : Users, end : Nat] /\ tokens[t].end <= now + Life
                          /\ revoked[t] \in {0} \cup 1 .. MaxTime + Life
      /\ \A t \in out : revoked[t] = tokens[t].end
  BY DEF TokenInv, TokenTypeOK, LogoutsLast, LogoutHolds
<1>4. new \in [user : Users, end : Nat] /\ new.end <= now + Life
  BY <1>3, TokenBounds
<1> HIDE DEF n, new
<1>5. Given' = Given \cup {n} /\ DOMAIN revoked' = Given \cup {n}
  BY <1>2 DEF Given
<1>6. \A t \in Given : tokens'[t] = tokens[t] /\ revoked'[t] = revoked[t]
  BY <1>1, <1>2
<1>7. tokens'[n] = new /\ revoked'[n] = 0
  BY <1>2
<1>8. TokenTypeOK'
  BY <1>1, <1>3, <1>4, <1>5, <1>6, <1>7 DEF TokenTypeOK
<1>9. LogoutsLast'
  BY <1>1, <1>3, <1>4, <1>5, <1>6, <1>7 DEF LogoutsLast
<1> QED
  BY <1>3, <1>8, <1>9 DEF TokenInv, LogoutHolds

LEMMA TokensStay == TokenInv /\ [TokenNext]_tokenVars => TokenInv'
<1> SUFFICES ASSUME TokenInv, [TokenNext]_tokenVars PROVE TokenInv'
  OBVIOUS
<1>1. /\ now \in 1 .. MaxTime /\ out \subseteq Given /\ late = {} /\ captchas \in 0 .. 1
      /\ DOMAIN revoked = Given /\ Given = 1 .. Cardinality(Given) /\ Cardinality(Given) \in Nat
      /\ \A t \in Given : tokens[t] \in [user : Users, end : Nat] /\ tokens[t].end <= now + Life
                          /\ revoked[t] \in {0} \cup 1 .. MaxTime + Life
      /\ \A t \in out : revoked[t] = tokens[t].end
  BY DEF TokenInv, TokenTypeOK, LogoutsLast, LogoutHolds
<1>2. ASSUME UNCHANGED <<now, tokens, revoked, out, late>>, captchas' \in 0 .. 1 PROVE TokenInv'
  BY <1>2 DEF TokenInv, TokenTypeOK, LogoutsLast, LogoutHolds, Given
<1>3. ASSUME UNCHANGED tokenVars PROVE TokenInv'
  BY <1>1, <1>2, <1>3 DEF tokenVars
<1>4. ASSUME GetCaptcha PROVE TokenInv'
  BY <1>1, <1>2, <1>4 DEF GetCaptcha
<1>5. ASSUME Tick PROVE TokenInv'
  <2>1. now' = now + 1 /\ now' \in 1 .. MaxTime /\ UNCHANGED <<captchas, tokens, revoked, out, late>>
    BY <1>1, <1>5, TokenBounds DEF Tick
  <2>2. Given' = Given
    BY <2>1 DEF Given
  <2>3. \A t \in Given : tokens[t].end <= now' + Life
    BY <1>1, <2>1, TokenBounds
  <2> QED
    BY <1>1, <2>1, <2>2, <2>3 DEF TokenInv, TokenTypeOK, LogoutsLast, LogoutHolds
<1>6. ASSUME NEW user \in Users, NEW password \in BOOLEAN, Login(user, password) PROVE TokenInv'
  <2>1. captchas' \in 0 .. 1 /\ UNCHANGED <<now, out, late>>
    BY <1>1, <1>6 DEF Login, Verify
  <2>2. Issue(user) \/ UNCHANGED <<tokens, revoked>>
    BY <1>6 DEF Login
  <2> QED
    BY <1>2, <2>1, <2>2, IssueKeeps
<1>7. ASSUME NEW user \in Users, NEW s \in {1, 2}, SetStatus(user, s) PROVE TokenInv'
  BY <1>1, <1>2, <1>7 DEF SetStatus
<1>8. ASSUME NEW t \in Given, Refresh(t) PROVE TokenInv'
  <2>1. tokens[t].user \in Users /\ Issue(tokens[t].user) /\ UNCHANGED <<now, captchas, out, late>>
    BY <1>1, <1>8 DEF Refresh
  <2> QED
    BY <1>1, <2>1, IssueKeeps
<1>9. ASSUME NEW t \in Given, Logout(t) PROVE TokenInv'
  <2>1. /\ revoked' = [revoked EXCEPT ![t] = tokens[t].end] /\ out' = out \cup {t}
        /\ UNCHANGED <<now, captchas, tokens, late>> /\ now < tokens[t].end
    BY <1>9 DEF Logout, RevokedUntil, Live
  <2>2. Given' = Given /\ DOMAIN revoked' = Given
    BY <1>1, <2>1 DEF Given
  <2>3. tokens[t].end \in 1 .. MaxTime + Life
    <3> DEFINE e == tokens[t].end
    <3>1. e \in Nat /\ e <= now + Life /\ now < e /\ now \in 1 .. MaxTime
      BY <1>1, <2>1
    <3> HIDE DEF e
    <3>2. e \in 1 .. MaxTime + Life
      BY <3>1, TokenBounds
    <3> QED
      BY <3>2 DEF e
  <2>4. \A s \in Given : revoked'[s] = IF s = t THEN tokens[t].end ELSE revoked[s]
    BY <1>1, <2>1
  <2>5. TokenTypeOK'
    BY <1>1, <2>1, <2>2, <2>3, <2>4 DEF TokenTypeOK
  <2>6. LogoutsLast'
    BY <1>1, <2>1, <2>2, <2>4 DEF LogoutsLast
  <2> QED
    BY <1>1, <2>1, <2>5, <2>6 DEF TokenInv, LogoutHolds
<1>10. ASSUME NEW t \in Given, Request(t) PROVE TokenInv'
  <2>1. ~(now < revoked[t]) /\ now < tokens[t].end
        /\ late' = (IF t \in out THEN late \cup {t} ELSE late)
        /\ UNCHANGED <<now, captchas, tokens, revoked, out>>
    BY <1>10 DEF Request, Revoked, Live
  <2>2. t \notin out
    BY <1>1, <2>1
  <2> QED
    BY <1>1, <1>2, <2>1, <2>2
<1> QED
  BY <1>3, <1>4, <1>5, <1>6, <1>7, <1>8, <1>9, <1>10 DEF TokenNext

-----------------------------------------------------------------------------
(* Accounts: rows, and the requests that write them.                       *)

\* What an invariant of the accounts says of the tables and of one request.
LEMMA AccountParts ==
  AccountInv <=>
    /\ \A id \in Ids : Exists(id) => /\ users[id].name \in Names /\ users[id].mail \in Mails
                                     /\ users[id].password \in 1 .. MaxWrites
                                     /\ users[id].password = passwords[id]
    /\ lastCode \in 0 .. MaxWrites /\ unsaved \subseteq Ids \X Models
    /\ \A id \in gone : ~Exists(id)
    /\ RowsAreWhole /\ RequestsKnowTheirRow
    /\ \A r \in Requests : Len(requests[r].plan) <= 5
<1>1. RequestsKnowTheirRow => \A r \in Requests : requests[r].op \in DOMAIN Plans \cup {"idle"}
  BY DEF RequestsKnowTheirRow, RequestSet
<1> QED
  BY <1>1 DEF AccountInv, AccountTypeOK, PasswordIsKept, DeletedIsGone

LEMMA AccountsStart == AccountInit => AccountInv
<1> SUFFICES ASSUME AccountInit PROVE AccountInv
  OBVIOUS
<1>1. \A id \in Ids : ~Exists(id)
  BY DEF AccountInit, Exists
<1>2. NoRow \in RowSet
  BY DEF NoRow, RowSet, NoValue
<1>3. Idle \in RequestSet /\ Idle.plan = <<>>
  BY <1>2 DEF Idle, RequestSet, NoValue
<1>4. RowsAreWhole
  BY <1>2 DEF AccountInit, RowsAreWhole, NoValue
<1>5. RequestsKnowTheirRow /\ \A r \in Requests : Len(requests[r].plan) <= 5
  <2>1. \A r \in Requests : requests[r].plan = <<>>
    BY <1>3 DEF AccountInit
  <2> QED
    BY <1>3, <2>1 DEF AccountInit, RequestsKnowTheirRow
<1> QED
  BY <1>1, <1>4, <1>5, AccountBounds, AccountParts DEF AccountInit

\* The part of the invariant about one request.
Knows(q) ==
    /\ q \in RequestSet /\ Len(q.plan) <= 5
    /\ \A k \in DOMAIN q.plan :
          /\ q.plan[k] \in {"read", "cache", "write", "delete"} =>
                q.id \in Ids \/ \E j \in 1..k - 1 : q.plan[j] = "find"
          /\ q.plan[k] \in {"write", "create"} =>
                /\ q.op \in {"register", "admin_create", "admin_update"} => q.name \in Names
                /\ q.op \notin SetsPassword => q.mail \in Mails
          /\ q.plan[k] = "create" => q.op \in {"register", "admin_create"}

LEMMA KnowsIsIt ==
  (RequestsKnowTheirRow /\ \A r \in Requests : Len(requests[r].plan) <= 5)
    <=> (requests \in [Requests -> RequestSet] /\ \A r \in Requests : Knows(requests[r]))
BY DEF RequestsKnowTheirRow, Knows

LEMMA IdleKnows == Knows(Idle)
<1>1. NoRow \in RowSet
  BY DEF NoRow, RowSet, NoValue
<1>2. Idle \in RequestSet /\ Idle.plan = <<>>
  BY <1>1 DEF Idle, RequestSet, NoValue
<1> QED
  BY <1>2 DEF Knows

\* A request that goes on to its next query.
LEMMA NextQueryKnows ==
  ASSUME NEW q \in RequestSet, Knows(q), q.plan # <<>>, Head(q.plan) # "find",
         NEW row \in RowSet
  PROVE  /\ Knows([q EXCEPT !.plan = Tail(@)])
         /\ Knows([q EXCEPT !.plan = Tail(@), !.seen = row])
<1> DEFINE p == q.plan
           one == [q EXCEPT !.plan = Tail(p)]
           two == [one EXCEPT !.seen = row]
<1>1. p \in Seq(Queries) /\ p # <<>>
  BY DEF RequestSet
<1>2. /\ Tail(p) \in Seq(Queries) /\ Len(Tail(p)) = Len(p) - 1 /\ Len(p) \in Nat \ {0}
      /\ \A k \in 1 .. Len(p) - 1 : Tail(p)[k] = p[k + 1]
  BY <1>1, HeadTailProperties, EmptySeq
<1>3. one \in RequestSet
  BY <1>2 DEF RequestSet
<1>4. two \in RequestSet
  BY <1>3 DEF RequestSet
<1>5. /\ one.plan = Tail(p) /\ two.plan = Tail(p) /\ one.id = q.id /\ two.id = q.id
      /\ one.op = q.op /\ two.op = q.op /\ one.name = q.name /\ two.name = q.name
      /\ one.mail = q.mail /\ two.mail = q.mail
  BY DEF RequestSet
<1>6. p[1] # "find" /\ Len(p) <= 5
  BY <1>1 DEF Knows
<1>7. ASSUME NEW k \in DOMAIN Tail(p)
      PROVE  /\ Tail(p)[k] \in {"read", "cache", "write", "delete"} =>
                q.id \in Ids \/ \E j \in 1..k - 1 : Tail(p)[j] = "find"
             /\ Tail(p)[k] \in {"write", "create"} =>
                /\ q.op \in {"register", "admin_create", "admin_update"} => q.name \in Names
                /\ q.op \notin SetsPassword => q.mail \in Mails
             /\ Tail(p)[k] = "create" => q.op \in {"register", "admin_create"}
  <2>1. k \in 1 .. Len(p) - 1 /\ k \in Int /\ Tail(p)[k] = p[k + 1] /\ k + 1 \in DOMAIN p
    BY <1>1, <1>2
  <2>2. /\ p[k + 1] \in {"read", "cache", "write", "delete"} =>
                q.id \in Ids \/ \E j \in 1..(k + 1) - 1 : p[j] = "find"
        /\ p[k + 1] \in {"write", "create"} =>
                /\ q.op \in {"register", "admin_create", "admin_update"} => q.name \in Names
                /\ q.op \notin SetsPassword => q.mail \in Mails
        /\ p[k + 1] = "create" => q.op \in {"register", "admin_create"}
    BY <2>1 DEF Knows
  <2>3. ASSUME NEW j \in 1 .. (k + 1) - 1, p[j] = "find" PROVE \E i \in 1 .. k - 1 : Tail(p)[i] = "find"
    <3>1. j # 1 /\ j - 1 \in 1 .. k - 1 /\ j - 1 \in 1 .. Len(p) - 1
      BY <1>2, <1>6, <2>1, <2>3
    <3>2. Tail(p)[j - 1] = p[(j - 1) + 1] /\ (j - 1) + 1 = j
      BY <1>2, <3>1
    <3> QED
      BY <2>3, <3>1, <3>2
  <2> QED
    BY <2>1, <2>2, <2>3
<1> HIDE DEF one, two
<1>8. Knows(one)
  BY <1>2, <1>3, <1>5, <1>6, <1>7 DEF Knows
<1>9. Knows(two)
  BY <1>2, <1>4, <1>5, <1>6, <1>7 DEF Knows
<1>10. one = [q EXCEPT !.plan = Tail(@)] /\ two = [q EXCEPT !.plan = Tail(@), !.seen = row]
  BY DEF one, two
<1> QED
  BY <1>8, <1>9, <1>10

\* A request that found its user.
LEMMA FoundKnows ==
  ASSUME NEW q \in RequestSet, Knows(q), q.plan # <<>>, NEW row \in RowSet, NEW n \in Ids
  PROVE  Knows([q EXCEPT !.plan = Tail(@), !.id = n, !.seen = row])
<1> DEFINE p == q.plan
           one == [q EXCEPT !.plan = Tail(p)]
           two == [one EXCEPT !.id = n]
           three == [two EXCEPT !.seen = row]
<1>1. p \in Seq(Queries) /\ p # <<>>
  BY DEF RequestSet
<1>2. /\ Tail(p) \in Seq(Queries) /\ Len(Tail(p)) = Len(p) - 1 /\ Len(p) \in Nat \ {0}
      /\ \A k \in 1 .. Len(p) - 1 : Tail(p)[k] = p[k + 1]
  BY <1>1, HeadTailProperties, EmptySeq
<1>3. one \in RequestSet
  BY <1>2 DEF RequestSet
<1>4. two \in RequestSet
  BY <1>3 DEF RequestSet
<1>5. three \in RequestSet
  BY <1>4 DEF RequestSet
<1>6. three.plan = Tail(p) /\ three.id = n /\ three.op = q.op /\ three.name = q.name /\ three.mail = q.mail
  BY DEF RequestSet
<1>7. \A k \in DOMAIN Tail(p) : k + 1 \in DOMAIN p /\ Tail(p)[k] = p[k + 1]
  BY <1>1, <1>2
<1>8. Len(p) <= 5
  BY DEF Knows
<1>9. three = [q EXCEPT !.plan = Tail(@), !.id = n, !.seen = row]
  OBVIOUS
<1> HIDE DEF three
<1>10. Knows(three)
  <2>1. Len(three.plan) <= 5
    BY <1>2, <1>6, <1>8
  <2>2. ASSUME NEW k \in DOMAIN Tail(p)
        PROVE  /\ Tail(p)[k] \in {"write", "create"} =>
                    /\ q.op \in {"register", "admin_create", "admin_update"} => q.name \in Names
                    /\ q.op \notin SetsPassword => q.mail \in Mails
               /\ Tail(p)[k] = "create" => q.op \in {"register", "admin_create"}
    BY <1>7 DEF Knows
  <2> QED
    BY <1>5, <1>6, <2>1, <2>2 DEF Knows
<1> QED
  BY <1>9, <1>10

\* A plan is a sequence of at most five queries.
LEMMA PlansAreShort ==
  ASSUME NEW op \in DOMAIN Plans
  PROVE  Plans[op] \in Seq(Queries) /\ Len(Plans[op]) <= 5
<1>1. CASE op = "register"
  <2>1. Plans[op] = <<"name", "mail", "code", "drop", "create">>
    BY <1>1 DEF Plans
  <2> QED
    BY <2>1 DEF Queries
<1>2. CASE op = "admin_create"
  <2>1. Plans[op] = <<"name", "mail", "create">>
    BY <1>2 DEF Plans
  <2> QED
    BY <2>1 DEF Queries
<1>3. CASE op = "admin_update"
  <2>1. Plans[op] = <<"read", "name", "mail", "write">>
    BY <1>3 DEF Plans
  <2> QED
    BY <2>1 DEF Queries
<1>4. CASE op = "update_user"
  <2>1. Plans[op] = <<"read", "cache", "mail", "write">>
    BY <1>4 DEF Plans
  <2> QED
    BY <2>1 DEF Queries
<1>5. CASE op = "profile"
  <2>1. Plans[op] = <<"read", "cache">>
    BY <1>5 DEF Plans
  <2> QED
    BY <2>1 DEF Queries
<1>6. CASE op = "change"
  <2>1. Plans[op] = <<"read", "cache", "write">>
    BY <1>6 DEF Plans
  <2> QED
    BY <2>1 DEF Queries
<1>7. CASE op = "reset"
  <2>1. Plans[op] = <<"code", "drop", "find", "write">>
    BY <1>7 DEF Plans
  <2> QED
    BY <2>1 DEF Queries
<1>8. CASE op = "admin_reset"
  <2>1. Plans[op] = <<"read", "write">>
    BY <1>8 DEF Plans
  <2> QED
    BY <2>1 DEF Queries
<1>9. CASE op = "admin_delete"
  <2>1. Plans[op] = <<"read", "delete">>
    BY <1>9 DEF Plans
  <2> QED
    BY <2>1 DEF Queries
<1> QED
  BY <1>1, <1>2, <1>3, <1>4, <1>5, <1>6, <1>7, <1>8, <1>9 DEF Plans

\* What a request begins with is enough for its plan.
LEMMA PlanKnows ==
  ASSUME NEW op \in DOMAIN Plans, NEW id \in Ids \cup {NoValue}, NEW name \in Names \cup {"none"},
         NEW mail \in Mails \cup {"none"}, NEW code \in Nat,
         op \in {"register", "admin_create", "admin_update"} => name \in Names /\ mail \in Mails,
         op = "update_user" => mail \in Mails,
         op \notin {"register", "admin_create", "reset"} => id \in Ids
  PROVE  Knows([op |-> op, plan |-> Plans[op], id |-> id, name |-> name, mail |-> mail,
                code |-> code, seen |-> NoRow])
<1> DEFINE p == Plans[op]
           q == [op |-> op, plan |-> p, id |-> id, name |-> name, mail |-> mail, code |-> code, seen |-> NoRow]
<1>1. NoRow \in RowSet
  BY DEF NoRow, RowSet, NoValue
<1>2. p \in Seq(Queries) /\ Len(p) <= 5
  BY PlansAreShort
<1>3. \A k \in DOMAIN p : /\ p[k] = "create" => op \in {"register", "admin_create"}
                          /\ p[k] = "write" => op \in {"admin_update", "update_user"} \cup SetsPassword
  BY DEF Plans, SetsPassword
<1>4. op \in {"register", "admin_create"} =>
         \A k \in DOMAIN p : p[k] \notin {"read", "cache", "write", "delete"}
  BY DEF Plans
<1>5. op = "reset" => \A k \in DOMAIN p : p[k] \in {"read", "cache", "write", "delete"} => k = 4 /\ p[3] = "find"
  BY DEF Plans
<1> HIDE DEF p
<1>6. q \in RequestSet
  BY <1>1, <1>2 DEF RequestSet
<1>7. ASSUME NEW k \in DOMAIN p
      PROVE  /\ p[k] \in {"read", "cache", "write", "delete"} =>
                id \in Ids \/ \E j \in 1..k - 1 : p[j] = "find"
             /\ p[k] \in {"write", "create"} =>
                /\ op \in {"register", "admin_create", "admin_update"} => name \in Names
                /\ op \notin SetsPassword => mail \in Mails
             /\ p[k] = "create" => op \in {"register", "admin_create"}
  <2>1. p[k] \in {"read", "cache", "write", "delete"} => id \in Ids \/ \E j \in 1..k - 1 : p[j] = "find"
    <3>1. CASE op = "reset"
      <4>1. p[k] \in {"read", "cache", "write", "delete"} => k = 4 /\ p[3] = "find" /\ 3 \in 1 .. 4 - 1
        BY <1>5, <3>1
      <4> QED
        BY <4>1
    <3>2. CASE op # "reset"
      BY <1>4, <3>2
    <3> QED
      BY <3>1, <3>2
  <2>2. p[k] \in {"write", "create"} =>
                /\ op \in {"register", "admin_create", "admin_update"} => name \in Names
                /\ op \notin SetsPassword => mail \in Mails
    BY <1>3
  <2> QED
    BY <1>3, <2>1, <2>2
<1> QED
  BY <1>2, <1>6, <1>7 DEF Knows, p

\* A step that changes one request and nothing else but codes and the cache.
LEMMA RequestStands ==
  ASSUME AccountInv, NEW r \in Requests, NEW q, Knows(q), requests' = [requests EXCEPT ![r] = q],
         UNCHANGED <<users, lastCode, unsaved, passwords, gone>>,
         codes' \in [Mails -> Nat], cached' \in [Ids -> Models \cup {"none"}]
  PROVE  AccountInv'
<1>1. requests' \in [Requests -> RequestSet] /\ \A s \in Requests : Knows(requests'[s])
  <2>1. requests \in [Requests -> RequestSet] /\ \A s \in Requests : Knows(requests[s])
    BY KnowsIsIt, AccountParts
  <2>2. q \in RequestSet
    BY DEF Knows
  <2>. QED  BY <2>1, <2>2
<1>2. (RequestsKnowTheirRow /\ \A s \in Requests : Len(requests[s].plan) <= 5)'
  BY <1>1 DEF RequestsKnowTheirRow, Knows
<1>3. RowsAreWhole'
  BY AccountParts DEF RowsAreWhole
<1>4. \A id \in Ids : Exists(id)' = Exists(id)
  BY DEF Exists
<1>5. (gone \subseteq Ids)
  BY AccountParts DEF RowsAreWhole
<1>6. AccountTypeOK'
  <2>1. \A s \in Requests : requests'[s].op \in DOMAIN Plans \cup {"idle"} /\ Len(requests'[s].plan) <= 5
    BY <1>1 DEF Knows, RequestSet
  <2> QED
    BY <1>4, <2>1, AccountParts DEF AccountTypeOK
<1>7. PasswordIsKept' /\ DeletedIsGone'
  BY <1>4, <1>5, AccountParts DEF PasswordIsKept, DeletedIsGone
<1> QED
  BY <1>2, <1>3, <1>6, <1>7 DEF AccountInv

\* A request that is answered or goes on.
LEMMA GoOnKnows ==
  ASSUME AccountInv, NEW r \in Requests, requests[r].plan # <<>>, Head(requests[r].plan) # "find",
         GoOn(r) \/ Reply(r)
  PROVE  \E q : Knows(q) /\ requests' = [requests EXCEPT ![r] = q]
<1>1. requests \in [Requests -> RequestSet] /\ Knows(requests[r])
  BY KnowsIsIt, AccountParts
<1>2. ASSUME Reply(r) PROVE \E q : Knows(q) /\ requests' = [requests EXCEPT ![r] = q]
  BY <1>2, IdleKnows DEF Reply
<1>3. ASSUME requests' = [requests EXCEPT ![r].plan = Tail(@)]
      PROVE  \E q : Knows(q) /\ requests' = [requests EXCEPT ![r] = q]
  <2> DEFINE new == [requests[r] EXCEPT !.plan = Tail(@)]
  <2>1. NoRow \in RowSet
    BY DEF NoRow, RowSet, NoValue
  <2>2. Knows(new)
    BY <1>1, <2>1, NextQueryKnows
  <2>3. requests' = [requests EXCEPT ![r] = new]
    BY <1>3
  <2> HIDE DEF new
  <2> QED
    BY <2>2, <2>3
<1> QED
  BY <1>2, <1>3 DEF GoOn

LEMMA BeginKeeps ==
  ASSUME AccountInv, NEW r \in Requests, NEW op \in DOMAIN Plans, NEW id \in Ids \cup {NoValue},
         NEW name \in Names \cup {"none"}, NEW mail \in Mails \cup {"none"}, NEW code \in Nat,
         op \in {"register", "admin_create", "admin_update"} => name \in Names /\ mail \in Mails,
         op = "update_user" => mail \in Mails,
         op \notin {"register", "admin_create", "reset"} => id \in Ids,
         Begin(r, op, id, name, mail, code)
  PROVE  AccountInv'
<1> DEFINE new == [op |-> op, plan |-> Plans[op], id |-> id, name |-> name, mail |-> mail,
                   code |-> code, seen |-> NoRow]
<1>1. Knows(new)
  BY PlanKnows
<1>2. requests' = [requests EXCEPT ![r] = new] /\ UNCHANGED <<users, codes, lastCode, cached, unsaved, passwords, gone>>
  BY DEF Begin
<1>3. codes' \in [Mails -> Nat] /\ cached' \in [Ids -> Models \cup {"none"}]
  BY <1>2, AccountParts DEF RowsAreWhole
<1> HIDE DEF new
<1> QED
  BY <1>1, <1>2, <1>3, RequestStands

\* The steps of a request that write no user.
LEMMA QueryKeeps ==
  ASSUME AccountInv, NEW r \in Requests,
         \/ CheckName(r) \/ CheckMail(r) \/ ReadCode(r) \/ DropCode(r) \/ ReadUser(r)
         \/ FindByMail(r) \/ Backfill(r)
  PROVE  AccountInv'
<1>1. /\ requests \in [Requests -> RequestSet] /\ Knows(requests[r])
      /\ codes \in [Mails -> Nat] /\ cached \in [Ids -> Models \cup {"none"}] /\ users \in [Ids -> RowSet]
  BY KnowsIsIt, AccountParts DEF RowsAreWhole
<1>2. ASSUME NEW step, At(r, step), step # "find", GoOn(r) \/ Reply(r),
             UNCHANGED <<users, lastCode, unsaved, passwords, gone>>,
             codes' \in [Mails -> Nat], cached' \in [Ids -> Models \cup {"none"}]
      PROVE  AccountInv'
  <2>1. \E q : Knows(q) /\ requests' = [requests EXCEPT ![r] = q]
    BY <1>2, GoOnKnows DEF At
  <2> QED
    BY <1>2, <2>1, RequestStands
<1>3. ASSUME CheckName(r) PROVE AccountInv'
  <2>1. At(r, "name") /\ (GoOn(r) \/ Reply(r)) /\ UNCHANGED <<users, codes, lastCode, cached, unsaved, passwords, gone>>
    BY <1>3 DEF CheckName, GoOnIf
  <2> QED
    BY <1>1, <1>2, <2>1
<1>4. ASSUME CheckMail(r) PROVE AccountInv'
  <2>1. At(r, "mail") /\ (GoOn(r) \/ Reply(r)) /\ UNCHANGED <<users, codes, lastCode, cached, unsaved, passwords, gone>>
    BY <1>4 DEF CheckMail, GoOnIf
  <2> QED
    BY <1>1, <1>2, <2>1
<1>5. ASSUME ReadCode(r) PROVE AccountInv'
  <2>1. At(r, "code") /\ (GoOn(r) \/ Reply(r)) /\ UNCHANGED <<users, codes, lastCode, cached, unsaved, passwords, gone>>
    BY <1>5 DEF ReadCode, GoOnIf
  <2> QED
    BY <1>1, <1>2, <2>1
<1>6. ASSUME DropCode(r) PROVE AccountInv'
  <2>1. At(r, "drop") /\ GoOn(r) /\ UNCHANGED <<users, lastCode, cached, unsaved, passwords, gone>>
        /\ codes' \in {codes, [codes EXCEPT ![requests[r].mail] = NoValue]}
    BY <1>6 DEF DropCode
  <2>2. codes' \in [Mails -> Nat]
    BY <1>1, <2>1 DEF NoValue
  <2> QED
    BY <1>1, <1>2, <2>1, <2>2
<1>7. ASSUME ReadUser(r) PROVE AccountInv'
  <2>1. At(r, "read") /\ UNCHANGED <<users, codes, lastCode, cached, unsaved, passwords, gone>>
        /\ (\/ Reply(r)
            \/ requests' = [requests EXCEPT ![r].plan = Tail(@), ![r].seen = users[requests[r].id]])
    BY <1>7 DEF ReadUser
  <2>2. CASE Reply(r)
    BY <1>1, <1>2, <2>1, <2>2
  <2>3. CASE requests' = [requests EXCEPT ![r].plan = Tail(@), ![r].seen = users[requests[r].id]]
    <3> DEFINE q == requests[r]
    <3>1. q.plan # <<>> /\ Head(q.plan) = "read" /\ q \in RequestSet /\ Knows(q)
      BY <1>1, <2>1 DEF At
    <3>2. q.plan \in Seq(Queries)
      BY <3>1 DEF RequestSet
    <3>3. 1 \in DOMAIN q.plan /\ q.plan[1] = "read"
      BY <3>1, <3>2, EmptySeq
    <3>4. q.id \in Ids
      BY <3>1, <3>3 DEF Knows
    <3>5. users[q.id] \in RowSet
      BY <1>1, <3>4
    <3> HIDE DEF q
    <3>6. Knows([q EXCEPT !.plan = Tail(@), !.seen = users[q.id]])
      BY <3>1, <3>5, NextQueryKnows
    <3>7. requests' = [requests EXCEPT ![r] = [q EXCEPT !.plan = Tail(@), !.seen = users[q.id]]]
      BY <1>1, <2>3 DEF q
    <3> QED
      BY <1>1, <2>1, <3>6, <3>7, RequestStands
  <2> QED
    BY <2>1, <2>2, <2>3
<1>8. ASSUME FindByMail(r) PROVE AccountInv'
  <2>1. At(r, "find") /\ UNCHANGED <<users, codes, lastCode, cached, unsaved, passwords, gone>>
        /\ (\/ Reply(r)
            \/ \E id \in Ids : requests' = [requests EXCEPT ![r].plan = Tail(@), ![r].id = id, ![r].seen = users[id]])
    BY <1>8 DEF FindByMail
  <2>2. CASE Reply(r)
    BY <1>1, <2>1, <2>2, IdleKnows, RequestStands DEF Reply
  <2>3. ASSUME NEW id \in Ids, requests' = [requests EXCEPT ![r].plan = Tail(@), ![r].id = id, ![r].seen = users[id]]
        PROVE  AccountInv'
    <3> DEFINE q == requests[r]
    <3>1. q.plan # <<>> /\ q \in RequestSet /\ Knows(q)
      BY <1>1, <2>1 DEF At
    <3>2. users[id] \in RowSet
      BY <1>1
    <3> HIDE DEF q
    <3>3. Knows([q EXCEPT !.plan = Tail(@), !.id = id, !.seen = users[id]])
      BY <3>1, <3>2, FoundKnows
    <3>4. requests' = [requests EXCEPT ![r] = [q EXCEPT !.plan = Tail(@), !.id = id, !.seen = users[id]]]
      BY <1>1, <2>3 DEF q
    <3> QED
      BY <1>1, <2>1, <3>3, <3>4, RequestStands
  <2> QED
    BY <2>1, <2>2, <2>3
<1>9. ASSUME Backfill(r) PROVE AccountInv'
  <2>1. At(r, "cache") /\ GoOn(r) /\ UNCHANGED <<users, codes, lastCode, unsaved, passwords, gone>>
        /\ cached' = (IF cached[requests[r].id] = "none"
                      THEN [cached EXCEPT ![requests[r].id] = requests[r].seen.model] ELSE cached)
    BY <1>9 DEF Backfill
  <2>2. requests[r].seen.model \in Models \cup {"none"}
    BY <1>1 DEF RequestSet, RowSet
  <2>3. cached' \in [Ids -> Models \cup {"none"}]
    BY <1>1, <2>1, <2>2
  <2> QED
    BY <1>1, <1>2, <2>1, <2>3
<1> QED
  BY <1>3, <1>4, <1>5, <1>6, <1>7, <1>8, <1>9

\* A step that writes one user.
LEMMA UserStands ==
  ASSUME AccountInv, NEW id \in Ids, NEW row \in RowSet, NEW pass \in Nat,
         users' = [users EXCEPT ![id] = row], passwords' = [passwords EXCEPT ![id] = pass],
         lastCode' \in 0 .. MaxWrites, unsaved' \subseteq Ids \X Models,
         gone' \subseteq Ids, \A k \in gone' : k \in gone \/ (k = id /\ row = NoRow),
         row # NoRow => /\ id \notin gone /\ row.name \in Names /\ row.mail \in Mails
                        /\ row.password \in 1 .. MaxWrites /\ row.password = pass,
         UNCHANGED <<codes, cached>>,
         requests' = requests \/ \E r \in Requests : requests' = [requests EXCEPT ![r] = Idle]
  PROVE  AccountInv'
<1>1. /\ requests \in [Requests -> RequestSet] /\ \A r \in Requests : Knows(requests[r])
      /\ users \in [Ids -> RowSet] /\ passwords \in [Ids -> Nat]
      /\ codes \in [Mails -> Nat] /\ cached \in [Ids -> Models \cup {"none"}]
      /\ \A k \in Ids : Exists(k) => /\ users[k].name \in Names /\ users[k].mail \in Mails
                                     /\ users[k].password \in 1 .. MaxWrites
                                     /\ users[k].password = passwords[k]
      /\ \A k \in gone : ~Exists(k)
  BY KnowsIsIt, AccountParts DEF RowsAreWhole
<1>2. requests' \in [Requests -> RequestSet] /\ \A r \in Requests : Knows(requests'[r])
  <2>1. Idle \in RequestSet
    BY IdleKnows DEF Knows
  <2> QED
    BY <1>1, <2>1, IdleKnows
<1>3. RequestsKnowTheirRow'
  BY <1>2 DEF RequestsKnowTheirRow, Knows
<1>4. RowsAreWhole'
  BY <1>1 DEF RowsAreWhole
<1>5. \A k \in Ids : users'[k] = (IF k = id THEN row ELSE users[k]) /\ passwords'[k] = (IF k = id THEN pass ELSE passwords[k])
  BY <1>1
<1>6. \A k \in Ids : Exists(k)' => /\ users'[k].name \in Names /\ users'[k].mail \in Mails
                                   /\ users'[k].password \in 1 .. MaxWrites
                                   /\ users'[k].password = passwords'[k]
  BY <1>1, <1>5 DEF Exists
<1>7. AccountTypeOK'
  <2>1. \A r \in Requests : requests'[r].op \in DOMAIN Plans \cup {"idle"} /\ Len(requests'[r].plan) <= 5
    BY <1>2 DEF Knows, RequestSet
  <2> QED
    BY <1>6, <2>1 DEF AccountTypeOK
<1>8. PasswordIsKept'
  BY <1>6 DEF PasswordIsKept
<1>9. DeletedIsGone'
  BY <1>1, <1>5 DEF DeletedIsGone, Exists
<1> QED
  BY <1>3, <1>4, <1>7, <1>8, <1>9 DEF AccountInv

LEMMA CreateKeeps ==
  ASSUME AccountInv, NEW r \in Requests, Create(r)
  PROVE  AccountInv'
<1>1. /\ requests \in [Requests -> RequestSet] /\ Knows(requests[r]) /\ users \in [Ids -> RowSet]
      /\ lastCode \in 0 .. MaxWrites /\ gone \subseteq Ids /\ unsaved \subseteq Ids \X Models
  BY KnowsIsIt, AccountParts DEF RowsAreWhole
<1> DEFINE new == [name |-> requests[r].name, mail |-> requests[r].mail, password |-> lastCode + 1, model |-> "none"]
<1>2. PICK id \in Ids : /\ At(r, "create") /\ Reply(r) /\ lastCode < MaxWrites /\ id \notin gone
                       /\ users' = [users EXCEPT ![id] = new]
                       /\ passwords' = [passwords EXCEPT ![id] = lastCode + 1] /\ lastCode' = lastCode + 1
                       /\ UNCHANGED <<codes, cached, unsaved, gone>>
  BY DEF Create, NewPassword
<1>3. requests[r].name \in Names /\ requests[r].mail \in Mails
  <2> DEFINE q == requests[r]
  <2>1. q.plan # <<>> /\ Head(q.plan) = "create" /\ q \in RequestSet /\ Knows(q)
    BY <1>1, <1>2 DEF At
  <2>2. q.plan \in Seq(Queries)
    BY <2>1 DEF RequestSet
  <2>3. 1 \in DOMAIN q.plan /\ q.plan[1] = "create"
    BY <2>1, <2>2, EmptySeq
  <2>4. q.op \in {"register", "admin_create"}
    BY <2>1, <2>3 DEF Knows
  <2> QED
    BY <2>1, <2>3, <2>4 DEF Knows, SetsPassword
<1>4. lastCode + 1 \in 1 .. MaxWrites /\ lastCode + 1 \in Nat /\ lastCode + 1 \in 0 .. MaxWrites
  BY <1>1, <1>2, AccountBounds
<1>5. new \in RowSet
  BY <1>3, <1>4 DEF RowSet
<1>6. new.name = requests[r].name /\ new.mail = requests[r].mail /\ new.password = lastCode + 1
  OBVIOUS
<1> HIDE DEF new
<1>7. requests' = [requests EXCEPT ![r] = Idle]
  BY <1>2 DEF Reply
<1> QED
  BY <1>1, <1>2, <1>3, <1>4, <1>5, <1>6, <1>7, UserStands

LEMMA WriteKeeps ==
  ASSUME AccountInv, NEW r \in Requests, Write(r)
  PROVE  AccountInv'
<1> DEFINE q == requests[r]
<1>1. /\ requests \in [Requests -> RequestSet] /\ Knows(q) /\ users \in [Ids -> RowSet]
      /\ lastCode \in 0 .. MaxWrites /\ gone \subseteq Ids /\ unsaved \subseteq Ids \X Models
      /\ passwords \in [Ids -> Nat]
      /\ \A k \in Ids : Exists(k) => /\ users[k].name \in Names /\ users[k].mail \in Mails
                                     /\ users[k].password \in 1 .. MaxWrites
                                     /\ users[k].password = passwords[k]
      /\ \A k \in gone : ~Exists(k)
      /\ codes \in [Mails -> Nat] /\ cached \in [Ids -> Models \cup {"none"}]
  BY KnowsIsIt, AccountParts DEF RowsAreWhole
<1>2. /\ At(r, "write") /\ requests' = [requests EXCEPT ![r] = Idle]
      /\ q.op \in SetsPassword => lastCode < MaxWrites
      /\ users' = IF Exists(q.id) THEN [users EXCEPT ![q.id] = Written(users[q.id], q)] ELSE users
      /\ IF q.op \in SetsPassword /\ Exists(q.id)
         THEN passwords' = [passwords EXCEPT ![q.id] = lastCode + 1] /\ lastCode' = lastCode + 1
         ELSE UNCHANGED <<passwords, lastCode>>
      /\ UNCHANGED <<codes, cached, unsaved, gone>>
  BY DEF Write, Reply, Matches, NewPassword
<1>3. q.plan # <<>> /\ Head(q.plan) = "write" /\ q \in RequestSet
  BY <1>1, <1>2 DEF At
<1>4. 1 \in DOMAIN q.plan /\ q.plan[1] = "write"
  <2>1. q.plan \in Seq(Queries)
    BY <1>3 DEF RequestSet
  <2> QED
    BY <1>3, <2>1, EmptySeq
<1>5. /\ q.id \in Ids
      /\ q.op = "admin_update" => q.name \in Names
      /\ q.op \notin SetsPassword => q.mail \in Mails
  BY <1>1, <1>4 DEF Knows
<1> HIDE DEF q
<1>6. CASE ~Exists(q.id)
  <2>1. UNCHANGED <<users, lastCode, unsaved, passwords, gone, codes, cached>>
    BY <1>2, <1>6
  <2> QED
    BY <1>1, <1>2, <2>1, IdleKnows, RequestStands
<1>7. CASE Exists(q.id)
  <2> DEFINE old == users[q.id]
             new == Written(old, q)
             pass == IF q.op \in SetsPassword THEN lastCode + 1 ELSE passwords[q.id]
  <2>1. old \in RowSet /\ old.name \in Names /\ old.mail \in Mails /\ old.password \in 1 .. MaxWrites
        /\ old.password = passwords[q.id] /\ q.id \notin gone
    BY <1>1, <1>5, <1>7
  <2>2. q.op \in SetsPassword => /\ lastCode + 1 \in 1 .. MaxWrites /\ lastCode + 1 \in 0 .. MaxWrites
                                 /\ lastCode + 1 \in Nat
    BY <1>1, <1>2, AccountBounds
  <2>3. new \in RowSet /\ new.name \in Names /\ new.mail \in Mails /\ new.password \in 1 .. MaxWrites
        /\ new.password = pass
    <3> HIDE DEF old
    <3>1. CASE q.op \in SetsPassword
      <4>1. new = [old EXCEPT !.password = lastCode + 1]
        BY <3>1 DEF Written, NewPassword, SetsPassword
      <4> QED
        BY <2>1, <2>2, <3>1, <4>1 DEF RowSet
    <3>2. CASE q.op = "admin_update"
      <4>1. PICK a \in Names, b \in Mails : new = [old EXCEPT !.name = a, !.mail = b]
        <5> DEFINE a == IF q.name # q.seen.name THEN q.name ELSE old.name
                   b == IF q.mail # q.seen.mail THEN q.mail ELSE old.mail
        <5>1. a \in Names /\ b \in Mails
          BY <1>5, <2>1, <3>2 DEF SetsPassword
        <5>2. new = [old EXCEPT !.name = a, !.mail = b]
          BY <3>2 DEF Written, SetsPassword
        <5> HIDE DEF a, b
        <5> QED
          BY <5>1, <5>2
      <4> DEFINE one == [old EXCEPT !.name = a]
      <4>2. one \in RowSet /\ one.name = a /\ one.password = old.password
        BY <2>1 DEF RowSet
      <4>3. new = [one EXCEPT !.mail = b]
        BY <4>1
      <4> HIDE DEF one, new
      <4>4. new \in RowSet /\ new.name = a /\ new.mail = b /\ new.password = old.password
        BY <4>2, <4>3 DEF RowSet
      <4>5. pass = passwords[q.id]
        BY <3>2 DEF SetsPassword
      <4> QED
        BY <2>1, <4>4, <4>5
    <3>3. CASE q.op \notin SetsPassword /\ q.op # "admin_update"
      <4>1. PICK b \in Mails : new = [old EXCEPT !.mail = b]
        <5> DEFINE b == IF q.mail # q.seen.mail THEN q.mail ELSE old.mail
        <5>1. b \in Mails
          BY <1>5, <2>1, <3>3
        <5>2. new = [old EXCEPT !.mail = b]
          BY <3>3 DEF Written
        <5> HIDE DEF b
        <5> QED
          BY <5>1, <5>2
      <4> HIDE DEF new
      <4>2. new \in RowSet /\ new.mail = b /\ new.name = old.name /\ new.password = old.password
        BY <2>1, <4>1 DEF RowSet
      <4> QED
        BY <2>1, <3>3, <4>2
    <3> QED
      BY <3>1, <3>2, <3>3
  <2>4. users' = [users EXCEPT ![q.id] = new]
    BY <1>2, <1>7
  <2>5. passwords' = [passwords EXCEPT ![q.id] = pass] /\ lastCode' \in 0 .. MaxWrites /\ pass \in Nat
    BY <1>1, <1>2, <1>5, <1>7, <2>2
  <2> HIDE DEF new, pass, old
  <2> QED
    BY <1>1, <1>2, <1>5, <2>1, <2>3, <2>4, <2>5, UserStands
<1> QED
  BY <1>6, <1>7

LEMMA RemoveKeeps ==
  ASSUME AccountInv, NEW r \in Requests, RemoveUser(r)
  PROVE  AccountInv'
<1> DEFINE q == requests[r]
<1>1. /\ requests \in [Requests -> RequestSet] /\ Knows(q) /\ lastCode \in 0 .. MaxWrites
      /\ gone \subseteq Ids /\ unsaved \subseteq Ids \X Models /\ passwords \in [Ids -> Nat]
  BY KnowsIsIt, AccountParts DEF RowsAreWhole
<1>2. /\ At(r, "delete") /\ requests' = [requests EXCEPT ![r] = Idle]
      /\ users' = [users EXCEPT ![q.id] = NoRow]
      /\ gone' = IF Exists(q.id) THEN gone \cup {q.id} ELSE gone
      /\ UNCHANGED <<codes, lastCode, cached, unsaved, passwords>>
  BY DEF RemoveUser, Reply
<1>3. q.plan # <<>> /\ Head(q.plan) = "delete" /\ q \in RequestSet
  BY <1>1, <1>2 DEF At
<1>4. 1 \in DOMAIN q.plan /\ q.plan[1] = "delete"
  <2>1. q.plan \in Seq(Queries)
    BY <1>3 DEF RequestSet
  <2> QED
    BY <1>3, <2>1, EmptySeq
<1>5. q.id \in Ids
  <2>1. ~ \E j \in 1 .. 1 - 1 : q.plan[j] = "find"
    OBVIOUS
  <2> QED
    BY <1>1, <1>4, <2>1 DEF Knows
<1>6. NoRow \in RowSet
  BY DEF NoRow, RowSet, NoValue
<1> HIDE DEF q
<1>7. passwords' = [passwords EXCEPT ![q.id] = passwords[q.id]] /\ passwords[q.id] \in Nat
  BY <1>1, <1>2, <1>5
<1>8. gone' \subseteq Ids /\ \A k \in gone' : k \in gone \/ (k = q.id /\ NoRow = NoRow)
  BY <1>1, <1>2, <1>5
<1> QED
  BY <1>1, <1>2, <1>5, <1>6, <1>7, <1>8, UserStands

LEMMA SaveModelKeeps ==
  ASSUME AccountInv, NEW w \in unsaved, SaveModel(w)
  PROVE  AccountInv'
<1>1. /\ users \in [Ids -> RowSet] /\ lastCode \in 0 .. MaxWrites /\ requests \in [Requests -> RequestSet]
      /\ gone \subseteq Ids /\ unsaved \subseteq Ids \X Models /\ passwords \in [Ids -> Nat]
      /\ \A k \in Ids : Exists(k) => /\ users[k].name \in Names /\ users[k].mail \in Mails
                                     /\ users[k].password \in 1 .. MaxWrites
                                     /\ users[k].password = passwords[k]
      /\ \A k \in gone : ~Exists(k)
  BY KnowsIsIt, AccountParts DEF RowsAreWhole
<1>2. w[1] \in Ids /\ w[2] \in Models
  BY <1>1
<1> DEFINE n == w[1]
           new == IF Exists(n) THEN [users[n] EXCEPT !.model = w[2]] ELSE users[n]
<1>3. users' = [users EXCEPT ![n] = new]
  BY <1>1, <1>2 DEF SaveModel
<1>4. /\ new \in RowSet
      /\ new # NoRow => Exists(n)
      /\ Exists(n) => /\ new.name = users[n].name /\ new.mail = users[n].mail
                      /\ new.password = users[n].password
  <2>1. users[n] \in RowSet
    BY <1>1, <1>2
  <2>2. CASE Exists(n)
    BY <1>2, <2>1, <2>2 DEF RowSet
  <2>3. CASE ~Exists(n)
    BY <2>1, <2>3 DEF Exists
  <2> QED
    BY <2>2, <2>3
<1>5. /\ passwords' = [passwords EXCEPT ![n] = passwords[n]] /\ passwords[n] \in Nat
      /\ unsaved' \subseteq Ids \X Models /\ UNCHANGED <<codes, lastCode, cached, requests, gone>>
  BY <1>1, <1>2 DEF SaveModel
<1>6. n \in Ids
  BY <1>2
<1> HIDE DEF new, n
<1>7. new # NoRow => /\ n \notin gone /\ new.name \in Names /\ new.mail \in Mails
                     /\ new.password \in 1 .. MaxWrites /\ new.password = passwords[n]
  BY <1>1, <1>4, <1>6
<1> QED
  BY <1>1, <1>3, <1>4, <1>5, <1>6, <1>7, UserStands

\* Codes, caches and choices.
LEMMA OthersKeep ==
  ASSUME AccountInv,
         UNCHANGED <<users, requests, passwords, gone>>, lastCode' \in 0 .. MaxWrites,
         unsaved' \subseteq Ids \X Models,
         codes' \in [Mails -> Nat], cached' \in [Ids -> Models \cup {"none"}]
  PROVE  AccountInv'
<1>1. \A k \in Ids : Exists(k)' = Exists(k)
  BY DEF Exists
<1>2. gone \subseteq Ids
  BY AccountParts DEF RowsAreWhole
<1>3. RowsAreWhole' /\ RequestsKnowTheirRow'
  BY AccountParts DEF RowsAreWhole, RequestsKnowTheirRow
<1>4. AccountTypeOK'
  BY <1>1 DEF AccountInv, AccountTypeOK
<1>5. PasswordIsKept' /\ DeletedIsGone'
  BY <1>1, <1>2 DEF AccountInv, PasswordIsKept, DeletedIsGone
<1> QED
  BY <1>3, <1>4, <1>5 DEF AccountInv
LEMMA AccountsStay == AccountInv /\ [AccountNext]_accountVars => AccountInv'
<1> SUFFICES ASSUME AccountInv, [AccountNext]_accountVars PROVE AccountInv'
  OBVIOUS
<1>1. /\ codes \in [Mails -> Nat] /\ cached \in [Ids -> Models \cup {"none"}] /\ passwords \in [Ids -> Nat]
      /\ lastCode \in 0 .. MaxWrites /\ unsaved \subseteq Ids \X Models
  BY AccountParts DEF RowsAreWhole
<1>2. NoValue \in Nat
  BY DEF NoValue
<1>3. DOMAIN Plans = {"register", "admin_create", "admin_update", "update_user", "profile", "change",
                      "reset", "admin_reset", "admin_delete"}
  BY DEF Plans
<1>4. ASSUME UNCHANGED accountVars PROVE AccountInv'
  BY <1>1, <1>4, OthersKeep DEF accountVars
<1>5. ASSUME NEW r \in Requests, NEW name \in Names, NEW mail \in Mails,
             \/ Begin(r, "register", NoValue, name, mail, codes[mail])
             \/ Begin(r, "admin_create", NoValue, name, mail, NoValue)
             \/ Begin(r, "reset", NoValue, "none", mail, codes[mail])
             \/ \E id \in Ids : Exists(id) /\ ( \/ Begin(r, "admin_update", id, name, mail, NoValue)
                                                \/ Begin(r, "update_user", id, "none", mail, NoValue) )
      PROVE  AccountInv'
  <2>1. codes[mail] \in Nat /\ NoValue \in Ids \cup {NoValue} /\ "none" \in Names \cup {"none"}
    BY <1>1
  <2>2. CASE Begin(r, "register", NoValue, name, mail, codes[mail])
    BY <1>3, <2>1, <2>2, BeginKeeps
  <2>3. CASE Begin(r, "admin_create", NoValue, name, mail, NoValue)
    BY <1>2, <1>3, <2>1, <2>3, BeginKeeps
  <2>4. CASE Begin(r, "reset", NoValue, "none", mail, codes[mail])
    BY <1>3, <2>1, <2>4, BeginKeeps
  <2>5. ASSUME NEW id \in Ids, Begin(r, "admin_update", id, name, mail, NoValue) PROVE AccountInv'
    BY <1>2, <1>3, <2>5, BeginKeeps
  <2>6. ASSUME NEW id \in Ids, Begin(r, "update_user", id, "none", mail, NoValue) PROVE AccountInv'
    BY <1>2, <1>3, <2>6, BeginKeeps
  <2> QED
    BY <1>5, <2>2, <2>3, <2>4, <2>5, <2>6
<1>6. ASSUME NEW r \in Requests, NEW id \in Ids, NEW op \in {"profile", "change", "admin_reset", "admin_delete"},
             NEW code \in Nat, Begin(r, op, id, "none", "none", code)
      PROVE  AccountInv'
  BY <1>3, <1>6, BeginKeeps
<1>7. ASSUME NEW r \in Requests, NEW id \in Ids,
             \/ Begin(r, "profile", id, "none", "none", NoValue)
             \/ Begin(r, "change", id, "none", "none", passwords[id])
             \/ Begin(r, "admin_reset", id, "none", "none", NoValue)
             \/ Begin(r, "admin_delete", id, "none", "none", NoValue)
      PROVE  AccountInv'
  <2>1. passwords[id] \in Nat
    BY <1>1
  <2> QED
    BY <1>2, <1>6, <1>7, <2>1
<1>8. ASSUME NEW r \in Requests,
             \/ CheckName(r) \/ CheckMail(r) \/ ReadCode(r) \/ DropCode(r) \/ ReadUser(r)
             \/ FindByMail(r) \/ Backfill(r) \/ Create(r) \/ Write(r) \/ RemoveUser(r)
      PROVE  AccountInv'
  BY <1>8, QueryKeeps, CreateKeeps, WriteKeeps, RemoveKeeps
<1>9. ASSUME NEW mail \in Mails, SendEmailCode(mail) \/ CodeExpires(mail) PROVE AccountInv'
  <2>1. UNCHANGED <<users, cached, unsaved, requests, passwords, gone>>
    BY <1>9 DEF SendEmailCode, CodeExpires
  <2>2. lastCode' \in 0 .. MaxWrites /\ codes' \in [Mails -> Nat]
    BY <1>1, <1>2, <1>9, AccountBounds DEF SendEmailCode, CodeExpires
  <2> QED
    BY <1>1, <2>1, <2>2, OthersKeep
<1>10. ASSUME NEW id \in Ids, CacheExpires(id) PROVE AccountInv'
  BY <1>1, <1>10, OthersKeep DEF CacheExpires
<1>11. ASSUME NEW id \in Ids, NEW model \in Models, ChooseModel(id, model) PROVE AccountInv'
  BY <1>1, <1>11, OthersKeep DEF ChooseModel
<1>12. ASSUME NEW w \in unsaved, SaveModel(w) PROVE AccountInv'
  BY <1>12, SaveModelKeeps
<1> QED
  BY <1>4, <1>5, <1>7, <1>8, <1>9, <1>10, <1>11, <1>12 DEF AccountNext

-----------------------------------------------------------------------------
(* Tasks of an older program.                                              *)

\* Of a set of tasks there is a first one.
LEMMA FirstIsOne ==
  ASSUME NEW S \in SUBSET Legacy!Tasks, S # {}
  PROVE  Legacy!First(S) \in S
<1> DEFINE places == {Order[t] : t \in S}
<1>1. places \in SUBSET Nat /\ places # {}
  BY LegacyAssumption DEF Legacy!Tasks
<1>2. PICK x \in places : \A y \in places : x <= y
  BY <1>1, LeastNumber
<1>4. PICK t \in S : Order[t] = x
  OBVIOUS
<1>5. \A u \in S : Order[t] <= Order[u]
  BY <1>1, <1>2, <1>4
<1> QED
  BY <1>4, <1>5 DEF Legacy!First

\* A state of which the invariant holds, part by part.
LegacyParts ==
    /\ Legacy!Sound(plan) /\ Legacy!Numbered(plan, result)
    /\ saved # Legacy!None =>
          /\ saved = [plan |-> saved.plan, result |-> saved.result]
          /\ Legacy!Sound(saved.plan) /\ Legacy!Numbered(saved.plan, saved.result)
          /\ \A t \in Legacy!Tasks : saved.plan[t] # "running"
          /\ Legacy!Ready(saved.plan) = {} /\ Legacy!Waiting(saved.plan) # {}
    /\ legacyPc \in {"away", "loop", "batch", "saved", "ended"} /\ told \in {"nothing", "card", "answer", "error"}
    /\ batch \subseteq Legacy!Tasks /\ behind \in BOOLEAN
    /\ \A t \in Legacy!Tasks : t \in batch <=> (plan[t] = "running" /\ legacyPc = "batch")
    /\ legacyPc \in {"loop", "saved"} => \A t \in Legacy!Tasks : plan[t] # "running"
    /\ card # Legacy!None => Legacy!CardOf(card)
    /\ card # Legacy!None /\ saved # Legacy!None =>
          IF behind THEN Legacy!HasRun(card, saved.plan, saved.result)
          ELSE saved.plan[card[1]] = "waiting" /\ saved.result[card[1]].card = card[2]
    /\ legacyPc \in {"loop", "batch"} =>
          /\ card = answered /\ Legacy!CardOf(answered)
          /\ \/ Legacy!HasRun(answered, plan, result)
             \/ /\ result[answered[1]].card = answered[2] /\ plan[answered[1]] \in {"pending", "running"}
                /\ DependsOn[answered[1]] \subseteq Legacy!Finished(plan)
    /\ legacyPc = "saved" => Legacy!Waiting(plan) # {} /\ saved \in {Legacy!None, Legacy!Kept}
    /\ told = "answer" => legacyPc \in {"ended", "away"} /\ plan[Review] = "success"

\* A card behind the checkpoint starts nothing.
LEMMA BehindStartsNothing ==
  ASSUME Legacy!Sound(saved.plan), NEW c, Legacy!CardOf(c), Legacy!HasRun(c, saved.plan, saved.result)
  PROVE  Legacy!Resumed(c) = saved.plan
<1>1. c[1] \in Legacy!Tasks /\ saved.result[c[1]].card # c[2] /\ saved.plan = [t \in Legacy!Tasks |-> saved.plan[t]]
  BY DEF Legacy!CardOf, Legacy!HasRun, Legacy!Sound
<1>2. \A t \in Legacy!Tasks : c # <<t, saved.result[t].card>>
  <2>1. ASSUME NEW t \in Legacy!Tasks, c = <<t, saved.result[t].card>> PROVE FALSE
    <3>1. c[1] = t /\ c[2] = saved.result[t].card
      BY <2>1
    <3> QED
      BY <1>1, <3>1
  <2> QED
    BY <2>1
<1> QED
  BY <1>1, <1>2 DEF Legacy!Resumed

LEMMA LegacyByParts == Legacy!LegacyInv <=> LegacyParts
<1>1. ASSUME Legacy!LegacyInv PROVE LegacyParts
  <2>1. Legacy!LegacyTypeOK /\ Legacy!DependenciesHold /\ Legacy!CardIsSaved /\ Legacy!CheckpointStands
    BY <1>1 DEF Legacy!LegacyInv
  <2>2. card # Legacy!None /\ saved # Legacy!None =>
           IF behind THEN Legacy!HasRun(card, saved.plan, saved.result)
           ELSE saved.plan[card[1]] = "waiting" /\ saved.result[card[1]].card = card[2]
    BY <2>1 DEF Legacy!CardIsSaved, Legacy!CheckpointStands
  <2>3. told = "answer" => plan[Review] = "success"
    BY <2>1 DEF Legacy!DependenciesHold
  <2> QED
    BY <2>1, <2>2, <2>3 DEF LegacyParts, Legacy!LegacyTypeOK, Legacy!CheckpointStands
<1>2. ASSUME LegacyParts PROVE Legacy!LegacyInv
  <2>1. Legacy!LegacyTypeOK
    BY <1>2 DEF LegacyParts, Legacy!LegacyTypeOK, Legacy!Sound, Legacy!Numbered, Legacy!Results
  <2>2. Legacy!DependenciesHold
    BY <1>2 DEF LegacyParts, Legacy!DependenciesHold, Legacy!Sound, Legacy!Finished
  <2>3. Legacy!CardIsSaved
    <3>1. ASSUME card # Legacy!None, saved # Legacy!None, behind
          PROVE  Legacy!Resumed(card) = saved.plan /\ Legacy!Ready(saved.plan) = {} /\ Legacy!Waiting(saved.plan) # {}
      <4>1. Legacy!Sound(saved.plan) /\ Legacy!CardOf(card) /\ Legacy!HasRun(card, saved.plan, saved.result)
        BY <1>2, <3>1 DEF LegacyParts
      <4>2. Legacy!Ready(saved.plan) = {} /\ Legacy!Waiting(saved.plan) # {}
        BY <1>2, <3>1 DEF LegacyParts
      <4> QED
        BY <4>1, <4>2, BehindStartsNothing
    <3>2. card # Legacy!None /\ saved # Legacy!None /\ ~behind => saved.plan[card[1]] = "waiting" /\ saved.result[card[1]].card = card[2]
      BY <1>2 DEF LegacyParts
    <3> QED
      BY <3>1, <3>2 DEF Legacy!CardIsSaved
  <2>4. Legacy!CheckpointStands
    BY <1>2 DEF LegacyParts, Legacy!CheckpointStands
  <2> QED
    BY <2>1, <2>2, <2>3, <2>4 DEF Legacy!LegacyInv
<1> QED
  BY <1>1, <1>2

\* A plan some tasks of which changed, none of them one that had ended well.
LEMMA PlanStaysSound ==
  ASSUME NEW p, NEW q \in [Legacy!Tasks -> Legacy!Statuses], Legacy!Sound(p),
         \A t \in Legacy!Tasks : q[t] # p[t] =>
            /\ p[t] # "success"
            /\ q[t] \in {"running", "waiting", "success", "error"} => DependsOn[t] \subseteq Legacy!Finished(p)
  PROVE  Legacy!Sound(q) /\ Legacy!Finished(p) \subseteq Legacy!Finished(q)
<1>1. Legacy!Finished(p) \subseteq Legacy!Finished(q)
  BY DEF Legacy!Finished
<1> QED
  BY <1>1 DEF Legacy!Sound

LEMMA LegacyStarts == Legacy!LegacyInit => LegacyParts
<1> SUFFICES ASSUME Legacy!LegacyInit PROVE LegacyParts
  OBVIOUS
<1>1. PICK p \in [Legacy!Tasks -> {"pending", "waiting", "success", "error"}] :
          /\ Legacy!Waiting(p) # {}
          /\ \A t \in Legacy!Tasks : p[t] # "pending" => DependsOn[t] \subseteq Legacy!Finished(p)
          /\ Legacy!Ready(p) = {}
          /\ plan = p
          /\ result = [t \in Legacy!Tasks |-> [card |-> IF p[t] = "waiting" THEN 1 ELSE 0, round |-> 0]]
          /\ card = <<Legacy!First(Legacy!Waiting(p)), 1>>
  BY DEF Legacy!LegacyInit
<1>2. saved = [plan |-> p, result |-> result] /\ legacyPc = "away" /\ batch = {} /\ told = "card" /\ behind = FALSE
  BY <1>1 DEF Legacy!LegacyInit
<1>3. Legacy!Sound(p) /\ \A t \in Legacy!Tasks : p[t] # "running"
  <2>1. p \in [Legacy!Tasks -> Legacy!Statuses]
    BY DEF Legacy!Statuses
  <2> QED
    BY <1>1, <2>1 DEF Legacy!Sound
<1>4. Legacy!Numbered(p, result)
  <2>1. 1 \in 0 .. MaxCards /\ 0 \in 0 .. MaxCards
    BY LegacyAssumption
  <2>2. result \in [Legacy!Tasks -> Legacy!Results]
    BY <1>1, <2>1 DEF Legacy!Results
  <2> QED
    BY <1>1, <2>2 DEF Legacy!Numbered
<1>5. Legacy!First(Legacy!Waiting(p)) \in Legacy!Tasks /\ p[Legacy!First(Legacy!Waiting(p))] = "waiting"
  BY <1>1, FirstIsOne DEF Legacy!Waiting
<1>6. card[1] = Legacy!First(Legacy!Waiting(p)) /\ card[2] = 1 /\ Legacy!CardOf(card) /\ result[card[1]].card = 1
  BY <1>1, <1>5 DEF Legacy!CardOf
<1>7. saved.plan = p /\ saved.result = result
  BY <1>2
<1> QED
  BY <1>1, <1>2, <1>3, <1>4, <1>5, <1>6, <1>7 DEF LegacyParts

LEMMA ResumeKeeps ==
  ASSUME LegacyParts, NEW accepted \in BOOLEAN, Legacy!Resume(accepted)
  PROVE  LegacyParts'
<1>1. legacyPc = "away" /\ card # Legacy!None /\ answered' = card /\ UNCHANGED <<saved, card, behind, parallel, batch>>
  BY DEF Legacy!Resume
<1>2. Legacy!CardOf(card)
  BY <1>1 DEF LegacyParts
<1>3. CASE saved = Legacy!None \/ ~accepted
  <2>1. legacyPc' = "ended" /\ told' = "error" /\ UNCHANGED <<plan, result>>
    BY <1>3 DEF Legacy!Resume
  <2> QED
    BY <1>1, <2>1 DEF LegacyParts
<1>4. CASE saved # Legacy!None /\ accepted
  <2>1. legacyPc' = "loop" /\ told' = "nothing" /\ result' = saved.result /\ plan' = Legacy!Resumed(card)
    BY <1>4 DEF Legacy!Resume
  <2>2. Legacy!Sound(saved.plan) /\ Legacy!Numbered(saved.plan, saved.result) /\ \A t \in Legacy!Tasks : saved.plan[t] # "running"
    BY <1>4 DEF LegacyParts
  <2>3. batch = {} /\ behind \in BOOLEAN
    BY <1>1 DEF LegacyParts
  <2>4. CASE behind
    <3>1. Legacy!HasRun(card, saved.plan, saved.result)
      BY <1>1, <1>4, <2>4 DEF LegacyParts
    <3>2. plan' = saved.plan
      BY <1>2, <2>1, <2>2, <3>1, BehindStartsNothing
    <3> QED
      BY <1>1, <1>2, <1>4, <2>1, <2>2, <2>3, <3>1, <3>2 DEF LegacyParts
  <2>5. CASE ~behind
    <3>1. saved.plan[card[1]] = "waiting" /\ saved.result[card[1]].card = card[2]
      BY <1>1, <1>4, <2>5 DEF LegacyParts
    <3>2. \A t \in Legacy!Tasks : plan'[t] = IF t = card[1] THEN "pending" ELSE saved.plan[t]
      <4>1. ASSUME NEW t \in Legacy!Tasks PROVE card = <<t, saved.result[t].card>> <=> t = card[1]
        <5>1. card = <<card[1], card[2]>>
          BY <1>2 DEF Legacy!CardOf
        <5>2. ASSUME card = <<t, saved.result[t].card>> PROVE t = card[1]
          BY <5>2
        <5> QED
          BY <3>1, <5>1, <5>2
      <4> QED
        BY <2>1, <4>1 DEF Legacy!Resumed
    <3>3. plan' \in [Legacy!Tasks -> Legacy!Statuses]
      BY <2>1, <2>2 DEF Legacy!Resumed, Legacy!Sound, Legacy!Statuses
    <3>4. Legacy!Sound(plan') /\ Legacy!Finished(saved.plan) \subseteq Legacy!Finished(plan')
      <4>1. \A t \in Legacy!Tasks : plan'[t] # saved.plan[t] => t = card[1] /\ plan'[t] = "pending"
        BY <3>2
      <4> QED
        BY <2>2, <3>1, <3>3, <4>1, PlanStaysSound
    <3>5. Legacy!Numbered(plan', result')
      BY <2>1, <2>2, <3>2 DEF Legacy!Numbered
    <3>6. DependsOn[card[1]] \subseteq Legacy!Finished(plan') /\ card[1] \in Legacy!Tasks
      BY <1>2, <2>2, <3>1, <3>4 DEF Legacy!Sound, Legacy!CardOf
    <3>7. \A t \in Legacy!Tasks : plan'[t] # "running"
      BY <2>2, <3>2
    <3>8. plan'[answered'[1]] = "pending" /\ result'[answered'[1]].card = answered'[2]
          /\ DependsOn[answered'[1]] \subseteq Legacy!Finished(plan')
      BY <1>1, <2>1, <3>1, <3>2, <3>6
    <3> QED
      BY <1>1, <1>2, <1>4, <2>1, <2>3, <3>4, <3>5, <3>7, <3>8 DEF LegacyParts
  <2> QED
    BY <2>3, <2>4, <2>5
<1> QED
  BY <1>3, <1>4

LEMMA RunTasksKeeps ==
  ASSUME LegacyParts, Legacy!RunTasks
  PROVE  LegacyParts'
<1>1. /\ legacyPc = "loop" /\ Legacy!Ready(plan) # {} /\ legacyPc' = "batch"
      /\ plan' = [t \in Legacy!Tasks |-> IF t \in batch' THEN "running" ELSE plan[t]]
      /\ UNCHANGED <<saved, card, behind, parallel, result, answered, told>>
  BY DEF Legacy!RunTasks
<1>2. batch' \subseteq Legacy!Ready(plan)
  <2>1. Legacy!Ready(plan) \in SUBSET Legacy!Tasks
    BY DEF Legacy!Ready
  <2>2. Legacy!First(Legacy!Ready(plan)) \in Legacy!Ready(plan)
    BY <1>1, <2>1, FirstIsOne
  <2> QED
    BY <2>2 DEF Legacy!RunTasks
<1>3. \A t \in batch' : t \in Legacy!Tasks /\ plan[t] = "pending" /\ DependsOn[t] \subseteq Legacy!Finished(plan)
  BY <1>2 DEF Legacy!Ready
<1>4. Legacy!Sound(plan) /\ Legacy!Numbered(plan, result) /\ \A t \in Legacy!Tasks : plan[t] # "running"
  BY <1>1 DEF LegacyParts
<1>5. plan' \in [Legacy!Tasks -> Legacy!Statuses]
  BY <1>1, <1>4 DEF Legacy!Sound, Legacy!Statuses
<1>6. Legacy!Sound(plan') /\ Legacy!Finished(plan) \subseteq Legacy!Finished(plan')
  BY <1>1, <1>3, <1>4, <1>5, PlanStaysSound
<1>7. \A t \in Legacy!Tasks : t \in batch' <=> plan'[t] = "running"
  BY <1>1, <1>4
<1>8. told # "answer"
  BY <1>1 DEF LegacyParts
<1>9. Legacy!Numbered(plan', result')
  BY <1>1, <1>4 DEF Legacy!Numbered
<1>10. /\ card = answered /\ Legacy!CardOf(answered)
       /\ \/ Legacy!HasRun(answered, plan, result)
          \/ /\ result[answered[1]].card = answered[2] /\ plan[answered[1]] \in {"pending", "running"}
             /\ DependsOn[answered[1]] \subseteq Legacy!Finished(plan)
  BY <1>1 DEF LegacyParts
<1>11. \/ Legacy!HasRun(answered, plan', result)
       \/ /\ result[answered[1]].card = answered[2] /\ plan'[answered[1]] \in {"pending", "running"}
          /\ DependsOn[answered[1]] \subseteq Legacy!Finished(plan')
  <2>1. answered[1] \in Legacy!Tasks
    BY <1>10 DEF Legacy!CardOf
  <2>2. CASE Legacy!HasRun(answered, plan, result)
    <3>1. plan'[answered[1]] = plan[answered[1]]
      BY <1>1, <1>3, <2>1, <2>2 DEF Legacy!HasRun
    <3> QED
      BY <2>2, <3>1 DEF Legacy!HasRun
  <2>3. CASE ~Legacy!HasRun(answered, plan, result)
    <3>1. plan'[answered[1]] \in {"pending", "running"}
      BY <1>1, <1>10, <2>1, <2>3
    <3> QED
      BY <1>6, <1>10, <2>3, <3>1
  <2> QED
    BY <2>2, <2>3
<1> QED
  BY <1>1, <1>3, <1>6, <1>7, <1>8, <1>9, <1>10, <1>11 DEF LegacyParts

LEMMA TaskReturnsKeeps ==
  ASSUME LegacyParts, NEW t \in Legacy!Tasks, NEW outcome \in {"success", "error", "waiting"}, Legacy!TaskReturns(t, outcome)
  PROVE  LegacyParts'
<1> DEFINE mark == [card |-> IF outcome = "waiting" THEN result[t].card + 1 ELSE 0, round |-> result[t].round + 1]
<1>1. /\ legacyPc = "batch" /\ t \in batch /\ outcome = "waiting" => result[t].card < MaxCards
  BY DEF Legacy!TaskReturns
<1>2. /\ legacyPc = "batch" /\ t \in batch
      /\ plan' = [plan EXCEPT ![t] = outcome] /\ batch' = batch \ {t}
      /\ result' = [result EXCEPT ![t] = mark]
      /\ legacyPc' = IF batch' = {} THEN "loop" ELSE "batch"
      /\ UNCHANGED <<saved, card, behind, parallel, answered, told>>
  BY DEF Legacy!TaskReturns
<1>3. plan[t] = "running" /\ Legacy!Sound(plan) /\ plan \in [Legacy!Tasks -> Legacy!Statuses] /\ result[t] \in Legacy!Results
      /\ result \in [Legacy!Tasks -> Legacy!Results] /\ Legacy!Numbered(plan, result)
  BY <1>2 DEF LegacyParts, Legacy!Sound, Legacy!Numbered
<1>4. mark \in Legacy!Results /\ (outcome = "waiting" => mark.card # 0) /\ mark.card \in {0, result[t].card + 1}
  <2>1. result[t].card \in 0 .. MaxCards /\ result[t].round \in Nat
    BY <1>3 DEF Legacy!Results
  <2>2. outcome = "waiting" => result[t].card + 1 \in 0 .. MaxCards /\ result[t].card + 1 # 0
    BY <1>1, <1>2, <2>1, LegacyAssumption
  <2>3. 0 \in 0 .. MaxCards /\ result[t].round + 1 \in Nat
    BY <2>1, LegacyAssumption
  <2> QED
    BY <2>2, <2>3 DEF Legacy!Results
<1> HIDE DEF mark
<1>5. plan' \in [Legacy!Tasks -> Legacy!Statuses] /\ \A u \in Legacy!Tasks : plan'[u] = IF u = t THEN outcome ELSE plan[u]
  BY <1>2, <1>3 DEF Legacy!Statuses
<1>6. DependsOn[t] \subseteq Legacy!Finished(plan)
  BY <1>3 DEF Legacy!Sound
<1>7. Legacy!Sound(plan') /\ Legacy!Finished(plan) \subseteq Legacy!Finished(plan')
  BY <1>3, <1>5, <1>6, PlanStaysSound
<1>8. \A u \in Legacy!Tasks : u \in batch' <=> plan'[u] = "running"
  BY <1>2, <1>5 DEF LegacyParts
<1>9. /\ result' \in [Legacy!Tasks -> Legacy!Results]
      /\ \A u \in Legacy!Tasks : result'[u] = IF u = t THEN mark ELSE result[u]
  BY <1>2, <1>3, <1>4
<1>10. told # "answer" /\ batch' \subseteq Legacy!Tasks
  BY <1>2 DEF LegacyParts
<1>11. Legacy!Numbered(plan', result')
  BY <1>3, <1>4, <1>5, <1>9 DEF Legacy!Numbered
<1>12. /\ card = answered /\ Legacy!CardOf(answered)
       /\ \/ Legacy!HasRun(answered, plan, result)
          \/ /\ result[answered[1]].card = answered[2] /\ plan[answered[1]] \in {"pending", "running"}
             /\ DependsOn[answered[1]] \subseteq Legacy!Finished(plan)
  BY <1>2 DEF LegacyParts
<1>13. \/ Legacy!HasRun(answered, plan', result')
       \/ /\ result'[answered[1]].card = answered[2] /\ plan'[answered[1]] \in {"pending", "running"}
          /\ DependsOn[answered[1]] \subseteq Legacy!Finished(plan')
  <2>1. answered[1] \in Legacy!Tasks /\ answered[2] \in Nat \ {0}
    BY <1>12 DEF Legacy!CardOf
  <2>2. CASE answered[1] # t
    <3>1. plan'[answered[1]] = plan[answered[1]] /\ result'[answered[1]] = result[answered[1]]
      BY <1>5, <1>9, <2>1, <2>2
    <3> QED
      BY <1>7, <1>12, <3>1 DEF Legacy!HasRun
  <2>3. CASE answered[1] = t
    <3>1. result[t].card = answered[2]
      BY <1>3, <1>12, <2>3 DEF Legacy!HasRun
    <3>2. plan'[t] = outcome /\ result'[t] = mark
      BY <1>5, <1>9
    <3>3. mark.card # answered[2]
      BY <1>4, <2>1, <3>1
    <3> QED
      BY <2>3, <3>2, <3>3 DEF Legacy!HasRun
  <2> QED
    BY <2>2, <2>3
<1> QED
  BY <1>2, <1>7, <1>8, <1>10, <1>11, <1>12, <1>13 DEF LegacyParts

LEMMA LegacyEndsKeep ==
  ASSUME LegacyParts, Legacy!Fail \/ Legacy!Complete \/ Legacy!Expire \/ Legacy!GiveUp \/ Legacy!ClearCard \/ UNCHANGED legacyVars
  PROVE  LegacyParts'
<1>1. ASSUME Legacy!Fail PROVE LegacyParts'
  <2>1. /\ legacyPc = "loop" /\ legacyPc' = "ended" /\ told' = "error"
        /\ plan' = [t \in Legacy!Tasks |-> IF plan[t] = "pending" THEN "canceled" ELSE plan[t]]
        /\ UNCHANGED <<saved, card, behind, parallel, result, batch, answered>>
    BY <1>1 DEF Legacy!Fail
  <2>2. Legacy!Sound(plan) /\ Legacy!Numbered(plan, result) /\ \A t \in Legacy!Tasks : plan[t] # "running"
    BY <2>1 DEF LegacyParts
  <2>3. plan' \in [Legacy!Tasks -> Legacy!Statuses]
    BY <2>1, <2>2 DEF Legacy!Sound, Legacy!Statuses
  <2>4. Legacy!Sound(plan') /\ Legacy!Numbered(plan', result')
    BY <2>1, <2>2, <2>3, PlanStaysSound DEF Legacy!Numbered
  <2>5. batch = {} /\ \A t \in Legacy!Tasks : plan'[t] # "running"
    BY <2>1, <2>2 DEF LegacyParts
  <2> QED
    BY <2>1, <2>4, <2>5 DEF LegacyParts
<1>2. ASSUME Legacy!Complete PROVE LegacyParts'
  <2>1. /\ legacyPc = "loop" /\ legacyPc' = "ended" /\ told' = "answer" /\ saved' \in {saved, Legacy!None} /\ Legacy!Finished(plan) = Legacy!Tasks
        /\ UNCHANGED <<card, behind, parallel, plan, result, batch, answered>>
    BY <1>2 DEF Legacy!Complete
  <2>2. plan[Review] = "success"
    BY <2>1, LegacyAssumption DEF Legacy!Finished, Legacy!Tasks
  <2>3. batch = {}
    BY <2>1 DEF LegacyParts
  <2>4. CASE saved' = saved
    BY <2>1, <2>2, <2>3, <2>4 DEF LegacyParts
  <2>5. CASE saved' = Legacy!None
    BY <2>1, <2>2, <2>3, <2>5 DEF LegacyParts
  <2> QED
    BY <2>1, <2>4, <2>5
<1>3. ASSUME Legacy!Expire PROVE LegacyParts'
  BY <1>3 DEF Legacy!Expire, LegacyParts
<1>4. ASSUME Legacy!GiveUp PROVE LegacyParts'
  BY <1>4 DEF Legacy!GiveUp, LegacyParts
<1>5. ASSUME Legacy!ClearCard PROVE LegacyParts'
  <2>1. /\ legacyPc = "ended" /\ legacyPc' = "away" /\ card' \in {card, Legacy!None}
        /\ UNCHANGED <<saved, behind, parallel, plan, result, batch, answered, told>>
    BY <1>5 DEF Legacy!ClearCard
  <2>2. batch = {}
    BY <2>1 DEF LegacyParts
  <2>3. CASE card' = card
    BY <2>1, <2>2, <2>3 DEF LegacyParts
  <2>4. CASE card' = Legacy!None
    BY <2>1, <2>2, <2>4 DEF LegacyParts
  <2> QED
    BY <2>1, <2>3, <2>4
<1>6. ASSUME UNCHANGED legacyVars PROVE LegacyParts'
  BY <1>6 DEF legacyVars, LegacyParts, Legacy!Kept
<1> QED
  BY <1>1, <1>2, <1>3, <1>4, <1>5, <1>6

\* A run saves only after the task whose card was answered.
LEMMA SaveWaitingKeeps ==
  ASSUME LegacyParts, Legacy!SaveWaiting
  PROVE  LegacyParts'
<1>1. /\ legacyPc = "loop" /\ Legacy!Ready(plan) = {} /\ Legacy!Waiting(plan) # {}
      /\ told' = IF legacyPc' = "ended" THEN "error" ELSE told
      /\ UNCHANGED <<card, parallel, plan, result, batch, answered>>
  BY DEF Legacy!SaveWaiting
<1>2. /\ told \in {"nothing", "card", "error"} /\ batch = {} /\ card = answered /\ Legacy!CardOf(card)
      /\ Legacy!Sound(plan) /\ Legacy!Numbered(plan, result) /\ \A t \in Legacy!Tasks : plan[t] # "running"
  BY <1>1 DEF LegacyParts
<1>3. Legacy!HasRun(card, plan, result)
  <2>1. SUFFICES ASSUME ~Legacy!HasRun(card, plan, result) PROVE FALSE
    OBVIOUS
  <2>2. plan[card[1]] = "pending" /\ DependsOn[card[1]] \subseteq Legacy!Finished(plan) /\ card[1] \in Legacy!Tasks
    BY <1>1, <1>2, <2>1 DEF LegacyParts, Legacy!CardOf
  <2> QED
    BY <1>1, <2>2 DEF Legacy!Ready
<1>4. CASE saved' = Legacy!Kept /\ behind' = TRUE /\ legacyPc' \in {"saved", "ended"}
  <2>1. saved' = [plan |-> plan, result |-> result] /\ saved'.plan = plan /\ saved'.result = result /\ saved' = Legacy!Kept'
    BY <1>1, <1>4 DEF Legacy!Kept
  <2>2. told' \in {"nothing", "card", "error"}
    BY <1>1, <1>2
  <2> QED
    BY <1>1, <1>2, <1>3, <1>4, <2>1, <2>2 DEF LegacyParts
<1>5. CASE UNCHANGED <<saved, behind>> /\ legacyPc' = "ended"
  BY <1>1, <1>2, <1>5 DEF LegacyParts
<1> QED
  BY <1>4, <1>5 DEF Legacy!SaveWaiting

LEMMA ShowCardKeeps ==
  ASSUME LegacyParts, Legacy!ShowCard
  PROVE  LegacyParts'
<1> DEFINE t == Legacy!First(Legacy!Waiting(plan))
<1>1. /\ legacyPc = "saved" /\ legacyPc' = "away" /\ UNCHANGED <<saved, parallel, plan, result, batch, answered>>
  BY DEF Legacy!ShowCard
<1>2. /\ batch = {} /\ Legacy!Waiting(plan) # {} /\ saved \in {Legacy!None, Legacy!Kept}
      /\ Legacy!Numbered(plan, result) /\ \A u \in Legacy!Tasks : plan[u] # "running"
  BY <1>1 DEF LegacyParts
<1>3. t \in Legacy!Tasks /\ plan[t] = "waiting"
  <2>1. Legacy!Waiting(plan) \in SUBSET Legacy!Tasks
    BY DEF Legacy!Waiting
  <2>2. t \in Legacy!Waiting(plan)
    BY <1>2, <2>1, FirstIsOne
  <2> QED
    BY <2>2 DEF Legacy!Waiting
<1>4. CASE card' = <<t, result[t].card>> /\ behind' = FALSE /\ told' \in {"card", "error"}
  <2> HIDE DEF t
  <2>1. card'[1] = t /\ card'[2] = result[t].card /\ card' = <<card'[1], card'[2]>>
    BY <1>4
  <2>2. result[t].card \in Nat \ {0}
    BY <1>2, <1>3, LegacyAssumption DEF Legacy!Numbered, Legacy!Results
  <2>3. Legacy!CardOf(card')
    BY <1>3, <2>1, <2>2 DEF Legacy!CardOf
  <2>4. saved' # Legacy!None => saved'.plan = plan /\ saved'.result = result
    <3>1. Legacy!Kept.plan = plan /\ Legacy!Kept.result = result
      BY DEF Legacy!Kept
    <3> QED
      BY <1>1, <1>2, <3>1
  <2>5. saved' # Legacy!None => saved'.plan[card'[1]] = "waiting" /\ saved'.result[card'[1]].card = card'[2]
    BY <1>3, <2>1, <2>4
  <2> QED
    BY <1>1, <1>2, <1>4, <2>3, <2>5 DEF LegacyParts
<1>5. CASE told' = "error" /\ UNCHANGED <<card, behind>>
  BY <1>1, <1>2, <1>5 DEF LegacyParts
<1> QED
  BY <1>4, <1>5 DEF Legacy!ShowCard

LEMMA CutOffKeeps ==
  ASSUME LegacyParts, Legacy!CutOff
  PROVE  LegacyParts'
<1>1. /\ batch' = {} /\ legacyPc' = "away" /\ told' = "nothing" /\ card' \in {card, Legacy!None}
      /\ UNCHANGED <<saved, behind, parallel, answered>>
  BY DEF Legacy!CutOff
<1>2. Legacy!Sound(plan') /\ Legacy!Numbered(plan', result')
  <2>1. CASE saved = Legacy!None
    <3>1. plan' = plan /\ result' = result
      BY <2>1 DEF Legacy!CutOff
    <3> QED
      BY <3>1 DEF LegacyParts
  <2>2. CASE saved # Legacy!None
    <3>1. plan' = saved.plan /\ result' = saved.result
      BY <2>2 DEF Legacy!CutOff
    <3> QED
      BY <2>2, <3>1 DEF LegacyParts
  <2> QED
    BY <2>1, <2>2
<1>3. CASE card' = card
  BY <1>1, <1>2, <1>3 DEF LegacyParts
<1>4. CASE card' = Legacy!None
  BY <1>1, <1>2, <1>4 DEF LegacyParts
<1> QED
  BY <1>1, <1>3, <1>4

LEMMA LegacyStays == LegacyParts /\ [Legacy!LegacyNext]_legacyVars => LegacyParts'
<1> SUFFICES ASSUME LegacyParts, [Legacy!LegacyNext]_legacyVars PROVE LegacyParts'
  OBVIOUS
<1>1. CASE Legacy!LegacyNext
  <2>1. ASSUME Legacy!RunTasks \/ Legacy!SaveWaiting \/ Legacy!ShowCard \/ Legacy!CutOff PROVE LegacyParts'
    BY <2>1, RunTasksKeeps, SaveWaitingKeeps, ShowCardKeeps, CutOffKeeps
  <2>2. ASSUME Legacy!GiveUp \/ Legacy!Fail \/ Legacy!Complete \/ Legacy!ClearCard \/ Legacy!Expire PROVE LegacyParts'
    BY <2>2, LegacyEndsKeep
  <2>3. ASSUME NEW accepted \in BOOLEAN, Legacy!Resume(accepted) PROVE LegacyParts'
    BY <2>3, ResumeKeeps
  <2>4. ASSUME NEW t \in Legacy!Tasks, NEW outcome \in {"success", "error", "waiting"}, Legacy!TaskReturns(t, outcome) PROVE LegacyParts'
    BY <2>4, TaskReturnsKeeps
  <2> QED
    BY <1>1, <2>1, <2>2, <2>3, <2>4 DEF Legacy!LegacyNext
<1> QED
  BY <1>1, LegacyEndsKeep

-----------------------------------------------------------------------------
(* Runs of an agent.                                                       *)

AgentPieces == [round : Nat, number : Nat, text : Texts \cup {"break", "passages"}]

\* No piece of a round follows text that does not end its paragraph.
Apart(s) == \A i \in 2..Len(s) : s[i].round > 0 => s[i - 1].text \in {"paragraph", "break"}

\* A run has rounds enough for a search, a question, a search and the answer.
LEMMA RoundsSuffice ==
    /\ Agent!AgentIterations \in Nat
    /\ Agent!AgentIterations >= 2
    /\ Agent!Pausing # {} => Agent!AgentIterations >= 4
<1>. DEFINE need == 2 + IF Agent!Pausing # {} THEN 2 ELSE 0
<1>1. need \in Nat /\ need >= 2 /\ (Agent!Pausing # {} => need >= 4)
  OBVIOUS
<1>2. Agent!AgentIterations = IF Configured >= need THEN Configured ELSE need
  BY DEF Agent!AgentIterations, need
<1>. HIDE DEF need
<1>. QED  BY <1>1, <1>2, AgentAssumption

\* The text before a piece ends a paragraph if the piece before it does.
LEMMA EndOfPrefix ==
  ASSUME NEW s \in Seq(AgentPieces), NEW i \in 2..Len(s)
  PROVE  Agent!EndsParagraph(SubSeq(s, 1, i - 1)) <=> s[i - 1].text \in {"paragraph", "break"}
<1>. DEFINE u == SubSeq(s, 1, i - 1)
<1>1. /\ Len(u) = i - 1
      /\ \A j \in 1..(i - 1) : u[j] = s[j]
  BY SMT
<1>2. i - 1 \in 1..(i - 1) /\ i - 1 > 0
  OBVIOUS
<1>3. u[i - 1] = s[i - 1]
  BY <1>1, <1>2
<1>. HIDE DEF u
<1>4. Agent!EndsParagraph(u) <=> u[Len(u)].text \in {"paragraph", "break"}
  BY <1>1, <1>2 DEF Agent!EndsParagraph
<1>5. Agent!EndsParagraph(u) <=> s[i - 1].text \in {"paragraph", "break"}
  BY <1>1, <1>3, <1>4
<1>. QED  BY <1>5 DEF u

LEMMA ApartIsShown ==
  ASSUME answer \in Seq(AgentPieces), answer = agentShown
  PROVE  Agent!AnswerIsAsShown <=> Apart(answer)
<1>1. \A i \in 2..Len(answer) :
         Agent!EndsParagraph(SubSeq(answer, 1, i - 1)) <=> answer[i - 1].text \in {"paragraph", "break"}
  BY EndOfPrefix
<1>. QED  BY <1>1 DEF Agent!AnswerIsAsShown, Apart

\* The same, of the state after a step.
LEMMA ApartIsShownNext ==
  ASSUME answer' \in Seq(AgentPieces), answer' = agentShown', Apart(answer')
  PROVE  Agent!AnswerIsAsShown'
<1>. DEFINE s == answer'
<1>1. s \in Seq(AgentPieces)
  OBVIOUS
<1>. HIDE DEF s
<1>2. \A i \in 2..Len(s) :
         Agent!EndsParagraph(SubSeq(s, 1, i - 1)) <=> s[i - 1].text \in {"paragraph", "break"}
  BY <1>1, EndOfPrefix
<1>3. \A i \in 2..Len(s) : s[i].round > 0 => Agent!EndsParagraph(SubSeq(s, 1, i - 1))
  BY <1>2 DEF Apart, s
<1>. QED  BY <1>3 DEF Agent!AnswerIsAsShown, s, Agent!EndsParagraph

\* What a piece of a round adds stands apart.
LEMMA ApartGrows ==
  ASSUME NEW s \in Seq(AgentPieces), Apart(s), NEW p \in AgentPieces,
         s = <<>> \/ p.round = 0 \/ Agent!EndsParagraph(s)
  PROVE  Append(s, p) \in Seq(AgentPieces) /\ Apart(Append(s, p))
<1>. DEFINE u == Append(s, p)
<1>1. /\ u \in Seq(AgentPieces)
      /\ Len(u) = Len(s) + 1
      /\ u[Len(s) + 1] = p
      /\ \A j \in 1..Len(s) : u[j] = s[j]
      /\ Len(s) \in Nat
  OBVIOUS
<1>2. ASSUME NEW i \in 2..Len(u), u[i].round > 0
      PROVE  u[i - 1].text \in {"paragraph", "break"}
  <2>1. CASE i = Len(s) + 1
    <3>1. s # <<>> /\ i - 1 = Len(s) /\ Len(s) \in 1..Len(s)
      BY <2>1, <1>1, <1>2
    <3>2. u[i] = p
      BY <2>1, <1>1
    <3>3. p.round # 0
      BY <3>2, <1>2 DEF AgentPieces
    <3>4. Agent!EndsParagraph(s)
      BY <3>1, <3>3
    <3>5. u[i - 1] = s[Len(s)]
      BY <3>1, <1>1
    <3>. QED  BY <3>4, <3>5 DEF Agent!EndsParagraph
  <2>2. CASE i # Len(s) + 1
    <3>1. i \in 2..Len(s) /\ i \in 1..Len(s) /\ i - 1 \in 1..Len(s)
      BY <2>2, <1>1, <1>2
    <3>2. u[i] = s[i] /\ u[i - 1] = s[i - 1]
      BY <3>1, <1>1
    <3>. QED  BY <3>1, <3>2, <1>2 DEF Apart
  <2>. QED  BY <2>1, <2>2
<1>. HIDE DEF u
<1>3. u \in Seq(AgentPieces) /\ Apart(u)
  BY <1>1, <1>2 DEF Apart
<1>. QED  BY <1>3 DEF u

\* So does the text of a round, with a blank line before it where it needs one.
LEMMA SegmentsStandApart ==
  ASSUME answer \in Seq(AgentPieces), Apart(answer), NEW text \in Texts,
         Agent!Piece(text) \in AgentPieces
  PROVE  /\ answer \o Agent!Segment(text) \in Seq(AgentPieces)
         /\ Apart(answer \o Agent!Segment(text))
<1>. DEFINE p == Agent!Piece(text)
            b == Agent!Separator
<1>1. b \in AgentPieces /\ b.round = 0 /\ b.text = "break"
  BY DEF Agent!Separator, AgentPieces
<1>2. p \in AgentPieces
  OBVIOUS
<1>. HIDE DEF p, b
<1>3. CASE answer = <<>> \/ Agent!EndsParagraph(answer)
  <2>1. answer \o Agent!Segment(text) = answer \o <<p>>
    BY <1>3 DEF Agent!Segment, p
  <2>2. answer \o <<p>> = Append(answer, p)
    BY <1>2
  <2>3. Append(answer, p) \in Seq(AgentPieces) /\ Apart(Append(answer, p))
    BY <1>2, <1>3, ApartGrows
  <2>. QED  BY <2>1, <2>2, <2>3
<1>4. CASE ~(answer = <<>> \/ Agent!EndsParagraph(answer))
  <2>. DEFINE u == Append(answer, b)
  <2>1. u \in Seq(AgentPieces) /\ Apart(u)
    BY <1>1, ApartGrows
  <2>2. Len(u) = Len(answer) + 1 /\ u[Len(answer) + 1] = b /\ Len(answer) \in Nat
    BY <1>1
  <2>3. answer \o Agent!Segment(text) = answer \o <<b, p>>
    BY <1>4 DEF Agent!Segment, p, b
  <2>4. answer \o <<b, p>> = Append(u, p)
    BY <1>1, <1>2
  <2>. HIDE DEF u
  <2>5. Agent!EndsParagraph(u)
    BY <2>2, <1>1 DEF Agent!EndsParagraph
  <2>6. Append(u, p) \in Seq(AgentPieces) /\ Apart(Append(u, p))
    BY <2>1, <2>5, <1>2, ApartGrows
  <2>. QED  BY <2>3, <2>4, <2>6
<1>. QED  BY <1>3, <1>4

\* The passages of a search that stand in for an answer do so, too.
LEMMA PassagesStandApart ==
  ASSUME answer \in Seq(AgentPieces), Apart(answer)
  PROVE  /\ answer \o Agent!Fallback \in Seq(AgentPieces)
         /\ Apart(answer \o Agent!Fallback)
<1>. DEFINE p == [round |-> 0, number |-> 0, text |-> "passages"]
<1>1. p \in AgentPieces /\ p.round = 0
  BY DEF AgentPieces
<1>2. Agent!Fallback = <<p>> \/ Agent!Fallback = <<>>
  BY DEF Agent!Fallback
<1>. HIDE DEF p
<1>3. CASE Agent!Fallback = <<p>>
  <2>1. answer \o Agent!Fallback = Append(answer, p)
    BY <1>1, <1>3
  <2>. QED  BY <2>1, <1>1, ApartGrows
<1>4. CASE Agent!Fallback = <<>>
  BY <1>4
<1>. QED  BY <1>2, <1>3, <1>4

\* The run keeps what a step leaves alone.
LEMMA AgentTextStays ==
  ASSUME Agent!AgentInv, UNCHANGED <<answer, agentShown>>
  PROVE  Agent!AnswerIsAsShown'
BY DEF Agent!AgentInv, Agent!AnswerIsAsShown, Agent!TextIsWhole, Agent!EndsParagraph

LEMMA AgentToolsKnown == Agent!NoTarget = [tool |-> Agent!NoTarget.tool, verdict |-> Agent!NoTarget.verdict]
                         /\ Agent!NoTarget.verdict = "none"
BY DEF Agent!NoTarget

LEMMA OneEnd == Len(<<>>) <= 1 /\ \A e : Len(<<e>>) <= 1 /\ <<e>> # <<>>
OBVIOUS

\* An attempt begins without text and without tools.
LEMMA FreshIsEmpty ==
  ASSUME NEW n \in Nat
  PROVE  /\ Agent!Fresh(n) \in [number : Nat, output : BOOLEAN, text : Texts \cup {"none"},
                                 asked : {{}} \cup Batches]
         /\ Agent!Fresh(n).number = n /\ Agent!Fresh(n).text = "none"
BY DEF Agent!Fresh

LEMMA AgentStarts == Agent!AgentInit => Agent!AgentInv
<1>. SUFFICES ASSUME Agent!AgentInit PROVE Agent!AgentInv
  OBVIOUS
<1>. USE AgentAssumption, RoundsSuffice DEF Agent!AgentInit
<1>1. Agent!AgentTypeOK
  BY DEF Agent!AgentTypeOK, Agent!Fresh
<1>2. Agent!OnlyApprovedRuns
  BY DEF Agent!OnlyApprovedRuns, Agent!Pausing
<1>3. Agent!DoneIsWhole /\ Agent!RoomForClarify
  BY DEF Agent!DoneIsWhole, Agent!RoomForClarify
<1>4. Agent!AnswerIsAsShown
  BY DEF Agent!AnswerIsAsShown
<1>5. Agent!CallsAreOpen
  BY AgentToolsKnown DEF Agent!CallsAreOpen, Agent!Pausing
<1>6. Agent!RoundsAreCounted
  BY DEF Agent!RoundsAreCounted
<1>7. Agent!TextIsWhole
  BY DEF Agent!TextIsWhole, Agent!Fresh
<1>8. Agent!GhostIsWhole
  BY DEF Agent!GhostIsWhole
<1>. QED  BY <1>1, <1>2, <1>3, <1>4, <1>5, <1>6, <1>7, <1>8 DEF Agent!AgentInv

LEMMA AgentBegins ==
  ASSUME Agent!AgentInv, Agent!Start PROVE Agent!AgentInv'
<1>. USE AgentAssumption, RoundsSuffice DEF Agent!AgentInv, Agent!Start
<1>1. Agent!AgentTypeOK'
  BY DEF Agent!AgentTypeOK
<1>2. Agent!OnlyApprovedRuns'
  BY DEF Agent!OnlyApprovedRuns
<1>3. Agent!DoneIsWhole' /\ Agent!RoomForClarify'
  BY DEF Agent!DoneIsWhole, Agent!RoomForClarify
<1>4. Agent!AnswerIsAsShown'
  BY AgentTextStays
<1>5. Agent!CallsAreOpen'
  BY DEF Agent!CallsAreOpen
<1>6. Agent!RoundsAreCounted'
  BY DEF Agent!RoundsAreCounted
<1>7. Agent!TextIsWhole'
  BY DEF Agent!TextIsWhole
<1>8. Agent!GhostIsWhole'
  BY DEF Agent!GhostIsWhole
<1>. QED  BY <1>1, <1>2, <1>3, <1>4, <1>5, <1>6, <1>7, <1>8

LEMMA AgentCalls ==
  ASSUME Agent!AgentInv, Agent!CallModel PROVE Agent!AgentInv'
<1>. USE AgentAssumption, RoundsSuffice DEF Agent!AgentInv, Agent!CallModel, Agent!Over, Agent!Terminal
<1>0. phase = "call" /\ ending = <<>>
  BY DEF Agent!TextIsWhole
<1>0a. \/ /\ phase' = "stream" /\ round' = round + 1 /\ attempt' = Agent!Fresh(1) /\ ending' = <<>>
          /\ round < Agent!AgentIterations
       \/ /\ phase' = "over" /\ round' = round /\ attempt' = attempt
          /\ ending' = <<"max_iterations">> \/ ending' = <<>>
          /\ round >= Agent!AgentIterations
  BY <1>0 DEF Agent!AgentTypeOK
<1>0b. 1 \in 0..MaxRetries + 1 /\ 1 \in Nat
  OBVIOUS
<1>1. Agent!AgentTypeOK'
  <2>1. round' \in 0..Agent!AgentIterations /\ attempt'.number \in 0..MaxRetries + 1
    BY <1>0a, <1>0b, FreshIsEmpty, <1>0 DEF Agent!AgentTypeOK
  <2>2. Len(ending') <= 1
    BY ONLY <1>0a, OneEnd
  <2>. QED  BY <1>0a, <2>1, <2>2 DEF Agent!AgentTypeOK
<1>2. Agent!OnlyApprovedRuns'
  BY DEF Agent!OnlyApprovedRuns
<1>3. Agent!DoneIsWhole'
  BY <1>0 DEF Agent!DoneIsWhole
<1>3a. Agent!RoomForClarify'
  BY <1>0 DEF Agent!RoomForClarify, Agent!RoundsAreCounted
<1>4. Agent!AnswerIsAsShown'
  BY AgentTextStays
<1>5. Agent!CallsAreOpen'
  BY <1>0 DEF Agent!CallsAreOpen
<1>6. Agent!RoundsAreCounted'
  BY <1>0 DEF Agent!RoundsAreCounted
<1>7. Agent!TextIsWhole'
  <2>1. /\ attempt' \in [number : Nat, output : BOOLEAN, text : Texts \cup {"none"}, asked : {{}} \cup Batches]
        /\ attempt'.text # "none" => attempt'.output
    BY <1>0a, <1>0b, FreshIsEmpty DEF Agent!TextIsWhole
  <2>2. phase' = "stream" => round' > 0
    BY <1>0a DEF Agent!RoundsAreCounted
  <2>. QED  BY <1>0, <1>0a, <2>1, <2>2 DEF Agent!TextIsWhole
<1>8. Agent!GhostIsWhole'
  BY DEF Agent!GhostIsWhole
<1>. QED  BY <1>1, <1>2, <1>3, <1>3a, <1>4, <1>5, <1>6, <1>7, <1>8

LEMMA AgentWrites ==
  ASSUME Agent!AgentInv, NEW text \in Texts, Agent!StreamText(text) PROVE Agent!AgentInv'
<1>. USE AgentAssumption, RoundsSuffice DEF Agent!AgentInv, Agent!StreamText
<1>0. /\ phase = "stream" /\ ending = <<>> /\ answer = agentShown
      /\ attempt \in [number : Nat, output : BOOLEAN, text : Texts \cup {"none"}, asked : {{}} \cup Batches]
      /\ answer \in Seq(AgentPieces) /\ round \in Nat
      /\ ghost.broken = {}
  BY DEF Agent!TextIsWhole, AgentPieces, Agent!RoundsAreCounted
<1>1. Agent!AgentTypeOK'
  BY <1>0 DEF Agent!AgentTypeOK
<1>2. Agent!OnlyApprovedRuns'
  BY DEF Agent!OnlyApprovedRuns
<1>3. Agent!DoneIsWhole' /\ Agent!RoomForClarify'
  BY <1>0 DEF Agent!DoneIsWhole, Agent!RoomForClarify
<1>4. answer' \in Seq(AgentPieces) /\ answer' = agentShown' /\ Apart(answer')
  <2>1. Apart(answer)
    BY <1>0, ApartIsShown
  <2>2. Agent!Piece(text) \in AgentPieces
    BY <1>0 DEF Agent!Piece, AgentPieces
  <2>3. CASE attempt.asked = {}
    <3>1. answer' = answer \o Agent!Segment(text) /\ agentShown' = agentShown \o Agent!Segment(text)
      BY <2>3
    <3>. QED  BY <1>0, <2>1, <2>2, <3>1, SegmentsStandApart
  <2>4. CASE attempt.asked # {}
    BY <1>0, <2>1, <2>4
  <2>. QED  BY <2>3, <2>4
<1>4a. Agent!AnswerIsAsShown'
  BY <1>4, ApartIsShownNext
<1>5. Agent!CallsAreOpen'
  BY DEF Agent!CallsAreOpen
<1>6. Agent!RoundsAreCounted'
  BY DEF Agent!RoundsAreCounted
<1>7. Agent!TextIsWhole'
  <2>1. /\ attempt' \in [number : Nat, output : BOOLEAN, text : Texts \cup {"none"}, asked : {{}} \cup Batches]
        /\ attempt'.output
    BY <1>0
  <2>. QED  BY <1>0, <1>4, <2>1 DEF Agent!TextIsWhole, AgentPieces
<1>8. Agent!GhostIsWhole'
  BY DEF Agent!GhostIsWhole
<1>. QED  BY <1>1, <1>2, <1>3, <1>4a, <1>5, <1>6, <1>7, <1>8

LEMMA AgentAsks ==
  ASSUME Agent!AgentInv, NEW asked \in Batches, Agent!StreamCalls(asked) PROVE Agent!AgentInv'
<1>. USE AgentAssumption, RoundsSuffice DEF Agent!AgentInv, Agent!StreamCalls
<1>0. /\ phase = "stream" /\ ending = <<>>
      /\ attempt \in [number : Nat, output : BOOLEAN, text : Texts \cup {"none"}, asked : {{}} \cup Batches]
  BY DEF Agent!TextIsWhole
<1>1. Agent!AgentTypeOK'
  BY <1>0 DEF Agent!AgentTypeOK
<1>2. Agent!OnlyApprovedRuns'
  BY DEF Agent!OnlyApprovedRuns
<1>3. Agent!DoneIsWhole' /\ Agent!RoomForClarify'
  BY DEF Agent!DoneIsWhole, Agent!RoomForClarify
<1>4. Agent!AnswerIsAsShown'
  BY AgentTextStays
<1>5. Agent!CallsAreOpen'
  BY DEF Agent!CallsAreOpen
<1>6. Agent!RoundsAreCounted'
  BY DEF Agent!RoundsAreCounted
<1>7. Agent!TextIsWhole'
  BY <1>0 DEF Agent!TextIsWhole
<1>8. Agent!GhostIsWhole'
  BY DEF Agent!GhostIsWhole
<1>. QED  BY <1>1, <1>2, <1>3, <1>4, <1>5, <1>6, <1>7, <1>8

LEMMA AgentBreaksOff ==
  ASSUME Agent!AgentInv, NEW error, Agent!StreamFails(error) PROVE Agent!AgentInv'
<1>. USE AgentAssumption, RoundsSuffice DEF Agent!AgentInv, Agent!StreamFails, Agent!Over, Agent!Terminal
<1>0. /\ phase = "stream" /\ ending = <<>> /\ ghost.broken = {}
      /\ attempt \in [number : Nat, output : BOOLEAN, text : Texts \cup {"none"}, asked : {{}} \cup Batches]
      /\ ghost = [ran |-> ghost.ran, approved |-> ghost.approved, rounds |-> ghost.rounds,
                  broken |-> ghost.broken, last |-> ghost.last]
  BY DEF Agent!TextIsWhole, Agent!GhostIsWhole
<1>0a. /\ ghost'.ran = ghost.ran /\ ghost'.approved = ghost.approved
       /\ ghost'.rounds = ghost.rounds /\ ghost'.last = ghost.last
       /\ ghost' = [ran |-> ghost'.ran, approved |-> ghost'.approved, rounds |-> ghost'.rounds,
                    broken |-> ghost'.broken, last |-> ghost'.last]
  BY <1>0
<1>0b. \/ /\ attempt' = Agent!Fresh(attempt.number + 1) /\ attempt.number <= MaxRetries
          /\ phase' = phase /\ ending' = ending /\ ghost'.broken = {}
       \/ /\ attempt' = attempt /\ phase' = "over"
          /\ ending' = <<"error">> \/ ending' = <<>>
  <2>1. CASE Agent!MayRetry(error) /\ attempt.number <= MaxRetries
    <3>1. attempt.text = "none"
      BY <2>1 DEF Agent!MayRetry, Agent!TextIsWhole
    <3>. QED  BY <2>1, <3>1, <1>0
  <2>2. CASE ~(Agent!MayRetry(error) /\ attempt.number <= MaxRetries)
    BY <2>2, <1>0
  <2>. QED  BY <2>1, <2>2
<1>0c. attempt.number + 1 \in Nat
  BY <1>0
<1>1. Agent!AgentTypeOK'
  <2>1. attempt'.number \in 0..MaxRetries + 1
    BY <1>0, <1>0b, <1>0c, FreshIsEmpty DEF Agent!AgentTypeOK
  <2>2. Len(ending') <= 1
    BY ONLY <1>0, <1>0b, OneEnd
  <2>. QED  BY <1>0b, <2>1, <2>2 DEF Agent!AgentTypeOK
<1>2. Agent!OnlyApprovedRuns'
  BY <1>0a DEF Agent!OnlyApprovedRuns
<1>3. Agent!DoneIsWhole' /\ Agent!RoomForClarify'
  BY <1>0, <1>0b DEF Agent!DoneIsWhole, Agent!RoomForClarify
<1>4. Agent!AnswerIsAsShown'
  BY AgentTextStays
<1>5. Agent!CallsAreOpen'
  BY <1>0, <1>0a, <1>0b DEF Agent!CallsAreOpen
<1>6. Agent!RoundsAreCounted'
  BY <1>0, <1>0a, <1>0b DEF Agent!RoundsAreCounted
<1>7. Agent!TextIsWhole'
  <2>1. /\ attempt' \in [number : Nat, output : BOOLEAN, text : Texts \cup {"none"}, asked : {{}} \cup Batches]
        /\ attempt'.text # "none" => attempt'.output
    BY <1>0b, <1>0c, FreshIsEmpty DEF Agent!TextIsWhole
  <2>2. phase' = "stream" => round' > 0
    BY <1>0 DEF Agent!TextIsWhole
  <2>3. ghost'.broken # {} => phase' = "over" /\ ending' # <<"done">>
    BY ONLY <1>0b
  <2>4. phase' = "finish" => ghost'.last = "stop"
    BY <1>0b, <1>0
  <2>5. phase' \notin {"paused", "over"} => ending' = <<>>
    BY <1>0b, <1>0
  <2>. QED  BY <2>1, <2>2, <2>3, <2>4, <2>5 DEF Agent!TextIsWhole
<1>8. Agent!GhostIsWhole'
  BY <1>0a DEF Agent!GhostIsWhole
<1>. QED  BY <1>1, <1>2, <1>3, <1>4, <1>5, <1>6, <1>7, <1>8

\* The facts about a run's ghost that every step needs.
LEMMA GhostHasItsFields ==
  ASSUME Agent!AgentInv
  PROVE  /\ ghost = [ran |-> ghost.ran, approved |-> ghost.approved, rounds |-> ghost.rounds,
                     broken |-> ghost.broken, last |-> ghost.last]
         /\ ghost.ran \in [Agent!Tools -> Nat] /\ ghost.approved \subseteq Agent!Tools
         /\ phase # "over" => ghost.broken = {}
         /\ round \in Nat /\ ghost.rounds \in Nat
         /\ phase \notin {"paused", "over"} => ending = <<>>
         /\ calls \in [Agent!Tools -> {"none", "waiting", "done", "stopped"}]
         /\ Agent!Pausing \subseteq Agent!Tools
BY DEF Agent!AgentInv, Agent!GhostIsWhole, Agent!TextIsWhole, Agent!RoundsAreCounted, Agent!CallsAreOpen,
       Agent!Pausing

LEMMA AgentModelEnds ==
  ASSUME Agent!AgentInv, NEW reason, Agent!StreamEnds(reason) PROVE Agent!AgentInv'
<1>. DEFINE open == attempt.asked
            ran2 == [t \in Agent!Tools |-> IF t \in open THEN 0 ELSE ghost.ran[t]]
            rounds2 == IF Agent!Completes(reason) /\ open # {} THEN ghost.rounds + 1 ELSE ghost.rounds
<1>0. /\ phase = "stream" /\ ending = <<>> /\ ghost.broken = {} /\ round = ghost.rounds + 1
      /\ attempt \in [number : Nat, output : BOOLEAN, text : Texts \cup {"none"}, asked : {{}} \cup Batches]
      /\ UNCHANGED <<round, target, stored, answer, agentShown, alive, found, pauses>>
      /\ attempt' = Agent!Fresh(0)
  BY DEF Agent!AgentInv, Agent!TextIsWhole, Agent!RoundsAreCounted, Agent!StreamEnds
<1>a. open \subseteq Agent!Tools
  BY <1>0 DEF Agent!Tools
<1>b. ghost' = [ran |-> ran2, approved |-> ghost.approved \ open, rounds |-> rounds2,
                broken |-> ghost.broken, last |-> reason]
  BY GhostHasItsFields DEF Agent!StreamEnds
<1>c. ran2 \in [Agent!Tools -> Nat]
  BY GhostHasItsFields
<1>d. \A t \in Agent!Tools : ran2[t] = IF t \in open THEN 0 ELSE ghost.ran[t]
  OBVIOUS
<1>e. /\ rounds2 \in Nat
      /\ Agent!Completes(reason) /\ open # {} => rounds2 = round
      /\ Agent!Completes(reason) /\ open = {} => round = rounds2 + 1
  BY GhostHasItsFields, <1>0
<1>f. \/ /\ ~Agent!Completes(reason) /\ phase' = "over" /\ UNCHANGED calls
         /\ ending' = <<"error">> \/ ending' = <<>>
      \/ /\ Agent!Completes(reason) /\ ending' = <<>>
         /\ phase' = IF open = {} THEN "finish" ELSE "tools"
         /\ calls' = [t \in Agent!Tools |-> IF t \in open THEN "waiting" ELSE "none"]
  <2>1. \A e : Append(<<>>, e) = <<e>>
    OBVIOUS
  <2>. QED  BY <1>0, <2>1 DEF Agent!StreamEnds, Agent!Over, Agent!Terminal
<1>g. Agent!Completes(reason) /\ open = {} => reason = "stop"
  BY DEF Agent!Completes
<1>. HIDE DEF open, ran2, rounds2
<1>h. /\ ghost'.ran = ran2 /\ ghost'.approved = ghost.approved \ open /\ ghost'.rounds = rounds2
      /\ ghost'.broken = {} /\ ghost'.last = reason
  BY <1>0, <1>b
<1>1. Agent!AgentTypeOK'
  <2>1. attempt'.number \in 0..MaxRetries + 1
    BY <1>0, FreshIsEmpty, AgentAssumption
  <2>2. Len(ending') <= 1
    BY ONLY <1>f, OneEnd
  <2>3. \A t \in Agent!Tools : calls'[t] \in {"none", "waiting", "done", "stopped"}
    BY <1>f, GhostHasItsFields
  <2>. QED  BY <1>0, <1>f, <2>1, <2>2, <2>3 DEF Agent!AgentTypeOK, Agent!AgentInv
<1>2. Agent!OnlyApprovedRuns'
  <2>1. ASSUME NEW t \in Agent!Pausing
        PROVE  ran2[t] <= IF t \in ghost.approved \ open THEN 1 ELSE 0
    <3>1. CASE t \in open
      BY <3>1, <1>d DEF Agent!Pausing
    <3>2. CASE t \notin open
      BY <3>2, <1>d DEF Agent!Pausing, Agent!AgentInv, Agent!OnlyApprovedRuns
    <3>. QED  BY <3>1, <3>2
  <2>. QED  BY <2>1, <1>h DEF Agent!OnlyApprovedRuns
<1>3. Agent!DoneIsWhole' /\ Agent!RoomForClarify'
  BY ONLY <1>f DEF Agent!DoneIsWhole, Agent!RoomForClarify
<1>4. Agent!AnswerIsAsShown'
  BY <1>0, AgentTextStays
<1>5. Agent!CallsAreOpen'
  <2>1. calls' \in [Agent!Tools -> {"none", "waiting", "done", "stopped"}]
    BY <1>f, GhostHasItsFields
  <2>2. phase' \in {"tools", "paused"} =>
          \A t \in Agent!Pausing : calls'[t] \in {"waiting", "stopped"} => ran2[t] = 0
    BY <1>f, <1>d DEF Agent!Pausing
  <2>3. target' = Agent!NoTarget
    BY <1>0 DEF Agent!AgentInv, Agent!CallsAreOpen
  <2>. QED  BY <2>1, <2>2, <2>3, <1>h, AgentToolsKnown DEF Agent!CallsAreOpen
<1>6. Agent!RoundsAreCounted'
  <2>1. phase' \in {"finish", "tools", "over"}
    BY <1>f
  <2>2. /\ phase' = "finish" => round = rounds2 + 1
        /\ phase' = "tools" => round = rounds2
    BY <1>f, <1>e
  <2>. QED  BY <2>1, <2>2, <1>0, <1>e, <1>h, GhostHasItsFields DEF Agent!RoundsAreCounted
<1>7. Agent!TextIsWhole'
  <2>1. /\ attempt' \in [number : Nat, output : BOOLEAN, text : Texts \cup {"none"}, asked : {{}} \cup Batches]
        /\ attempt'.text # "none" => attempt'.output
    BY <1>0, FreshIsEmpty
  <2>2. phase' = "finish" => reason = "stop"
    BY <1>f, <1>g
  <2>3. phase' \notin {"paused", "over"} => ending' = <<>>
    BY <1>f
  <2>4. phase' # "stream"
    BY <1>f
  <2>. QED  BY <1>0, <1>h, <2>1, <2>2, <2>3, <2>4 DEF Agent!TextIsWhole, Agent!AgentInv
<1>8. Agent!GhostIsWhole'
  <2>1. ghost.approved \ open \subseteq Agent!Tools
    BY GhostHasItsFields
  <2>. QED  BY <1>b, <1>h, <1>c, <2>1 DEF Agent!GhostIsWhole
<1>. QED  BY <1>1, <1>2, <1>3, <1>4, <1>5, <1>6, <1>7, <1>8 DEF Agent!AgentInv

\* A tool that pauses runs at most once: it was stopped, and its own card approved.
LEMMA RunsOnce ==
  ASSUME Agent!AgentInv, phase = "tools", NEW t \in Agent!Tools, Agent!Runs(t),
         calls[t] \in {"waiting", "stopped"}
  PROVE  /\ [ghost EXCEPT !.ran[t] = @ + 1] =
              [ran |-> [ghost.ran EXCEPT ![t] = @ + 1], approved |-> ghost.approved, rounds |-> ghost.rounds,
               broken |-> ghost.broken, last |-> ghost.last]
         /\ [ghost.ran EXCEPT ![t] = @ + 1] \in [Agent!Tools -> Nat]
         /\ \A v \in Agent!Pausing :
              [ghost.ran EXCEPT ![t] = @ + 1][v] <= IF v \in ghost.approved THEN 1 ELSE 0
         /\ \A v \in Agent!Tools \ {t} : [ghost.ran EXCEPT ![t] = @ + 1][v] = ghost.ran[v]
<1>. DEFINE ran2 == [ghost.ran EXCEPT ![t] = @ + 1]
<1>1. [ghost EXCEPT !.ran[t] = @ + 1] =
        [ran |-> ran2, approved |-> ghost.approved, rounds |-> ghost.rounds,
         broken |-> ghost.broken, last |-> ghost.last]
  BY GhostHasItsFields
<1>2. ran2 \in [Agent!Tools -> Nat]
  BY GhostHasItsFields
<1>3. /\ \A v \in Agent!Tools \ {t} : ran2[v] = ghost.ran[v]
      /\ ran2[t] = ghost.ran[t] + 1
  BY GhostHasItsFields
<1>. HIDE DEF ran2
<1>4. ASSUME NEW v \in Agent!Pausing PROVE ran2[v] <= IF v \in ghost.approved THEN 1 ELSE 0
  <2>1. CASE v = t
    <3>1. Agent!Go(t)
      BY <2>1 DEF Agent!Runs
    <3>2. target.tool = t /\ target.verdict = "approve"
      BY <3>1 DEF Agent!Go
    <3>3. t \in ghost.approved /\ ghost.ran[t] = 0
      BY <3>2, <2>1 DEF Agent!AgentInv, Agent!CallsAreOpen
    <3>. QED  BY <3>3, <1>3, <2>1
  <2>2. CASE v # t
    BY <2>2, <1>3 DEF Agent!AgentInv, Agent!OnlyApprovedRuns, Agent!Pausing
  <2>. QED  BY <2>1, <2>2
<1>5. /\ [ghost EXCEPT !.ran[t] = @ + 1] =
            [ran |-> ran2, approved |-> ghost.approved, rounds |-> ghost.rounds,
             broken |-> ghost.broken, last |-> ghost.last]
      /\ ran2 \in [Agent!Tools -> Nat]
      /\ \A v \in Agent!Pausing : ran2[v] <= IF v \in ghost.approved THEN 1 ELSE 0
      /\ \A v \in Agent!Tools \ {t} : ran2[v] = ghost.ran[v]
  BY <1>1, <1>2, <1>3, <1>4
<1>. QED  BY <1>5 DEF ran2

LEMMA AgentToolReturns ==
  ASSUME Agent!AgentInv, NEW t \in Agent!Tools, Agent!ToolReturns(t) PROVE Agent!AgentInv'
<1>0. /\ phase = "tools" /\ ending = <<>> /\ calls[t] \in {"waiting", "stopped"}
      /\ UNCHANGED <<phase, round, attempt, target, stored, answer, agentShown, ending, alive, pauses>>
      /\ calls' = [calls EXCEPT ![t] = "done"]
  BY GhostHasItsFields DEF Agent!ToolReturns
<1>a. /\ ghost'.approved = ghost.approved /\ ghost'.rounds = ghost.rounds
      /\ ghost'.broken = ghost.broken /\ ghost'.last = ghost.last
      /\ ghost' = [ran |-> ghost'.ran, approved |-> ghost.approved, rounds |-> ghost.rounds,
                   broken |-> ghost.broken, last |-> ghost.last]
      /\ ghost'.ran \in [Agent!Tools -> Nat]
      /\ \A v \in Agent!Pausing : ghost'.ran[v] <= IF v \in ghost.approved THEN 1 ELSE 0
      /\ \A v \in Agent!Tools \ {t} : ghost'.ran[v] = ghost.ran[v]
  <2>1. CASE Agent!Runs(t)
    <3>1. ghost' = [ghost EXCEPT !.ran[t] = @ + 1]
      BY <2>1 DEF Agent!ToolReturns
    <3>. DEFINE ran2 == [ghost.ran EXCEPT ![t] = @ + 1]
    <3>2. /\ ghost' = [ran |-> ran2, approved |-> ghost.approved, rounds |-> ghost.rounds,
                       broken |-> ghost.broken, last |-> ghost.last]
          /\ ran2 \in [Agent!Tools -> Nat]
          /\ \A v \in Agent!Pausing : ran2[v] <= IF v \in ghost.approved THEN 1 ELSE 0
          /\ \A v \in Agent!Tools \ {t} : ran2[v] = ghost.ran[v]
      BY <3>1, <2>1, <1>0, RunsOnce
    <3>. HIDE DEF ran2
    <3>. QED  BY <3>2
  <2>2. CASE ~Agent!Runs(t)
    <3>1. ghost' = ghost
      BY <2>2 DEF Agent!ToolReturns
    <3>. QED  BY <3>1, GhostHasItsFields DEF Agent!AgentInv, Agent!OnlyApprovedRuns
  <2>. QED  BY <2>1, <2>2
<1>b. /\ calls' \in [Agent!Tools -> {"none", "waiting", "done", "stopped"}]
      /\ \A v \in Agent!Tools \ {t} : calls'[v] = calls[v]
      /\ calls'[t] = "done"
  BY <1>0, GhostHasItsFields
<1>1. Agent!AgentTypeOK'
  BY <1>0, <1>b DEF Agent!AgentTypeOK, Agent!AgentInv
<1>2. Agent!OnlyApprovedRuns'
  BY <1>a DEF Agent!OnlyApprovedRuns
<1>3. Agent!DoneIsWhole' /\ Agent!RoomForClarify'
  BY <1>0 DEF Agent!DoneIsWhole, Agent!RoomForClarify
<1>4. Agent!AnswerIsAsShown'
  BY <1>0, AgentTextStays
<1>5. Agent!CallsAreOpen'
  <2>1. ASSUME NEW v \in Agent!Pausing, calls'[v] \in {"waiting", "stopped"} PROVE ghost'.ran[v] = 0
    BY <2>1, <1>0, <1>a, <1>b DEF Agent!AgentInv, Agent!CallsAreOpen, Agent!Pausing
  <2>. QED  BY <2>1, <1>0, <1>a, <1>b DEF Agent!CallsAreOpen, Agent!AgentInv
<1>6. Agent!RoundsAreCounted'
  BY <1>0, <1>a DEF Agent!RoundsAreCounted, Agent!AgentInv
<1>7. Agent!TextIsWhole'
  BY <1>0, <1>a DEF Agent!TextIsWhole, Agent!AgentInv
<1>8. Agent!GhostIsWhole'
  BY <1>a, GhostHasItsFields DEF Agent!GhostIsWhole
<1>. QED  BY <1>1, <1>2, <1>3, <1>4, <1>5, <1>6, <1>7, <1>8 DEF Agent!AgentInv

LEMMA AgentToolStops ==
  ASSUME Agent!AgentInv, NEW t \in Agent!Tools, Agent!ToolStops(t) PROVE Agent!AgentInv'
<1>0. /\ phase = "tools" /\ ending = <<>> /\ calls[t] = "waiting"
      /\ UNCHANGED <<phase, round, attempt, target, stored, answer, agentShown, ending, alive, pauses, ghost>>
      /\ calls' = [calls EXCEPT ![t] = "stopped"]
  BY GhostHasItsFields DEF Agent!ToolStops
<1>b. /\ calls' \in [Agent!Tools -> {"none", "waiting", "done", "stopped"}]
      /\ \A v \in Agent!Tools \ {t} : calls'[v] = calls[v]
      /\ calls'[t] = "stopped"
  BY <1>0, GhostHasItsFields
<1>1. Agent!AgentTypeOK'
  BY <1>0, <1>b DEF Agent!AgentTypeOK, Agent!AgentInv
<1>2. Agent!OnlyApprovedRuns'
  BY <1>0 DEF Agent!OnlyApprovedRuns, Agent!AgentInv
<1>3. Agent!DoneIsWhole' /\ Agent!RoomForClarify'
  BY <1>0 DEF Agent!DoneIsWhole, Agent!RoomForClarify
<1>4. Agent!AnswerIsAsShown'
  BY <1>0, AgentTextStays
<1>5. Agent!CallsAreOpen'
  <2>1. ASSUME NEW v \in Agent!Pausing, calls'[v] \in {"waiting", "stopped"} PROVE ghost'.ran[v] = 0
    BY <2>1, <1>0, <1>b DEF Agent!AgentInv, Agent!CallsAreOpen, Agent!Pausing
  <2>. QED  BY <2>1, <1>0, <1>b DEF Agent!CallsAreOpen, Agent!AgentInv
<1>6. Agent!RoundsAreCounted'
  BY <1>0 DEF Agent!RoundsAreCounted, Agent!AgentInv
<1>7. Agent!TextIsWhole'
  BY <1>0 DEF Agent!TextIsWhole, Agent!AgentInv
<1>8. Agent!GhostIsWhole'
  BY <1>0 DEF Agent!GhostIsWhole, Agent!AgentInv
<1>. QED  BY <1>1, <1>2, <1>3, <1>4, <1>5, <1>6, <1>7, <1>8 DEF Agent!AgentInv

LEMMA AgentToolFails ==
  ASSUME Agent!AgentInv, NEW t \in Agent!Tools, Agent!ToolFails(t) PROVE Agent!AgentInv'
<1>0. /\ phase = "tools" /\ ending = <<>> /\ calls[t] \in {"waiting", "stopped"} /\ phase' = "over"
      /\ UNCHANGED <<round, attempt, calls, target, stored, answer, agentShown, alive, pauses>>
      /\ ending' = Append(<<>>, "error") \/ ending' = <<>>
  BY GhostHasItsFields DEF Agent!ToolFails, Agent!Over, Agent!Terminal
<1>c. ending' = <<"error">> \/ ending' = <<>>
  BY ONLY <1>0
<1>a. /\ ghost'.approved = ghost.approved /\ ghost'.rounds = ghost.rounds
      /\ ghost'.broken = ghost.broken /\ ghost'.last = ghost.last
      /\ ghost' = [ran |-> ghost'.ran, approved |-> ghost.approved, rounds |-> ghost.rounds,
                   broken |-> ghost.broken, last |-> ghost.last]
      /\ ghost'.ran \in [Agent!Tools -> Nat]
      /\ \A v \in Agent!Pausing : ghost'.ran[v] <= IF v \in ghost.approved THEN 1 ELSE 0
  <2>1. CASE Agent!Runs(t) /\ ghost' = [ghost EXCEPT !.ran[t] = @ + 1]
    <3>. DEFINE ran2 == [ghost.ran EXCEPT ![t] = @ + 1]
    <3>2. /\ ghost' = [ran |-> ran2, approved |-> ghost.approved, rounds |-> ghost.rounds,
                       broken |-> ghost.broken, last |-> ghost.last]
          /\ ran2 \in [Agent!Tools -> Nat]
          /\ \A v \in Agent!Pausing : ran2[v] <= IF v \in ghost.approved THEN 1 ELSE 0
      BY <2>1, <1>0, RunsOnce
    <3>. HIDE DEF ran2
    <3>. QED  BY <3>2
  <2>2. CASE ghost' = ghost
    BY <2>2, GhostHasItsFields DEF Agent!AgentInv, Agent!OnlyApprovedRuns
  <2>. QED  BY <2>1, <2>2 DEF Agent!ToolFails
<1>1. Agent!AgentTypeOK'
  <2>1. Len(ending') <= 1
    BY ONLY <1>c, OneEnd
  <2>. QED  BY <1>0, <2>1 DEF Agent!AgentTypeOK, Agent!AgentInv
<1>2. Agent!OnlyApprovedRuns'
  BY <1>a DEF Agent!OnlyApprovedRuns
<1>3. Agent!DoneIsWhole' /\ Agent!RoomForClarify'
  BY ONLY <1>c DEF Agent!DoneIsWhole, Agent!RoomForClarify
<1>4. Agent!AnswerIsAsShown'
  BY <1>0, AgentTextStays
<1>5. Agent!CallsAreOpen'
  BY <1>0 DEF Agent!CallsAreOpen, Agent!AgentInv
<1>6. Agent!RoundsAreCounted'
  BY <1>0, <1>a DEF Agent!RoundsAreCounted, Agent!AgentInv
<1>7. Agent!TextIsWhole'
  <2>1. ghost'.broken = {}
    BY <1>0, <1>a, GhostHasItsFields
  <2>. QED  BY <1>0, <2>1 DEF Agent!TextIsWhole, Agent!AgentInv
<1>8. Agent!GhostIsWhole'
  BY <1>a, GhostHasItsFields DEF Agent!GhostIsWhole
<1>. QED  BY <1>1, <1>2, <1>3, <1>4, <1>5, <1>6, <1>7, <1>8 DEF Agent!AgentInv

LEMMA AgentToolsDone ==
  ASSUME Agent!AgentInv, Agent!ToolsDone PROVE Agent!AgentInv'
<1>0. /\ phase = "tools" /\ phase' = "call" /\ target' = Agent!NoTarget
      /\ UNCHANGED <<round, attempt, calls, stored, answer, agentShown, ending, alive, found, pauses, ghost>>
  BY DEF Agent!ToolsDone
<1>1. Agent!AgentTypeOK'
  BY <1>0 DEF Agent!AgentTypeOK, Agent!AgentInv
<1>2. Agent!OnlyApprovedRuns'
  BY <1>0 DEF Agent!OnlyApprovedRuns, Agent!AgentInv
<1>3. Agent!DoneIsWhole' /\ Agent!RoomForClarify'
  BY <1>0 DEF Agent!DoneIsWhole, Agent!RoomForClarify, Agent!AgentInv
<1>4. Agent!AnswerIsAsShown'
  BY <1>0, AgentTextStays
<1>5. Agent!CallsAreOpen'
  BY <1>0, AgentToolsKnown DEF Agent!CallsAreOpen, Agent!AgentInv
<1>6. Agent!RoundsAreCounted'
  BY <1>0 DEF Agent!RoundsAreCounted, Agent!AgentInv
<1>7. Agent!TextIsWhole'
  BY <1>0 DEF Agent!TextIsWhole, Agent!AgentInv
<1>8. Agent!GhostIsWhole'
  BY <1>0 DEF Agent!GhostIsWhole, Agent!AgentInv
<1>. QED  BY <1>1, <1>2, <1>3, <1>4, <1>5, <1>6, <1>7, <1>8 DEF Agent!AgentInv

LEMMA AgentPauses ==
  ASSUME Agent!AgentInv, NEW t \in Agent!Tools, NEW held \in BOOLEAN, Agent!Pause(t, held)
  PROVE  Agent!AgentInv'
<1>. DEFINE cp == [is |-> "stored", round |-> round, calls |-> calls, card |-> t]
<1>0. /\ phase = "tools" /\ calls[t] = "stopped" /\ pauses < MaxPauses /\ ending = <<>>
      /\ target' = Agent!NoTarget /\ pauses' = pauses + 1
      /\ UNCHANGED <<round, attempt, calls, answer, agentShown, alive, found, ghost>>
  BY GhostHasItsFields DEF Agent!Pause
<1>a. /\ ending' = Append(<<>>, "interrupt") \/ ending' = Append(<<>>, "error") \/ ending' = <<>>
      /\ \/ phase' = "paused" /\ stored' = cp
         \/ phase' = "over" /\ stored' = stored
  BY <1>0 DEF Agent!Pause, Agent!Over, Agent!Terminal
<1>b. ending' = <<"interrupt">> \/ ending' = <<"error">> \/ ending' = <<>>
  BY ONLY <1>a
<1>1. Agent!AgentTypeOK'
  <2>1. Len(ending') <= 1
    BY ONLY <1>b, OneEnd
  <2>2. pauses' \in 0..MaxPauses
    BY <1>0, AgentAssumption DEF Agent!AgentTypeOK, Agent!AgentInv
  <2>. QED  BY <1>0, <1>a, <2>1, <2>2 DEF Agent!AgentTypeOK, Agent!AgentInv
<1>2. Agent!OnlyApprovedRuns'
  BY <1>0 DEF Agent!OnlyApprovedRuns, Agent!AgentInv
<1>3. Agent!DoneIsWhole' /\ Agent!RoomForClarify'
  BY ONLY <1>b DEF Agent!DoneIsWhole, Agent!RoomForClarify
<1>4. Agent!AnswerIsAsShown'
  BY <1>0, AgentTextStays
<1>5. Agent!CallsAreOpen'
  BY <1>0, <1>a, AgentToolsKnown DEF Agent!CallsAreOpen, Agent!AgentInv
<1>6. Agent!RoundsAreCounted'
  <2>1. /\ cp = [is |-> "stored", round |-> round, calls |-> calls, card |-> cp.card]
        /\ cp.card = t
    OBVIOUS
  <2>. HIDE DEF cp
  <2>. QED  BY <1>0, <1>a, <2>1 DEF Agent!RoundsAreCounted, Agent!AgentInv
<1>7. Agent!TextIsWhole'
  <2>1. ghost.broken = {}
    BY <1>0, GhostHasItsFields
  <2>. QED  BY <1>0, <1>a, <2>1 DEF Agent!TextIsWhole, Agent!AgentInv
<1>8. Agent!GhostIsWhole'
  BY <1>0 DEF Agent!GhostIsWhole, Agent!AgentInv
<1>. QED  BY <1>1, <1>2, <1>3, <1>4, <1>5, <1>6, <1>7, <1>8 DEF Agent!AgentInv

LEMMA AgentFinishes ==
  ASSUME Agent!AgentInv, Agent!Finish PROVE Agent!AgentInv'
<1>0. /\ phase = "finish" /\ ending = <<>> /\ phase' = "over" /\ ghost.broken = {} /\ ghost.last = "stop"
      /\ answer' = answer \o Agent!Fallback /\ agentShown' = agentShown \o Agent!Fallback
      /\ answer = agentShown /\ answer \in Seq(AgentPieces)
      /\ UNCHANGED <<round, attempt, calls, target, alive, found, pauses, ghost>>
      /\ ending' = Append(<<>>, "done") \/ ending' = <<>>
  BY GhostHasItsFields DEF Agent!Finish, Agent!Over, Agent!Terminal, Agent!AgentInv, Agent!TextIsWhole, AgentPieces
<1>a. ending' = <<"done">> \/ ending' = <<>>
  BY ONLY <1>0
<1>1. Agent!AgentTypeOK'
  <2>1. Len(ending') <= 1
    BY ONLY <1>a, OneEnd
  <2>. QED  BY <1>0, <2>1 DEF Agent!AgentTypeOK, Agent!AgentInv
<1>2. Agent!OnlyApprovedRuns'
  BY <1>0 DEF Agent!OnlyApprovedRuns, Agent!AgentInv
<1>3. Agent!DoneIsWhole'
  BY <1>0 DEF Agent!DoneIsWhole
<1>3a. Agent!RoomForClarify'
  BY ONLY <1>a DEF Agent!RoomForClarify
<1>4. answer' \in Seq(AgentPieces) /\ answer' = agentShown' /\ Apart(answer')
  <2>1. Apart(answer)
    BY <1>0, ApartIsShown DEF Agent!AgentInv
  <2>. QED  BY <1>0, <2>1, PassagesStandApart
<1>4a. Agent!AnswerIsAsShown'
  BY <1>4, ApartIsShownNext
<1>5. Agent!CallsAreOpen'
  BY <1>0 DEF Agent!CallsAreOpen, Agent!AgentInv
<1>6. Agent!RoundsAreCounted'
  BY <1>0 DEF Agent!RoundsAreCounted, Agent!AgentInv
<1>7. Agent!TextIsWhole'
  BY <1>0, <1>4 DEF Agent!TextIsWhole, Agent!AgentInv, AgentPieces
<1>8. Agent!GhostIsWhole'
  BY <1>0 DEF Agent!GhostIsWhole, Agent!AgentInv
<1>. QED  BY <1>1, <1>2, <1>3, <1>3a, <1>4a, <1>5, <1>6, <1>7, <1>8 DEF Agent!AgentInv

\* The client leaves, the run stops, the checkpoint expires.
LEMMA AgentIsLeft ==
  ASSUME Agent!AgentInv, Agent!Cancel \/ Agent!Stop \/ Agent!Expire PROVE Agent!AgentInv'
<1>0. /\ UNCHANGED <<round, attempt, calls, target, answer, agentShown, ending, found, pauses, ghost>>
      /\ \/ phase' = phase /\ stored' = stored
         \/ phase' = "over" /\ stored' = stored /\ phase \notin {"idle", "paused", "over"}
         \/ phase' = phase /\ stored' = Agent!Nothing
  BY DEF Agent!Cancel, Agent!Stop, Agent!Expire, Agent!Running
<1>1. Agent!AgentTypeOK'
  BY <1>0 DEF Agent!AgentTypeOK, Agent!AgentInv
<1>2. Agent!OnlyApprovedRuns'
  BY <1>0 DEF Agent!OnlyApprovedRuns, Agent!AgentInv
<1>3. Agent!DoneIsWhole' /\ Agent!RoomForClarify'
  BY <1>0 DEF Agent!DoneIsWhole, Agent!RoomForClarify, Agent!AgentInv
<1>4. Agent!AnswerIsAsShown'
  BY <1>0, AgentTextStays
<1>5. Agent!CallsAreOpen'
  BY <1>0 DEF Agent!CallsAreOpen, Agent!AgentInv
<1>6. Agent!RoundsAreCounted'
  BY <1>0 DEF Agent!RoundsAreCounted, Agent!AgentInv
<1>7. Agent!TextIsWhole'
  BY <1>0, GhostHasItsFields DEF Agent!TextIsWhole, Agent!AgentInv
<1>8. Agent!GhostIsWhole'
  BY <1>0 DEF Agent!GhostIsWhole, Agent!AgentInv
<1>. QED  BY <1>1, <1>2, <1>3, <1>4, <1>5, <1>6, <1>7, <1>8 DEF Agent!AgentInv

LEMMA AgentResumes ==
  ASSUME Agent!AgentInv, NEW verdict, Agent!Resume(verdict) PROVE Agent!AgentInv'
<1>0. /\ phase = "paused" /\ answer' = <<>> /\ agentShown' = <<>> /\ ghost.broken = {}
      /\ UNCHANGED <<stored, pauses, attempt>>
  BY GhostHasItsFields DEF Agent!Resume
<1>a. CASE stored = Agent!Nothing
  <2>0. ending' = <<"error">> /\ phase' = "over" /\ UNCHANGED <<round, calls, target, ghost>>
    BY <1>a DEF Agent!Resume
  <2>1. Agent!AgentTypeOK'
    <3>1. Len(ending') <= 1
      BY ONLY <2>0, OneEnd
    <3>. QED  BY <1>0, <2>0, <3>1 DEF Agent!AgentTypeOK, Agent!AgentInv
  <2>2. Agent!OnlyApprovedRuns' /\ Agent!GhostIsWhole'
    BY <2>0 DEF Agent!OnlyApprovedRuns, Agent!GhostIsWhole, Agent!AgentInv
  <2>3. Agent!DoneIsWhole' /\ Agent!RoomForClarify'
    BY ONLY <2>0 DEF Agent!DoneIsWhole, Agent!RoomForClarify
  <2>4. Agent!AnswerIsAsShown'
    BY <1>0 DEF Agent!AnswerIsAsShown
  <2>5. Agent!CallsAreOpen'
    BY <2>0 DEF Agent!CallsAreOpen, Agent!AgentInv
  <2>6. Agent!RoundsAreCounted'
    BY <2>0 DEF Agent!RoundsAreCounted, Agent!AgentInv
  <2>7. Agent!TextIsWhole'
    <3>1. answer' \in Seq(AgentPieces)
      BY <1>0
    <3>. QED  BY <1>0, <2>0, <3>1 DEF Agent!TextIsWhole, Agent!AgentInv, AgentPieces
  <2>. QED  BY <2>1, <2>2, <2>3, <2>4, <2>5, <2>6, <2>7 DEF Agent!AgentInv
<1>b. CASE stored # Agent!Nothing
  <2>a. /\ stored = [is |-> "stored", round |-> round, calls |-> calls, card |-> stored.card]
        /\ stored.card \in Agent!Tools
    BY <1>0, <1>b DEF Agent!RoundsAreCounted, Agent!AgentInv
  <2>b. stored.round = round /\ stored.calls = calls
    BY <2>a
  <2>0. /\ ending' = <<>> /\ phase' = "tools" /\ round' = round /\ calls' = calls
        /\ target' = [tool |-> stored.card, verdict |-> verdict]
    BY <1>b, <2>b DEF Agent!Resume
  <2>c. /\ ghost'.ran = ghost.ran /\ ghost'.rounds = ghost.rounds
        /\ ghost'.broken = {} /\ ghost'.last = ghost.last
        /\ ghost' = [ran |-> ghost'.ran, approved |-> ghost'.approved, rounds |-> ghost'.rounds,
                     broken |-> ghost'.broken, last |-> ghost'.last]
        /\ ghost.approved \subseteq ghost'.approved /\ ghost'.approved \subseteq Agent!Tools
        /\ verdict = "approve" => stored.card \in ghost'.approved
    <3>. DEFINE more == ghost.approved \cup {stored.card}
    <3>1. CASE verdict = "approve"
      <4>1. ghost' = [ran |-> ghost.ran, approved |-> more, rounds |-> ghost.rounds,
                      broken |-> ghost.broken, last |-> ghost.last]
        BY <3>1, <1>b, GhostHasItsFields DEF Agent!Resume
      <4>2. ghost.approved \subseteq more /\ more \subseteq Agent!Tools /\ stored.card \in more
        BY <2>a, GhostHasItsFields
      <4>. HIDE DEF more
      <4>. QED  BY <4>1, <4>2, <1>0
    <3>2. CASE verdict # "approve"
      <4>1. ghost' = ghost
        BY <3>2, <1>b DEF Agent!Resume
      <4>. QED  BY <4>1, <3>2, <1>0, GhostHasItsFields
    <3>. QED  BY <3>1, <3>2
  <2>1. Agent!AgentTypeOK'
    <3>1. Len(ending') <= 1
      BY ONLY <2>0, OneEnd
    <3>. QED  BY <1>0, <2>0, <3>1 DEF Agent!AgentTypeOK, Agent!AgentInv
  <2>2. Agent!OnlyApprovedRuns'
    <3>1. ASSUME NEW t \in Agent!Pausing PROVE ghost'.ran[t] <= IF t \in ghost'.approved THEN 1 ELSE 0
      <4>1. ghost.ran[t] <= IF t \in ghost.approved THEN 1 ELSE 0
        BY DEF Agent!AgentInv, Agent!OnlyApprovedRuns
      <4>2. ghost.ran[t] \in Nat
        BY GhostHasItsFields
      <4>. QED  BY <4>1, <4>2, <2>c
    <3>. QED  BY <3>1 DEF Agent!OnlyApprovedRuns
  <2>3. Agent!DoneIsWhole' /\ Agent!RoomForClarify'
    BY ONLY <2>0 DEF Agent!DoneIsWhole, Agent!RoomForClarify
  <2>4. Agent!AnswerIsAsShown'
    BY <1>0 DEF Agent!AnswerIsAsShown
  <2>5. Agent!CallsAreOpen'
    <3>1. /\ target' = [tool |-> target'.tool, verdict |-> target'.verdict]
          /\ target'.tool = stored.card /\ target'.verdict = verdict
      BY <2>0
    <3>2. \A t \in Agent!Pausing : calls'[t] \in {"waiting", "stopped"} => ghost'.ran[t] = 0
      BY <1>0, <2>0, <2>c DEF Agent!CallsAreOpen, Agent!AgentInv
    <3>3. calls' \in [Agent!Tools -> {"none", "waiting", "done", "stopped"}]
      BY <2>0, GhostHasItsFields
    <3>. QED  BY <2>0, <2>c, <3>1, <3>2, <3>3 DEF Agent!CallsAreOpen
  <2>6. Agent!RoundsAreCounted'
    BY <1>0, <2>0, <2>c DEF Agent!RoundsAreCounted, Agent!AgentInv
  <2>7. Agent!TextIsWhole'
    <3>1. answer' \in Seq(AgentPieces)
      BY <1>0
    <3>. QED  BY <1>0, <2>0, <2>c, <3>1 DEF Agent!TextIsWhole, Agent!AgentInv, AgentPieces
  <2>8. Agent!GhostIsWhole'
    BY <2>c, GhostHasItsFields DEF Agent!GhostIsWhole
  <2>. QED  BY <2>1, <2>2, <2>3, <2>4, <2>5, <2>6, <2>7, <2>8 DEF Agent!AgentInv
<1>. QED  BY <1>a, <1>b

LEMMA AgentRests ==
  ASSUME Agent!AgentInv, UNCHANGED agentVars PROVE Agent!AgentInv'
<1>0. UNCHANGED <<phase, round, attempt, calls, target, stored, answer, agentShown,
                  ending, alive, found, pauses, ghost>>
  BY DEF agentVars
<1>1. Agent!AgentTypeOK'
  BY <1>0 DEF Agent!AgentTypeOK, Agent!AgentInv
<1>2. Agent!OnlyApprovedRuns' /\ Agent!DoneIsWhole' /\ Agent!RoomForClarify'
  BY <1>0 DEF Agent!OnlyApprovedRuns, Agent!DoneIsWhole, Agent!RoomForClarify, Agent!AgentInv
<1>4. Agent!AnswerIsAsShown'
  BY <1>0, AgentTextStays
<1>5. Agent!CallsAreOpen' /\ Agent!RoundsAreCounted'
  BY <1>0 DEF Agent!CallsAreOpen, Agent!RoundsAreCounted, Agent!AgentInv
<1>7. Agent!TextIsWhole' /\ Agent!GhostIsWhole'
  BY <1>0 DEF Agent!TextIsWhole, Agent!GhostIsWhole, Agent!AgentInv
<1>. QED  BY <1>1, <1>2, <1>4, <1>5, <1>7 DEF Agent!AgentInv

\* Every step of a run keeps its invariant.
LEMMA AgentStays == Agent!AgentInv /\ [Agent!AgentNext]_agentVars => Agent!AgentInv'
<1>. SUFFICES ASSUME Agent!AgentInv, Agent!AgentNext PROVE Agent!AgentInv'
  BY AgentRests
<1>1. CASE Agent!Start
  BY <1>1, AgentBegins
<1>2. CASE Agent!CallModel
  BY <1>2, AgentCalls
<1>3. CASE Agent!ToolsDone
  BY <1>3, AgentToolsDone
<1>4. CASE Agent!Finish
  BY <1>4, AgentFinishes
<1>5. CASE Agent!Cancel \/ Agent!Stop \/ Agent!Expire
  BY <1>5, AgentIsLeft
<1>6. CASE \E text \in Texts : Agent!StreamText(text)
  BY <1>6, AgentWrites
<1>7. CASE \E asked \in Batches : Agent!StreamCalls(asked)
  BY <1>7, AgentAsks
<1>8. CASE \E error \in {"timeout", "refused"} : Agent!StreamFails(error)
  BY <1>8, AgentBreaksOff
<1>9. CASE \E reason \in {"stop", "tool_calls", "length"} : Agent!StreamEnds(reason)
  BY <1>9, AgentModelEnds
<1>10. CASE \E t \in Agent!Tools : Agent!ToolReturns(t) \/ Agent!ToolStops(t) \/ Agent!ToolFails(t)
  BY <1>10, AgentToolReturns, AgentToolStops, AgentToolFails
<1>11. CASE \E t \in Agent!Tools, held \in BOOLEAN : Agent!Pause(t, held)
  BY <1>11, AgentPauses
<1>12. CASE \E verdict \in {"approve", "deny", "answer"} : Agent!Resume(verdict)
  BY <1>12, AgentResumes
<1>. QED  BY <1>1, <1>2, <1>3, <1>4, <1>5, <1>6, <1>7, <1>8, <1>9, <1>10, <1>11, <1>12 DEF Agent!AgentNext

-----------------------------------------------------------------------------
(* Reading of stored results.                                              *)

\* The longest prefix is one of the text, or none.
LEMMA PrefixIsOne ==
  ASSUME NEW text, Len(text) \in Nat, NEW least \in Nat, NEW allowance
  PROVE  Prefix(text, least, allowance) \in {-1} \cup (least..Len(text))
<1>. DEFINE T == {-1} \cup {n \in least..Len(text) : Fits(SubSeq(text, 1, n), allowance)}
<1>1. T \in SUBSET Int /\ T # {} /\ \A x \in T : x <= Len(text)
  OBVIOUS
<1>2. T \subseteq {-1} \cup (least..Len(text))
  OBVIOUS
<1>3. Prefix(text, least, allowance) = Max(T)
  BY DEF Prefix
<1>. HIDE DEF T
<1>4. Max(T) \in T
  BY <1>1, MaxIsGreatest
<1>. QED  BY <1>2, <1>3, <1>4

\* A part of a part of a text is a part of the text.
LEMMA PartOfPart ==
  ASSUME NEW S, NEW s \in Seq(S), NEW a \in Nat, NEW m \in a..Len(s), NEW n \in 0..(m - a)
  PROVE  /\ SubSeq(s, a + 1, m) \in Seq(S) /\ Len(SubSeq(s, a + 1, m)) = m - a
         /\ SubSeq(SubSeq(s, a + 1, m), 1, n) = SubSeq(s, a + 1, a + n)
<1>. DEFINE u == SubSeq(s, a + 1, m)
            v == SubSeq(u, 1, n)
            w == SubSeq(s, a + 1, a + n)
<1>1. u \in Seq(S) /\ Len(u) = m - a /\ \A i \in 1..(m - a) : u[i] = s[a + i]
  OBVIOUS
<1>. HIDE DEF u
<1>2. v \in Seq(S) /\ Len(v) = n /\ \A i \in 1..n : v[i] = u[i]
  BY <1>1
<1>3. w \in Seq(S) /\ Len(w) = n /\ \A i \in 1..n : w[i] = s[a + i]
  <2>1. a + 1 \in Int /\ a + n \in Int /\ \A i \in (a + 1)..(a + n) : s[i] \in S
    OBVIOUS
  <2>2. /\ w \in Seq(S)
        /\ Len(w) = IF a + 1 <= a + n THEN (a + n) - (a + 1) + 1 ELSE 0
        /\ \A i \in 1..((a + n) - (a + 1) + 1) : w[i] = s[(a + 1) + i - 1]
    BY <2>1, SubSeqProperties
  <2>3. /\ \A i \in 1..n : (a + 1) + i - 1 = a + i
        /\ (a + n) - (a + 1) + 1 = n
        /\ n = IF a + 1 <= a + n THEN n ELSE 0
    OBVIOUS
  <2>. HIDE DEF w
  <2>4. \A i \in 1..n : w[i] = s[a + i]
    BY <2>2, <2>3
  <2>. QED  BY <2>2, <2>3, <2>4
<1>. HIDE DEF v, w
<1>4. \A i \in 1..n : v[i] = w[i]
  <2>1. ASSUME NEW i \in 1..n PROVE v[i] = w[i]
    <3>1. i \in 1..(m - a)
      OBVIOUS
    <3>. QED  BY <3>1, <1>1, <1>2, <1>3
  <2>. QED  BY <2>1
<1>5. v = w
  BY <1>2, <1>3, <1>4, SeqEqual
<1>. QED  BY <1>1, <1>5 DEF u, v, w

\* A page shows the lines from its offset to its next one, and moves on.
LEMMA PageIsPart ==
  ASSUME NEW text \in Seq(Lines), NEW offset \in 0..Len(text), NEW limit \in Nat \ {0}, NEW allowance,
         NEW page, page = Page(text, offset, limit, allowance), page.ok
  PROVE  /\ page.next \in offset..Len(text)
         /\ page.text = SubSeq(text, offset + 1, page.next)
         /\ page.next = Len(text) \/ page.next > offset
<1>. DEFINE m == Min({offset + limit, Len(text)})
            full == SubSeq(text, offset + 1, m)
            size == IF Fits(full, allowance) THEN Len(full) ELSE Prefix(full, 1, allowance)
<1>1. Len(text) \in Nat /\ offset \in Nat
  OBVIOUS
<1>2. m \in offset..Len(text) /\ (m = Len(text) \/ m > offset)
  <2>. DEFINE T == {offset + limit, Len(text)}
  <2>1. T \in SUBSET Nat /\ T # {}
    BY <1>1
  <2>2. Min(T) \in T /\ \A y \in T : Min(T) <= y
    BY <2>1, MinIsLeast
  <2>. QED  BY <2>2, <1>1
<1>3. page = [ok |-> size >= 0, text |-> SubSeq(full, 1, size), next |-> offset + size]
  BY DEF Page
<1>. HIDE DEF m
<1>4. full \in Seq(Lines) /\ Len(full) = m - offset
  <2>1. 0 \in 0..(m - offset)
    BY <1>1, <1>2
  <2>. QED  BY <1>1, <1>2, <2>1, PartOfPart
<1>5. size \in {-1} \cup (0..(m - offset)) /\ (size >= 0 => size = m - offset \/ size > 0)
  <2>1. CASE Fits(full, allowance)
    BY <1>1, <1>2, <1>4, <2>1
  <2>2. CASE ~Fits(full, allowance)
    <3>0. Len(full) \in Nat /\ 1 \in Nat
      BY <1>4
    <3>1. Prefix(full, 1, allowance) \in {-1} \cup (1..Len(full))
      BY <3>0, PrefixIsOne
    <3>. QED  BY <1>1, <1>2, <1>4, <2>2, <3>1
  <2>. QED  BY <2>1, <2>2
<1>. HIDE DEF size
<1>6. size >= 0
  <2>1. page.ok = (size >= 0)
    BY ONLY <1>3
  <2>. QED  BY <2>1
<1>7. size \in 0..(m - offset)
  BY <1>5, <1>6
<1>8. SubSeq(full, 1, size) = SubSeq(text, offset + 1, offset + size)
  BY <1>1, <1>2, <1>7, PartOfPart
<1>. HIDE DEF full
<1>9. /\ page.next = offset + size
      /\ page.text = SubSeq(text, offset + 1, offset + size)
  <2>. DEFINE excerpt == SubSeq(full, 1, size)
              next == offset + size
              fits == size >= 0
  <2>1. page = [ok |-> fits, text |-> excerpt, next |-> next]
    BY <1>3
  <2>. HIDE DEF excerpt, next, fits
  <2>2. page.text = excerpt /\ page.next = next
    BY <2>1
  <2>. QED  BY <2>2, <1>8 DEF excerpt, next
<1>10. /\ page.next \in offset..Len(text)
       /\ page.text = SubSeq(text, offset + 1, page.next)
       /\ page.next = Len(text) \/ page.next > offset
  BY <1>1, <1>2, <1>5, <1>6, <1>7, <1>9
<1>. QED  BY <1>10

StoredKinds == {"source", "section", "chunk_id", "json_path"}

\* A result that can be stored.
Stored(doc) == doc # NoDocument /\ doc.parts \in Seq(Seq(Lines)) /\ Source(doc) \in Seq(Lines)

LEMMA QuotedIsText ==
  ASSUME NEW text \in Seq(Lines) PROVE Quoted(text) \in Seq(Lines)
<1>. DEFINE q(i) == [text[i] EXCEPT !.quoted = TRUE, !.level = 0, !.fence = ""]
<1>1. \A i \in 1..Len(text) : q(i) \in Lines
  <2>1. ASSUME NEW i \in 1..Len(text) PROVE q(i) \in Lines
    <3>1. text[i] \in Lines
      OBVIOUS
    <3>. DEFINE one == [text[i] EXCEPT !.quoted = TRUE]
                two == [one EXCEPT !.level = 0]
    <3>2. one \in Lines
      BY <3>1 DEF Lines
    <3>. HIDE DEF one
    <3>3. two \in Lines
      BY <3>2 DEF Lines
    <3>. HIDE DEF two
    <3>4. [two EXCEPT !.fence = ""] \in Lines
      BY <3>3 DEF Lines
    <3>. QED  BY <3>4 DEF one, two
  <2>. HIDE DEF q
  <2>. QED  BY <2>1
<1>2. Quoted(text) = [i \in 1..Len(text) |-> q(i)]
  BY DEF Quoted
<1>. HIDE DEF q
<1>3. [i \in 1..Len(text) |-> q(i)] \in Seq(Lines)
  BY <1>1
<1>. QED  BY <1>2, <1>3

\* What a heading heads ends after it, within the text, at a heading of its rank or above.
LEMMA SectionIsPart ==
  ASSUME NEW text \in Seq(Lines), NEW title, Section(text, title) # <<>>
  PROVE  /\ Section(text, title) = <<Section(text, title)[1], Section(text, title)[2]>>
         /\ Section(text, title)[1] \in 0..Len(text)
         /\ Section(text, title)[2] \in Section(text, title)[1]..Len(text)
         /\ Section(text, title)[2] < Len(text) =>
               text[Section(text, title)[2] + 1].level \in 1..text[Section(text, title)[1] + 1].level
<1>. DEFINE named == {i \in Headings(text) : text[i].word = title}
            first == Min(named)
            after == {h \in Headings(text) : h > first /\ text[h].level <= text[first].level}
            ends == {Len(text)} \cup {i - 1 : i \in after}
<1>1. Len(text) \in Nat /\ Headings(text) \subseteq 1..Len(text) /\ \A i \in Headings(text) : text[i].level \in 1..6
  <2>1. Headings(text) \subseteq DOMAIN text
    BY Zenon DEF Headings
  <2>2. \A i \in Headings(text) : text[i].level \in 1..6
    BY Zenon DEF Headings
  <2>. QED  BY <2>1, <2>2
<1>. HIDE DEF named, first, after, ends
<1>2. Section(text, title) = IF named = {} THEN <<>> ELSE <<first - 1, Min(ends)>>
  BY DEF Section, named, first, after, ends
<1>3. named # {} /\ Section(text, title) = <<first - 1, Min(ends)>>
  BY <1>2
<1>4. first \in named /\ first \in 1..Len(text) /\ first \in Headings(text)
  <2>1. named \in SUBSET Nat
    BY <1>1 DEF named
  <2>2. first \in named
    BY <1>3, <2>1, MinIsLeast DEF first
  <2>. QED  BY <2>2, <1>1 DEF named
<1>5. \A h \in after : h \in 1..Len(text) /\ h > first /\ h - 1 \in first..Len(text)
  BY <1>1, <1>4 DEF after
<1>6. ends \in SUBSET Nat /\ ends # {} /\ \A x \in ends : x \in first..Len(text)
  BY <1>1, <1>4, <1>5 DEF ends
<1>7. Min(ends) \in ends
  BY <1>6, MinIsLeast
<1>8. Min(ends) \in first..Len(text) /\ (Min(ends) = Len(text) \/ \E h \in after : Min(ends) = h - 1)
  BY <1>6, <1>7 DEF ends
<1>9. ASSUME Min(ends) < Len(text)
      PROVE  text[Min(ends) + 1].level \in 1..text[first].level
  <2>1. PICK h \in after : Min(ends) = h - 1
    BY <1>1, <1>8, <1>9
  <2>2. Min(ends) + 1 = h
    BY <2>1, <1>5
  <2>3. text[h].level \in 1..6 /\ text[h].level <= text[first].level /\ text[first].level \in 1..6
    BY <2>1, <1>1, <1>4 DEF after
  <2>. QED  BY <2>2, <2>3
<1>10. first - 1 \in 0..Len(text) /\ Min(ends) \in (first - 1)..Len(text) /\ first - 1 + 1 = first
  BY <1>1, <1>4, <1>8
<1>. DEFINE x == first - 1
            y == Min(ends)
<1>11. /\ Section(text, title) = <<x, y>> /\ x \in 0..Len(text) /\ y \in x..Len(text)
       /\ y < Len(text) => text[y + 1].level \in 1..text[x + 1].level
  BY <1>3, <1>9, <1>10
<1>. HIDE DEF x, y
<1>12. Section(text, title)[1] = x /\ Section(text, title)[2] = y
  BY <1>11
<1>. QED  BY <1>11, <1>12

\* A view of a stored result is a text.
LEMMA ViewIsText ==
  ASSUME NEW doc, Stored(doc), NEW sel, sel.kind \in StoredKinds, View(doc, sel).found
  PROVE  View(doc, sel).text \in Seq(Lines)
<1>0. doc.parts \in Seq(Seq(Lines)) /\ Source(doc) \in Seq(Lines)
      /\ \A i \in DOMAIN doc.parts : doc.parts[i] \in Seq(Lines)
  BY DEF Stored
<1>1. CASE sel.kind = "source"
  <2>1. View(doc, sel) = Found(Source(doc))
    BY <1>1 DEF View
  <2>. QED  BY <1>0, <2>1 DEF Found
<1>2. CASE sel.kind = "json_path"
  <2>1. View(doc, sel) = AtPath(doc, sel.value)
    BY <1>2 DEF View
  <2>2. AtPath(doc, sel.value).found
    BY <2>1
  <2>3. doc.kind # "text"
    BY <2>2 DEF AtPath, NotFound
  <2>4. CASE sel.value = 0
    <3>1. AtPath(doc, sel.value).text = Source(doc)
      BY <2>3, <2>4 DEF AtPath, Found, Source
    <3>. QED  BY <2>1, <3>1, <1>0
  <2>5. CASE sel.value # 0
    <3>1. sel.value \in DOMAIN doc.parts
      BY <2>2, <2>3, <2>5 DEF AtPath, NotFound
    <3>2. AtPath(doc, sel.value).text = doc.parts[sel.value] \/ AtPath(doc, sel.value).text = Quoted(doc.parts[sel.value])
      BY <2>3, <2>5, <3>1 DEF AtPath, Found
    <3>. QED  BY <2>1, <3>1, <3>2, <1>0, QuotedIsText
  <2>. QED  BY <2>4, <2>5
<1>3. CASE sel.kind = "chunk_id"
  <2>1. View(doc, sel) = Chunk(doc, sel.value)
    BY <1>3 DEF View
  <2>2. Chunk(doc, sel.value).found
    BY <2>1
  <2>3. doc.kind = "knowledge" /\ sel.value \in DOMAIN doc.parts
    BY <2>2 DEF Chunk, NotFound
  <2>4. Chunk(doc, sel.value).text = Quoted(doc.parts[sel.value])
    BY <2>3 DEF Chunk, Found
  <2>. QED  BY <2>1, <2>3, <2>4, <1>0, QuotedIsText
<1>4. CASE sel.kind = "section"
  <2>. DEFINE text == Source(doc)
              at == Section(text, sel.value)
  <2>1. View(doc, sel) = IF at = <<>> \/ at[1] # sel.start THEN NotFound ELSE Found(SubSeq(text, at[1] + 1, at[2]))
    BY <1>4 DEF View
  <2>. DEFINE cut == SubSeq(text, at[1] + 1, at[2])
  <2>2. at # <<>> /\ View(doc, sel) = Found(cut)
    BY <2>1 DEF NotFound
  <2>. HIDE DEF cut
  <2>3. View(doc, sel).text = cut
    BY <2>2 DEF Found
  <2>4. text \in Seq(Lines)
    BY <1>0
  <2>. HIDE DEF text
  <2>5. at[1] \in 0..Len(text) /\ at[2] \in at[1]..Len(text)
    BY <2>2, <2>4, SectionIsPart
  <2>. HIDE DEF at
  <2>6. at[1] \in Nat /\ 0 \in 0..(at[2] - at[1])
    BY <2>4, <2>5
  <2>7. cut \in Seq(Lines)
    BY <2>4, <2>5, <2>6, PartOfPart DEF cut
  <2>. QED  BY <2>3, <2>7
<1>. QED  BY <1>1, <1>2, <1>3, <1>4 DEF StoredKinds

\* The view of a section, and where it ends.
LEMMA SectionViewIsPart ==
  ASSUME NEW doc, Stored(doc), NEW sel, sel.kind = "section", View(doc, sel).found,
         sel.start + Len(View(doc, sel).text) < Len(Source(doc))
  PROVE  Source(doc)[sel.start + Len(View(doc, sel).text) + 1].level \in 1..Source(doc)[sel.start + 1].level
<1>. DEFINE text == Source(doc)
            at == Section(text, sel.value)
            excerpt == SubSeq(text, at[1] + 1, at[2])
<1>0. text \in Seq(Lines)
  BY DEF Stored
<1>1. View(doc, sel) = IF at = <<>> \/ at[1] # sel.start THEN NotFound ELSE Found(excerpt)
  BY DEF View
<1>. HIDE DEF excerpt
<1>2. at # <<>> /\ at[1] = sel.start /\ View(doc, sel).text = excerpt
  BY <1>1 DEF NotFound, Found
<1>. HIDE DEF text
<1>3. /\ at[1] \in 0..Len(text) /\ at[2] \in at[1]..Len(text)
      /\ at[2] < Len(text) => text[at[2] + 1].level \in 1..text[at[1] + 1].level
  BY <1>0, <1>2, SectionIsPart
<1>. HIDE DEF at
<1>4. at[1] \in Nat /\ at[2] \in Nat /\ 0 \in 0..(at[2] - at[1])
  BY <1>0, <1>3
<1>5. Len(excerpt) = at[2] - at[1]
  BY <1>0, <1>3, <1>4, PartOfPart DEF excerpt
<1>6. sel.start + Len(View(doc, sel).text) = at[2]
  BY <1>2, <1>4, <1>5
<1>7. at[2] < Len(text)
  BY <1>6 DEF text
<1>8. text[at[2] + 1].level \in 1..text[at[1] + 1].level
  BY <1>3, <1>7
<1>. QED  BY <1>2, <1>6, <1>8 DEF text

\* What the invariant says of one page, one reference and one piece of evidence,
\* given the stored result that it is of.
GoodPage(doc, p) ==
    LET view == View(doc, p.sel)
        end == p.sel.start + p.next
    IN  /\ doc # NoDocument /\ p.sel.kind \in StoredKinds
        /\ view.found /\ p.offset \in Nat /\ p.next \in p.offset..Len(view.text)
        /\ p.text = SubSeq(view.text, p.offset + 1, p.next)
        /\ p.complete <=> p.next = Len(view.text)
        /\ p.complete \/ p.next > p.offset
        /\ p.sel.kind = "section" /\ p.complete /\ end < Len(Source(doc)) =>
              Source(doc)[end + 1].level \in 1..Source(doc)[p.sel.start + 1].level

GoodRef(doc, r, pages) ==
    /\ r.owner \in Research /\ doc # NoDocument
    /\ r.sel.kind # "none" => /\ \E p \in pages : PageOf(r, p)
                              /\ r.total = Len(View(doc, r.sel).text)

GoodPiece(doc, e, pages) ==
    /\ e.owner \in Research /\ doc # NoDocument
    /\ e.sel.kind # "none" =>
          \E t \in Research : \E p \in pages[t] :
              /\ p.owner = e.owner /\ p.sel = e.sel /\ p.offset = e.offset
              /\ IsPrefix(e.text, p.text)
              /\ e.next = e.offset + Len(e.text)
    /\ e.complete => e.text = Source(doc)

AllPagesGood == \A t \in Research : \A p \in shown[t] : p.owner \in Research /\ GoodPage(kept[p.owner], p)
AllRefsGood == \A t \in Research : \A r \in refs[t] : GoodRef(kept[r.owner], r, shown[t])
AllPiecesGood == \A e \in evidence.pieces : GoodPiece(kept[e.owner], e, shown)

LEMMA PagesByPart == AllPagesGood <=> PagesMissNothing /\ SectionsAreWhole /\ PagesAreKept
<1>1. ASSUME AllPagesGood PROVE PagesMissNothing /\ SectionsAreWhole /\ PagesAreKept
  BY <1>1 DEF AllPagesGood, GoodPage, PagesMissNothing, SectionsAreWhole, PagesAreKept, StoredKinds
<1>2. ASSUME PagesMissNothing, SectionsAreWhole, PagesAreKept PROVE AllPagesGood
  BY <1>2 DEF AllPagesGood, GoodPage, PagesMissNothing, SectionsAreWhole, PagesAreKept, StoredKinds
<1>. QED  BY <1>1, <1>2

LEMMA ReadingByParts ==
  ReadingInv <=> ReadingTypeOK /\ AllPagesGood /\ AllRefsGood /\ AllPiecesGood
<1>1. AllRefsGood /\ AllPiecesGood <=> ReferencesStand /\ EvidenceIsWhatWasRead /\ CompleteIsAll
  BY DEF AllRefsGood, AllPiecesGood, ReferencesStand, RefersTo, GoodRef, GoodPiece,
         EvidenceIsWhatWasRead, CompleteIsAll
<1>. QED  BY <1>1, PagesByPart DEF ReadingInv

LEMMA ReadingByPartsNext ==
  ReadingInv' <=> ReadingTypeOK' /\ AllPagesGood' /\ AllRefsGood' /\ AllPiecesGood'
BY ReadingByParts, PTL

LEMMA ReadingStarts == ReadingInit => ReadingInv
<1>. SUFFICES ASSUME ReadingInit PROVE ReadingInv
  OBVIOUS
<1>1. evidence.pieces = {} /\ \A t \in Research : refs[t] = {} /\ shown[t] = {} /\ kept[t] = NoDocument
  BY DEF ReadingInit, NoEvidence
<1>2. ReadingTypeOK
  <2>1. IsFiniteSet({}) /\ Cardinality({}) = 0
    BY FS_EmptySet
  <2>2. evidence = [state |-> "none", pieces |-> {}]
    BY DEF ReadingInit, NoEvidence
  <2>3. \A t \in Research : IsFiniteSet(refs[t]) /\ Cardinality(refs[t]) <= IF kept[t] = NoDocument THEN MaxPages ELSE MaxPages + 1
    <3>1. ASSUME NEW t \in Research
          PROVE  IsFiniteSet(refs[t]) /\ Cardinality(refs[t]) <= IF kept[t] = NoDocument THEN MaxPages ELSE MaxPages + 1
      <4>1. refs[t] = {} /\ kept[t] = NoDocument
        BY <1>1
      <4>2. IsFiniteSet(refs[t]) /\ Cardinality(refs[t]) = 0
        BY <4>1, <2>1
      <4>3. MaxPages \in Nat
        BY ReadingAssumption
      <4>. QED  BY <4>1, <4>2, <4>3
    <3>. QED  BY <3>1
  <2>4. /\ DOMAIN kept = Research /\ DOMAIN refs = Research /\ DOMAIN shown = Research
        /\ status \in [Tasks -> {"waiting", "running", "success", "error"}]
    BY DEF ReadingInit
  <2>5. evidence = [state |-> evidence.state, pieces |-> evidence.pieces] /\ evidence.state = "none"
    BY <2>2
  <2>. QED  BY <1>1, <2>3, <2>4, <2>5 DEF ReadingTypeOK
<1>3. AllPagesGood /\ AllRefsGood /\ AllPiecesGood
  BY <1>1 DEF AllPagesGood, AllRefsGood, AllPiecesGood
<1>. QED  BY <1>2, <1>3, ReadingByParts

\* A step that keeps pages and evidence, and every result that is stored, keeps what is good.
LEMMA GoodStays ==
  ASSUME ReadingInv, UNCHANGED <<shown, evidence>>,
         \A u \in Research : kept[u] # NoDocument => kept'[u] = kept[u]
  PROVE  AllPagesGood' /\ AllPiecesGood'
<1>1. AllPagesGood /\ AllPiecesGood
  BY ReadingByParts
<1>2. AllPagesGood'
  <2>1. ASSUME NEW t \in Research, NEW p \in shown[t]
        PROVE  p.owner \in Research /\ GoodPage(kept'[p.owner], p)
    <3>1. p.owner \in Research /\ GoodPage(kept[p.owner], p)
      BY <1>1 DEF AllPagesGood
    <3>2. kept[p.owner] # NoDocument
      BY <3>1 DEF GoodPage
    <3>. QED  BY <3>1, <3>2
  <2>2. \A t \in Research : \A p \in shown'[t] : p.owner \in Research /\ GoodPage(kept'[p.owner], p)
    BY <2>1
  <2>. QED  BY <2>2 DEF AllPagesGood, GoodPage, View, AtPath, Chunk, Source
<1>3. AllPiecesGood'
  <2>1. ASSUME NEW e \in evidence.pieces
        PROVE  GoodPiece(kept'[e.owner], e, shown)
    <3>1. GoodPiece(kept[e.owner], e, shown)
      BY <1>1 DEF AllPiecesGood
    <3>2. kept[e.owner] # NoDocument /\ e.owner \in Research
      BY <3>1 DEF GoodPiece
    <3>. QED  BY <3>1, <3>2
  <2>. QED  BY <2>1 DEF AllPiecesGood, GoodPiece
<1>. QED  BY <1>2, <1>3

\* Tasks that begin and end, and results that expire.
LEMMA TasksKeep ==
  ASSUME ReadingInv, UNCHANGED <<kept, refs, shown, evidence>>,
         status' \in [Tasks -> {"waiting", "running", "success", "error"}]
  PROVE  ReadingInv'
<1>1. AllPagesGood' /\ AllPiecesGood'
  BY GoodStays
<1>2. AllRefsGood'
  <2>1. AllRefsGood
    BY ReadingByParts
  <2>. QED  BY <2>1 DEF AllRefsGood, GoodRef
<1>3. ReadingTypeOK'
  BY DEF ReadingInv, ReadingTypeOK
<1>. QED  BY <1>1, <1>2, <1>3, ReadingByPartsNext

\* What is stored is a result that can be stored.
LEMMA KeptIsStored ==
  ASSUME ReadingInv, NEW u \in Research, kept[u] # NoDocument
  PROVE  Stored(kept[u])
BY ReadingAssumption DEF ReadingInv, ReadingTypeOK, Stored

LEMMA StoreKeeps ==
  ASSUME ReadingInv, NEW t \in Research, NEW doc \in Documents[t], Store(t, doc)
  PROVE  ReadingInv'
<1>. DEFINE ref == Reference(t, Unselected, 0, 0, 0)
<1>1. /\ kept[t] = NoDocument /\ kept' = [kept EXCEPT ![t] = doc]
      /\ refs' = [refs EXCEPT ![t] = @ \cup {ref}]
      /\ UNCHANGED <<status, shown, expired, evidence>>
  BY DEF Store
<1>2. doc # NoDocument
  BY ReadingAssumption
<1>3. DOMAIN kept = Research /\ DOMAIN refs = Research
  BY DEF ReadingInv, ReadingTypeOK
<1>4. ref.owner = t /\ ref.sel.kind = "none"
  BY DEF Reference, Unselected, Selection
<1>. HIDE DEF ref
<1>5. /\ kept'[t] = doc /\ \A u \in Research \ {t} : kept'[u] = kept[u] /\ refs'[u] = refs[u]
      /\ refs'[t] = refs[t] \cup {ref}
      /\ DOMAIN kept' = Research /\ DOMAIN refs' = Research
  BY <1>1, <1>3
<1>6. \A u \in Research : kept[u] # NoDocument => kept'[u] = kept[u]
  BY <1>1, <1>5
<1>7. AllPagesGood' /\ AllPiecesGood'
  BY <1>1, <1>6, GoodStays
<1>8. AllRefsGood'
  <2>1. ASSUME NEW u \in Research, NEW r \in refs'[u]
        PROVE  GoodRef(kept'[r.owner], r, shown[u])
    <3>1. CASE r \in refs[u]
      <4>1. GoodRef(kept[r.owner], r, shown[u])
        BY <3>1, ReadingByParts DEF AllRefsGood
      <4>2. r.owner \in Research /\ kept[r.owner] # NoDocument
        BY <4>1 DEF GoodRef
      <4>. QED  BY <4>1, <4>2, <1>6
    <3>2. CASE r \notin refs[u]
      <4>1. r = ref
        BY <3>2, <1>5
      <4>. QED  BY <4>1, <1>2, <1>4, <1>5 DEF GoodRef
    <3>. QED  BY <3>1, <3>2
  <2>. QED  BY <1>1, <2>1 DEF AllRefsGood, GoodRef
<1>9. ReadingTypeOK'
  <2>1. \A u \in Research : kept'[u] \in Documents[u] \cup {NoDocument}
    BY <1>5 DEF ReadingInv, ReadingTypeOK
  <2>2. ASSUME NEW u \in Research
        PROVE  /\ IsFiniteSet(refs'[u])
               /\ Cardinality(refs'[u]) <= IF kept'[u] = NoDocument THEN MaxPages ELSE MaxPages + 1
    <3>1. /\ IsFiniteSet(refs[u]) /\ Cardinality(refs[u]) \in Nat
          /\ Cardinality(refs[u]) <= IF kept[u] = NoDocument THEN MaxPages ELSE MaxPages + 1
      BY FS_CardinalityType DEF ReadingInv, ReadingTypeOK
    <3>2. CASE u # t
      BY <3>1, <3>2, <1>5
    <3>3. CASE u = t
      <4>1. Cardinality(refs[u]) <= MaxPages
        BY <3>1, <3>3, <1>1
      <4>2. IsFiniteSet(refs'[u]) /\ Cardinality(refs'[u]) <= Cardinality(refs[u]) + 1
        <5>1. refs'[u] = refs[u] \cup {ref}
          BY <3>3, <1>5
        <5>2. /\ IsFiniteSet(refs[u] \cup {ref})
              /\ Cardinality(refs[u] \cup {ref}) =
                    IF ref \in refs[u] THEN Cardinality(refs[u]) ELSE Cardinality(refs[u]) + 1
          BY <3>1, FS_AddElement
        <5>. QED  BY <5>1, <5>2, <3>1
      <4>3. MaxPages \in Nat /\ Cardinality(refs'[u]) \in Nat
        BY <4>2, ReadingAssumption, FS_CardinalityType
      <4>4. Cardinality(refs'[u]) <= MaxPages + 1
        BY <3>1, <4>1, <4>2, <4>3
      <4>5. kept'[u] # NoDocument
        BY <3>3, <1>2, <1>5
      <4>. QED  BY <4>2, <4>4, <4>5
    <3>. QED  BY <3>2, <3>3
  <2>. QED  BY <1>1, <1>5, <2>1, <2>2 DEF ReadingInv, ReadingTypeOK
<1>. QED  BY <1>7, <1>8, <1>9, ReadingByPartsNext

\* What a call asks for is a view that a reference can name.
LEMMA AskedIsStored ==
  ASSUME NEW doc, NEW call \in Calls
  PROVE  Asked(doc, call.locator, call.value, call.keyword).kind \in StoredKinds
<1>1. call.locator \in {"source", "keyword", "section", "chunk_id", "json_path"}
  BY DEF Calls, Call
<1>2. \A k, v, f : Selection(k, v, f).kind = k
  BY DEF Selection
<1>3. CASE call.locator = "source"
  BY <1>2, <1>3 DEF Asked, WholeSource, StoredKinds
<1>4. CASE call.locator = "keyword"
  BY <1>2, <1>4 DEF Asked, TextPath, WholeSource, StoredKinds
<1>5. CASE call.locator = "section"
  BY <1>2, <1>5 DEF Asked, StoredKinds
<1>6. CASE call.locator = "chunk_id" \/ call.locator = "json_path"
  BY <1>2, <1>6 DEF Asked, StoredKinds
<1>. QED  BY <1>1, <1>3, <1>4, <1>5, <1>6

\* Where a keyword is found.
LEMMA LocatedIsOne ==
  ASSUME NEW text \in Seq(Lines), NEW keyword, NEW offset \in Nat
  PROVE  Locate(text, keyword, offset) \in {-1} \cup (0..Len(text))
<1>. DEFINE at == {i \in DOMAIN text : i > offset /\ text[i].word = keyword}
<1>1. Len(text) \in Nat /\ at \in SUBSET (1..Len(text)) /\ at \in SUBSET Nat
  OBVIOUS
<1>2. Locate(text, keyword, offset) = IF at = {} THEN -1 ELSE Min(at) - 1
  BY DEF Locate
<1>. HIDE DEF at
<1>3. at # {} => Min(at) \in at
  BY <1>1, MinIsLeast
<1>4. CASE at = {}
  BY <1>2, <1>4
<1>5. CASE at # {}
  <2>1. Min(at) \in 1..Len(text)
    BY <1>1, <1>3, <1>5
  <2>2. Locate(text, keyword, offset) = Min(at) - 1
    BY <1>2, <1>5
  <2>. QED  BY <2>1, <2>2, <1>1
<1>. QED  BY <1>4, <1>5

\* The page that a call shows is good.
LEMMA ReadPageIsGood ==
  ASSUME NEW doc, Stored(doc), NEW call \in Calls, NEW from \in Nat, NEW limit \in Nat \ {0}, NEW allowance,
         NEW sel, sel = Asked(doc, call.locator, call.value, call.keyword),
         View(doc, sel).found, from <= Len(View(doc, sel).text),
         NEW offset, offset = IF call.keyword = 0 THEN from ELSE Locate(View(doc, sel).text, call.keyword, from),
         offset >= 0,
         NEW page, page = Page(View(doc, sel).text, offset, limit, allowance), page.ok,
         NEW p, NEW owner,
         p = [owner |-> owner, sel |-> sel, offset |-> offset, next |-> page.next,
              text |-> page.text, complete |-> page.next = Len(View(doc, sel).text)]
  PROVE  GoodPage(doc, p)
<1>. DEFINE text == View(doc, sel).text
<1>1. sel.kind \in StoredKinds
  BY AskedIsStored
<1>2. text \in Seq(Lines)
  BY <1>1, ViewIsText
<1>3. offset \in 0..Len(text)
  <2>1. Locate(text, call.keyword, from) \in {-1} \cup (0..Len(text))
    BY <1>2, LocatedIsOne
  <2>2. Len(text) \in Nat
    BY <1>2
  <2>. QED  BY <2>1, <2>2
<1>. HIDE DEF text
<1>4. /\ page.next \in offset..Len(text)
      /\ page.text = SubSeq(text, offset + 1, page.next)
      /\ page.next = Len(text) \/ page.next > offset
  <2>1. page = Page(text, offset, limit, allowance)
    BY DEF text
  <2>2. page.ok /\ limit \in Nat \ {0}
    OBVIOUS
  <2>. QED  BY ONLY <1>2, <1>3, <2>1, <2>2, PageIsPart
<1>5. /\ p.owner = owner /\ p.sel = sel /\ p.offset = offset /\ p.next = page.next /\ p.text = page.text
      /\ p.complete = (page.next = Len(text))
  BY DEF text
<1>6. p.complete <=> p.next = Len(text)
  BY <1>5
<1>7. ASSUME p.sel.kind = "section", p.complete, p.sel.start + p.next < Len(Source(doc))
      PROVE  Source(doc)[p.sel.start + p.next + 1].level \in 1..Source(doc)[p.sel.start + 1].level
  BY <1>5, <1>6, <1>7, SectionViewIsPart DEF text
<1>8. doc # NoDocument
  BY DEF Stored
<1>9. p.offset \in Nat /\ p.next \in p.offset..Len(text) /\ p.text = SubSeq(text, p.offset + 1, p.next)
      /\ (p.complete \/ p.next > p.offset)
  <2>1. offset \in Nat
    BY <1>2, <1>3
  <2>2. p.next = Len(text) \/ p.next > p.offset
    BY <1>4, <1>5
  <2>. QED  BY <2>1, <2>2, <1>4, <1>5, <1>6
<1>. QED  BY <1>1, <1>5, <1>6, <1>7, <1>8, <1>9 DEF GoodPage, text

LEMMA ReadableIsStored ==
  ASSUME NEW t \in Research, NEW owner \in Readable(t)
  PROVE  owner \in Research /\ kept[owner] # NoDocument
<1>1. Ancestors(t) \subseteq Research
  BY Zenon DEF Ancestors
<1>2. Grants(t) \subseteq Ancestors(t)
  BY DEF Grants
<1>. QED  BY <1>1, <1>2 DEF Readable

LEMMA ReadKeeps ==
  ASSUME ReadingInv, NEW t \in Research, NEW owner \in Readable(t), NEW call \in Calls,
         NEW from \in Offsets, NEW limit \in Limits, NEW allowance \in Allowances,
         Read(t, owner, call.locator, call.value, call.keyword, from, limit, allowance)
  PROVE  ReadingInv'
<1>. DEFINE doc == kept[owner]
            sel == Asked(doc, call.locator, call.value, call.keyword)
            view == View(doc, sel)
            offset == IF call.keyword = 0 THEN from ELSE Locate(view.text, call.keyword, from)
            page == Page(view.text, offset, limit, allowance)
            total == Len(view.text)
            ref == Reference(owner, sel, offset, page.next, total)
            p == [owner |-> owner, sel |-> sel, offset |-> offset, next |-> page.next,
                  text |-> page.text, complete |-> page.next = total]
<1>1. /\ Cardinality(refs[t]) < MaxPages
      /\ view.found /\ from <= total /\ offset >= 0 /\ page.ok
      /\ refs' = [refs EXCEPT ![t] = @ \cup {ref}]
      /\ shown' = [shown EXCEPT ![t] = @ \cup {p}]
      /\ UNCHANGED <<kept, status, expired, evidence>>
  BY DEF Read
<1>2. owner \in Research /\ doc # NoDocument
  BY ReadableIsStored
<1>3. GoodPage(doc, p)
  <2>1. Stored(doc) /\ from \in Nat /\ limit \in Nat \ {0} /\ call \in Calls
    BY <1>2, KeptIsStored, ReadingAssumption
  <2>2. /\ sel = Asked(doc, call.locator, call.value, call.keyword)
        /\ offset = IF call.keyword = 0 THEN from ELSE Locate(View(doc, sel).text, call.keyword, from)
        /\ page = Page(View(doc, sel).text, offset, limit, allowance)
        /\ View(doc, sel).found /\ from <= Len(View(doc, sel).text) /\ offset >= 0 /\ page.ok
        /\ p = [owner |-> owner, sel |-> sel, offset |-> offset, next |-> page.next,
                text |-> page.text, complete |-> page.next = Len(View(doc, sel).text)]
    BY <1>1
  <2>. HIDE DEF doc, sel, view, offset, page, total, ref, p
  <2>. QED  BY <2>1, <2>2, ReadPageIsGood
<1>4. /\ p.owner = owner /\ p.sel = sel /\ p.offset = offset /\ p.next = page.next
      /\ ref.owner = owner /\ ref.sel = sel /\ ref.offset = offset /\ ref.next = page.next /\ ref.total = total
  BY DEF Reference
<1>5. GoodRef(doc, ref, shown[t] \cup {p})
  <2>1. ref.total = Len(View(doc, ref.sel).text)
    BY <1>4
  <2>2. PageOf(ref, p)
    BY <1>4 DEF PageOf
  <2>. QED  BY <1>2, <1>4, <2>1, <2>2 DEF GoodRef
<1>. HIDE DEF doc, sel, view, offset, page, total, ref, p
<1>6. /\ refs'[t] = refs[t] \cup {ref} /\ shown'[t] = shown[t] \cup {p}
      /\ \A u \in Research \ {t} : refs'[u] = refs[u] /\ shown'[u] = shown[u]
      /\ DOMAIN refs' = Research /\ DOMAIN shown' = Research /\ kept' = kept
  BY <1>1 DEF ReadingInv, ReadingTypeOK
<1>7. AllPagesGood'
  <2>1. ASSUME NEW u \in Research, NEW q \in shown'[u]
        PROVE  q.owner \in Research /\ GoodPage(kept[q.owner], q)
    <3>1. CASE q \in shown[u]
      BY <3>1, ReadingByParts DEF AllPagesGood
    <3>2. CASE q \notin shown[u]
      <4>1. q = p
        BY <3>2, <1>6
      <4>. QED  BY <4>1, <1>2, <1>3, <1>4 DEF doc
    <3>. QED  BY <3>1, <3>2
  <2>. QED  BY <2>1, <1>6 DEF AllPagesGood, GoodPage
<1>8. AllRefsGood'
  <2>1. ASSUME NEW u \in Research, NEW r \in refs'[u]
        PROVE  GoodRef(kept[r.owner], r, shown'[u])
    <3>1. CASE r \in refs[u]
      <4>1. GoodRef(kept[r.owner], r, shown[u])
        BY <3>1, ReadingByParts DEF AllRefsGood
      <4>2. shown[u] \subseteq shown'[u]
        BY <1>6
      <4>. QED  BY <4>1, <4>2 DEF GoodRef
    <3>2. CASE r \notin refs[u]
      <4>1. r = ref /\ u = t
        BY <3>2, <1>6
      <4>. QED  BY <4>1, <1>4, <1>5, <1>6 DEF doc
    <3>. QED  BY <3>1, <3>2
  <2>. QED  BY <1>6, <2>1 DEF AllRefsGood, GoodRef
<1>9. AllPiecesGood'
  <2>1. ASSUME NEW e \in evidence.pieces
        PROVE  GoodPiece(kept[e.owner], e, shown')
    <3>1. GoodPiece(kept[e.owner], e, shown)
      BY ReadingByParts DEF AllPiecesGood
    <3>2. \A u \in Research : shown[u] \subseteq shown'[u]
      BY <1>6
    <3>. QED  BY <3>1, <3>2 DEF GoodPiece
  <2>. QED  BY <1>1, <2>1 DEF AllPiecesGood, GoodPiece
<1>10. ReadingTypeOK'
  <2>2. ASSUME NEW u \in Research
        PROVE  /\ IsFiniteSet(refs'[u])
               /\ Cardinality(refs'[u]) <= IF kept[u] = NoDocument THEN MaxPages ELSE MaxPages + 1
    <3>1. /\ IsFiniteSet(refs[u]) /\ Cardinality(refs[u]) \in Nat
          /\ Cardinality(refs[u]) <= IF kept[u] = NoDocument THEN MaxPages ELSE MaxPages + 1
      BY FS_CardinalityType DEF ReadingInv, ReadingTypeOK
    <3>2. CASE u # t
      BY <3>1, <3>2, <1>6
    <3>3. CASE u = t
      <4>1. Cardinality(refs[u]) < MaxPages /\ MaxPages \in Nat
        BY <3>3, <1>1, ReadingAssumption
      <4>2. /\ IsFiniteSet(refs[u] \cup {ref})
            /\ Cardinality(refs[u] \cup {ref}) =
                  IF ref \in refs[u] THEN Cardinality(refs[u]) ELSE Cardinality(refs[u]) + 1
        BY <3>1, FS_AddElement
      <4>3. refs'[u] = refs[u] \cup {ref}
        BY <3>3, <1>6
      <4>4. Cardinality(refs'[u]) <= MaxPages
        BY <3>1, <4>1, <4>2, <4>3
      <4>5. Cardinality(refs'[u]) \in Nat
        BY <3>1, <4>2, <4>3
      <4>. QED  BY <4>1, <4>2, <4>3, <4>4, <4>5
    <3>. QED  BY <3>2, <3>3
  <2>. QED  BY <1>1, <1>6, <2>2 DEF ReadingInv, ReadingTypeOK
<1>. QED  BY <1>7, <1>8, <1>9, <1>10, ReadingByPartsNext

\* A text begins with each of its prefixes.
LEMMA PrefixBegins ==
  ASSUME NEW s \in Seq(Lines), NEW n \in {-1} \cup (0..Len(s))
  PROVE  IsPrefix(SubSeq(s, 1, n), s)
<1>1. CASE n = -1
  <2>1. SubSeq(s, 1, n) = <<>> /\ SubSeq(s, 1, 0) = <<>> /\ SubSeq(<<>>, 1, 0) = <<>>
    BY <1>1, SubSeqEmpty
  <2>2. Len(<<>>) = 0 /\ Len(s) \in Nat
    OBVIOUS
  <2>. QED  BY <2>1, <2>2 DEF IsPrefix
<1>2. CASE n \in 0..Len(s)
  <2>. DEFINE u == SubSeq(s, 1, n)
  <2>0. n \in Nat /\ Len(s) \in Nat
    BY <1>2
  <2>1. \A i \in 1..n : s[i] \in Lines
    BY <1>2, <2>0
  <2>2. /\ u \in Seq(Lines)
        /\ Len(u) = IF 1 <= n THEN n - 1 + 1 ELSE 0
    BY <2>0, <2>1, SubSeqProperties
  <2>3. Len(u) = n
    BY <2>0, <2>2
  <2>. HIDE DEF u
  <2>4. SubSeq(u, 1, n) = u
    BY <2>2, <2>3, SubSeqFull
  <2>5. Len(u) <= Len(s) /\ SubSeq(u, 1, Len(u)) = SubSeq(s, 1, Len(u))
    BY <1>2, <2>3, <2>4 DEF u
  <2>. QED  BY <2>5 DEF IsPrefix, u
<1>. QED  BY <1>1, <1>2

\* What the review is given of a reference is good evidence.
LEMMA PieceIsGood ==
  ASSUME ReadingInv, NEW u \in Research, NEW r \in refs[u], NEW allowance,
         EvidenceView(kept[r.owner], r).found
  PROVE  GoodPiece(kept[r.owner], Piece(r, allowance), shown)
<1>. DEFINE doc == kept[r.owner]
            view == EvidenceView(doc, r).text
            cut == ~Fits(view, allowance)
            structured == doc.kind # "text" /\ r.sel.kind = "none"
            text == IF ~cut THEN view
                    ELSE IF structured THEN Members(doc, allowance)
                    ELSE SubSeq(view, 1, Prefix(view, 0, allowance))
            next == IF cut /\ structured THEN 0 ELSE r.offset + Len(text)
            whole == IsComplete(r, cut)
            e == Piece(r, allowance)
<1>1. e = [owner |-> r.owner, sel |-> r.sel, offset |-> r.offset, text |-> text, next |-> next, complete |-> whole]
  BY DEF Piece
<1>2. GoodRef(doc, r, shown[u])
  BY ReadingByParts DEF AllRefsGood
<1>3. r.owner \in Research /\ doc # NoDocument /\ Stored(doc)
  BY <1>2, KeptIsStored DEF GoodRef
<1>. HIDE DEF doc, view, next, whole, text, e
<1>4. /\ e.owner = r.owner /\ e.sel = r.sel /\ e.offset = r.offset /\ e.text = text /\ e.next = next
      /\ e.complete = whole
  BY <1>1
<1>5. ~cut => text = view
  BY DEF text
<1>6. ASSUME r.sel.kind # "none"
      PROVE  /\ \E p \in shown[u] : /\ p.owner = r.owner /\ p.sel = r.sel /\ p.offset = r.offset
                                    /\ IsPrefix(text, p.text)
             /\ next = r.offset + Len(text)
             /\ r.sel.kind = "source" /\ r.offset = 0 /\ r.next = r.total => view = Source(doc)
  <2>1. PICK p \in shown[u] : PageOf(r, p)
    BY <1>2, <1>6 DEF GoodRef
  <2>2. p.owner = r.owner /\ p.sel = r.sel /\ p.offset = r.offset /\ p.next = r.next
    BY <2>1 DEF PageOf
  <2>3. GoodPage(doc, p)
    BY <2>2, ReadingByParts DEF AllPagesGood, doc
  <2>. DEFINE all == View(doc, r.sel).text
  <2>4. /\ r.sel.kind \in StoredKinds /\ View(doc, r.sel).found
        /\ r.offset \in Nat /\ r.next \in r.offset..Len(all)
        /\ p.text = SubSeq(all, r.offset + 1, r.next)
    BY <2>2, <2>3 DEF GoodPage
  <2>5. all \in Seq(Lines)
    BY <2>4, <1>3, ViewIsText
  <2>6. r.total = Len(all)
    BY <1>2, <1>6 DEF GoodRef
  <2>. DEFINE piece == SubSeq(all, r.offset + 1, r.next)
  <2>7. EvidenceView(doc, r) = Found(piece) \/ EvidenceView(doc, r) = NotFound
    BY <1>6 DEF EvidenceView
  <2>8. EvidenceView(doc, r).found
    BY DEF doc
  <2>8a. r.sel.kind = "source" => all = Source(doc)
    BY DEF View, Found
  <2>. HIDE DEF all
  <2>8b. 0 \in 0..(r.next - r.offset)
    BY <2>4, <2>5
  <2>9. piece \in Seq(Lines)
    BY <2>4, <2>5, <2>8b, PartOfPart
  <2>. HIDE DEF piece
  <2>10. view = piece
    BY <2>7, <2>8 DEF Found, NotFound, view
  <2>11. text = view \/ text = SubSeq(view, 1, Prefix(view, 0, allowance))
    BY <1>6 DEF text
  <2>12. IsPrefix(text, view)
    <3>1. CASE text = view
      <4>1. Len(view) \in Nat /\ Len(view) \in 0..Len(view)
        BY <2>9, <2>10
      <4>2. SubSeq(view, 1, Len(view)) = view
        BY <2>9, <2>10, SubSeqFull
      <4>. QED  BY <3>1, <4>1, <4>2 DEF IsPrefix
    <3>2. CASE text = SubSeq(view, 1, Prefix(view, 0, allowance))
      <4>1. Len(view) \in Nat /\ 0 \in Nat
        BY <2>9, <2>10
      <4>2. Prefix(view, 0, allowance) \in {-1} \cup (0..Len(view))
        BY <4>1, PrefixIsOne
      <4>. QED  BY <3>2, <4>2, <2>9, <2>10, PrefixBegins
    <3>. QED  BY <2>11, <3>1, <3>2
  <2>13. next = r.offset + Len(text)
    BY <1>6 DEF next
  <2>14. ASSUME r.sel.kind = "source", r.offset = 0, r.next = r.total
         PROVE  view = Source(doc)
    <3>1. piece = SubSeq(all, 1, Len(all))
      BY <2>14, <2>6 DEF piece
    <3>2. piece = all
      BY <3>1, <2>5, SubSeqFull
    <3>. QED  BY <3>2, <2>8a, <2>10, <2>14
  <2>15. p.text = view
    BY <2>4, <2>10 DEF piece
  <2>. QED  BY <2>2, <2>12, <2>13, <2>14, <2>15
<1>7. ASSUME r.sel.kind = "none" PROVE view = Source(doc)
  BY <1>7 DEF EvidenceView, Found, view
<1>8. ASSUME whole PROVE text = Source(doc)
  <2>1. ~cut /\ (r.sel.kind = "none" \/ (r.sel.kind = "source" /\ r.offset = 0 /\ r.next = r.total))
    BY <1>8 DEF whole, IsComplete
  <2>. QED  BY <2>1, <1>5, <1>6, <1>7
<1>9. e.complete => e.text = Source(doc)
  BY <1>4, <1>8
<1>10. e.sel.kind # "none" =>
          \E t \in Research : \E p \in shown[t] :
              /\ p.owner = e.owner /\ p.sel = e.sel /\ p.offset = e.offset
              /\ IsPrefix(e.text, p.text)
              /\ e.next = e.offset + Len(e.text)
  BY <1>4, <1>6
<1>11. GoodPiece(doc, e, shown)
  BY <1>3, <1>4, <1>9, <1>10 DEF GoodPiece
<1>. QED  BY <1>11 DEF doc, e

\* Every piece that the review is given is good evidence, whatever share it has.
LEMMA EvidenceIsGood ==
  ASSUME ReadingInv, NEW shares \in [Research -> Allowances], TaskArtifactEvidence(shares)
  PROVE  ReadingInv'
<1>. DEFINE given == UNION {Usable(u) : u \in {v \in Ancestors(Review) : status[v] = "success"}}
            pieces == {Piece(r, shares[r.owner]) : r \in given}
            sound == \A r \in given : /\ r.owner \in Ancestors(Review)
                                      /\ status[r.owner] = "success"
                                      /\ r.owner \notin expired
                                      /\ EvidenceView(kept[r.owner], r).found
<1>1. /\ UNCHANGED <<kept, refs, shown, expired>>
      /\ \/ /\ sound
            /\ evidence' = [state |-> "given", pieces |-> pieces] /\ status' = status
         \/ /\ evidence' = [state |-> "refused", pieces |-> {}]
            /\ status' = [status EXCEPT ![Review] = "error"]
  BY DEF TaskArtifactEvidence
<1>2. ASSUME sound, NEW e \in pieces
      PROVE  GoodPiece(kept[e.owner], e, shown)
  <2>1. PICK r \in given : e = Piece(r, shares[r.owner])
    OBVIOUS
  <2>2. EvidenceView(kept[r.owner], r).found
    BY <1>2
  <2>3. PICK u \in Ancestors(Review) : r \in Usable(u)
    OBVIOUS
  <2>4. u \in Research
    BY Zenon DEF Ancestors
  <2>5. r \in refs[u]
    BY <2>3 DEF Usable
  <2>6. GoodPiece(kept[r.owner], Piece(r, shares[r.owner]), shown)
    BY <2>2, <2>4, <2>5, PieceIsGood
  <2>7. e.owner = r.owner
    BY <2>1 DEF Piece
  <2>. QED  BY <2>1, <2>6, <2>7
<1>3. /\ \A u \in Research : kept[u] # NoDocument => kept'[u] = kept[u]
      /\ ReadingTypeOK /\ AllPagesGood /\ AllRefsGood
  BY <1>1, ReadingByParts
<1>. HIDE DEF pieces, sound
<1>4. evidence'.pieces = {} \/ (sound /\ evidence'.pieces = pieces)
  BY <1>1
<1>5. AllPiecesGood'
  <2>1. ASSUME NEW e \in evidence'.pieces PROVE GoodPiece(kept[e.owner], e, shown)
    BY <2>1, <1>2, <1>4
  <2>. QED  BY <2>1, <1>1 DEF AllPiecesGood, GoodPiece
<1>6. AllPagesGood' /\ AllRefsGood'
  BY <1>1, <1>3 DEF AllPagesGood, AllRefsGood, GoodPage, GoodRef
<1>7. /\ evidence' = [state |-> evidence.state, pieces |-> evidence.pieces]'
      /\ evidence'.state \in {"none", "given", "refused"}
  BY <1>1
<1>8. status' \in [Tasks -> {"waiting", "running", "success", "error"}]
  BY <1>1, <1>3 DEF ReadingTypeOK
<1>9. ReadingTypeOK'
  BY <1>1, <1>3, <1>7, <1>8 DEF ReadingTypeOK
<1>. QED  BY <1>5, <1>6, <1>9, ReadingByPartsNext

\* Every step of the reading keeps the invariant.
LEMMA ReadingStay == ReadingInv /\ [ReadingNext]_readingVars => ReadingInv'
<1>. SUFFICES ASSUME ReadingInv, [ReadingNext]_readingVars PROVE ReadingInv'
  OBVIOUS
<1>1. ASSUME NEW t \in Tasks, BeginTask(t) PROVE ReadingInv'
  <2>1. UNCHANGED <<kept, refs, shown, evidence>> /\ status' = [status EXCEPT ![t] = "running"]
    BY <1>1 DEF BeginTask
  <2>2. status' \in [Tasks -> {"waiting", "running", "success", "error"}]
    BY <2>1 DEF ReadingInv, ReadingTypeOK
  <2>. QED  BY <2>1, <2>2, TasksKeep
<1>2. ASSUME NEW t \in Tasks, NEW outcome \in {"success", "error"}, Finish(t, outcome)
      PROVE  ReadingInv'
  <2>1. UNCHANGED <<kept, refs, shown, evidence>> /\ status' = [status EXCEPT ![t] = outcome]
    BY <1>2 DEF Finish
  <2>2. status' \in [Tasks -> {"waiting", "running", "success", "error"}]
    BY <2>1 DEF ReadingInv, ReadingTypeOK
  <2>. QED  BY <2>1, <2>2, TasksKeep
<1>3. ASSUME NEW t \in Research, NEW doc \in Documents[t], Store(t, doc) PROVE ReadingInv'
  BY <1>3, StoreKeeps
<1>4. ASSUME NEW t \in Research, NEW owner \in Readable(t), NEW call \in Calls,
             NEW from \in Offsets, NEW limit \in Limits, NEW allowance \in Allowances,
             Read(t, owner, call.locator, call.value, call.keyword, from, limit, allowance)
      PROVE  ReadingInv'
  BY <1>4, ReadKeeps
<1>5. ASSUME NEW t \in Research, Expire(t) PROVE ReadingInv'
  BY <1>5, TasksKeep DEF Expire, ReadingInv, ReadingTypeOK
<1>6. ASSUME NEW shares \in [Research -> Allowances], TaskArtifactEvidence(shares) PROVE ReadingInv'
  BY <1>6, EvidenceIsGood
<1>7. CASE UNCHANGED readingVars
  BY <1>7, TasksKeep DEF readingVars, ReadingInv, ReadingTypeOK
<1>. QED  BY <1>1, <1>2, <1>3, <1>4, <1>5, <1>6, <1>7 DEF ReadingNext

-----------------------------------------------------------------------------
(* Tools: what a prompt lists is what the agent can call.                  *)

Registered == ToSet(internalTools)

\* A list of the registered entries of these domains, in the order of all lists.
Listing(l, D) ==
    /\ l \in Seq(Catalogue)
    /\ \A i, j \in DOMAIN l : i < j => Precedes(l[i], l[j])
    /\ \A i \in DOMAIN l : l[i] \in Registered /\ l[i].domain \in D
    /\ \A e \in Registered : e.domain \in D => \E i \in DOMAIN l : l[i] = e

\* No two entries have the same place.
LEMMA EntriesAreOrdered ==
  /\ \A e \in Catalogue : ~ Precedes(e, e)
  /\ \A e, f \in Catalogue : ~ (Precedes(e, f) /\ Precedes(f, e))
  /\ \A e, f, g \in Catalogue : Precedes(e, f) /\ Precedes(f, g) => Precedes(e, g)
  /\ \A e, f \in Catalogue : e # f => Precedes(e, f) \/ Precedes(f, e)
<1>1. \A e \in Catalogue : e.order \in Nat /\ e.rank \in Nat
  BY CatalogueAssumption
<1>2. \A e, f \in Catalogue : e.rank = f.rank => e = f
  BY CatalogueAssumption
<1>. QED
  BY <1>1, <1>2 DEF Precedes

\* What is in a list once has one place.
LEMMA ListedOnce ==
  ASSUME NEW D, NEW l, Listing(l, D), NEW i \in DOMAIN l, NEW j \in DOMAIN l, l[i] = l[j]
  PROVE  i = j
<1>1. i \in Nat /\ j \in Nat /\ l[i] \in Catalogue
  BY DEF Listing
<1>2. ~ Precedes(l[i], l[i])
  BY <1>1, EntriesAreOrdered
<1>3. (i < j => Precedes(l[i], l[j])) /\ (j < i => Precedes(l[j], l[i]))
  BY DEF Listing
<1>. QED
  BY <1>1, <1>2, <1>3

LEMMA EntriesAreListed ==
  ASSUME Registered \subseteq Catalogue, NEW D
  PROVE  Listing(EntriesOf(D), D)
<1>. DEFINE s == SortedInternalTools
            here == {i \in DOMAIN s : s[i].domain \in D}
<1>1. IsFiniteSet(Registered)
  BY CatalogueAssumption, FS_Subset
<1>2. Orders(InOrder, Registered)
  BY EntriesAreOrdered DEF Orders, InOrder
<1>3. /\ s \in Seq(Registered)
      /\ \A e \in Registered : \E i \in DOMAIN s : s[i] = e
      /\ \A i, j \in DOMAIN s : i < j => <<s[i], s[j]>> \in InOrder
  BY <1>1, <1>2, RankedInOrder DEF SortedInternalTools, Registered
<1>4. s \in Seq(Catalogue)
  BY <1>3
<1>5. EntriesOf(D) = Picked(s, here)
  BY DEF EntriesOf, InDomains
<1>. HIDE DEF s, here
<1>. DEFINE l == Picked(s, here)
<1>6. /\ l \in Seq(Catalogue)
      /\ \E at \in [DOMAIN l -> DOMAIN s] : PicksAt(at, s, here)
  BY <1>4, PickedInOrder
<1>7. PICK at \in [DOMAIN l -> DOMAIN s] : PicksAt(at, s, here)
  BY <1>6
<1>8. /\ \A i \in DOMAIN l : at[i] \in here /\ l[i] = s[at[i]]
      /\ \A i, j \in DOMAIN l : i < j => at[i] < at[j]
      /\ \A k \in DOMAIN s : k \in here => \E i \in DOMAIN l : at[i] = k
  BY <1>7 DEF PicksAt
<1>. HIDE DEF l
<1>9. \A i, j \in DOMAIN l : i < j => Precedes(l[i], l[j])
  <2>1. ASSUME NEW i \in DOMAIN l, NEW j \in DOMAIN l, i < j PROVE Precedes(l[i], l[j])
    <3>1. at[i] \in DOMAIN s /\ at[j] \in DOMAIN s /\ at[i] < at[j] /\ l[i] = s[at[i]] /\ l[j] = s[at[j]]
      BY <1>7, <1>8, <2>1
    <3>2. <<l[i], l[j]>> \in InOrder
      BY <1>3, <3>1
    <3>. QED
      BY <3>2 DEF InOrder
  <2>. QED
    BY <2>1
<1>10. \A i \in DOMAIN l : l[i] \in Registered /\ l[i].domain \in D
  BY <1>3, <1>7, <1>8 DEF here
<1>11. ASSUME NEW e \in Registered, e.domain \in D PROVE \E i \in DOMAIN l : l[i] = e
  <2>1. PICK k \in DOMAIN s : s[k] = e
    BY <1>3
  <2>2. k \in here
    BY <1>11, <2>1 DEF here
  <2>. QED
    BY <1>8, <2>1, <2>2
<1>. QED
  BY <1>5, <1>6, <1>9, <1>10, <1>11 DEF l, Listing

\* The cursor of an entry is its place in the list of its own domain.
Cursor(l, i) == Cardinality({j \in 1..i : l[j].domain = l[i].domain})

LEMMA CursorIsPlace ==
  ASSUME Registered \subseteq Catalogue, NEW D, NEW l, Listing(l, D), NEW i \in DOMAIN l,
         NEW own, Listing(own, {l[i].domain})
  PROVE  Cursor(l, i) \in 1..Len(own) /\ own[Cursor(l, i)] = l[i]
<1>. DEFINE d == l[i].domain
            J == {j \in 1..i : l[j].domain = d}
<1>1. /\ l \in Seq(Catalogue) /\ own \in Seq(Catalogue) /\ i \in Nat /\ l[i] \in Registered /\ d \in D
      /\ 1..i \subseteq DOMAIN l /\ Len(own) \in Nat /\ DOMAIN own = 1..Len(own)
  BY DEF Listing
<1>2. PICK k \in DOMAIN own : own[k] = l[i]
  BY <1>1 DEF Listing
<1>3. ASSUME NEW j \in J PROVE \E m \in 1..k : own[m] = l[j]
  <2>1. j \in DOMAIN l /\ l[j].domain = d /\ j <= i /\ j \in Nat
    BY <1>1
  <2>2. l[j] \in Registered
    BY <2>1 DEF Listing
  <2>3. PICK m \in DOMAIN own : own[m] = l[j]
    BY <2>1, <2>2 DEF Listing
  <2>4. ASSUME k < m PROVE FALSE
    <3>1. Precedes(own[k], own[m])
      BY <2>4 DEF Listing
    <3>2. Precedes(l[j], l[i]) \/ j = i
      BY <1>1, <2>1 DEF Listing
    <3>3. own[k] \in Catalogue /\ own[m] \in Catalogue
      BY <1>1
    <3>. QED
      BY <1>2, <2>3, <3>1, <3>2, <3>3, EntriesAreOrdered
  <2>. QED
    BY <1>1, <2>3, <2>4
<1>4. ASSUME NEW m \in 1..k PROVE \E j \in J : l[j] = own[m]
  <2>1. m \in DOMAIN own /\ m <= k /\ m \in Nat
    BY <1>1
  <2>2. own[m] \in Registered /\ own[m].domain = d
    BY <2>1 DEF Listing
  <2>3. PICK j \in DOMAIN l : l[j] = own[m]
    BY <1>1, <2>2 DEF Listing
  <2>4. j \in Nat /\ j >= 1
    BY <1>1
  <2>5. ASSUME i < j PROVE FALSE
    <3>1. Precedes(l[i], l[j])
      BY <2>5 DEF Listing
    <3>2. Precedes(own[m], own[k]) \/ m = k
      BY <1>1, <2>1 DEF Listing
    <3>3. l[i] \in Catalogue /\ l[j] \in Catalogue
      BY <1>1
    <3>. QED
      BY <1>2, <2>3, <3>1, <3>2, <3>3, EntriesAreOrdered
  <2>6. j \in J
    BY <1>1, <2>2, <2>3, <2>4, <2>5
  <2>. QED
    BY <2>3, <2>6
<1>5. \A j1, j2 \in J : l[j1] = l[j2] => j1 = j2
  BY <1>1, ListedOnce
<1>6. \A m1, m2 \in 1..k : own[m1] = own[m2] => m1 = m2
  BY <1>1, ListedOnce
<1>7. IsFiniteSet(1..k) /\ Cardinality(1..k) = k
  BY <1>1, FS_Interval
<1>8. Cursor(l, i) = Cardinality(J)
  BY DEF Cursor
<1>. HIDE DEF J
<1>. DEFINE f == [j \in J |-> CHOOSE m \in 1..k : own[m] = l[j]]
<1>9. \A j \in J : f[j] \in 1..k /\ own[f[j]] = l[j]
  BY <1>3
<1>. HIDE DEF f
<1>10. f \in [J -> 1..k]
  BY <1>9 DEF f
<1>11. f \in Injection(J, 1..k)
  BY <1>5, <1>9, <1>10 DEF Injection, IsInjective
<1>12. f \in Surjection(J, 1..k)
  <2>1. ASSUME NEW m \in 1..k PROVE \E j \in J : f[j] = m
    <3>1. PICK j \in J : l[j] = own[m]
      BY <1>4
    <3>. QED
      BY <1>6, <1>9, <3>1
  <2>. QED
    BY <1>10, <2>1 DEF Surjection
<1>13. Cardinality(J) = k
  BY <1>7, <1>11, <1>12, FS_Injection
<1>. QED
  BY <1>1, <1>2, <1>8, <1>13

\* The tools of a domain for these knowledge bases; the program's tools of these
\* domains, and those that connections brought.
EntriesAt(reg, D) ==
    LET sorted == Ranked(ToSet(reg), InOrder) IN Picked(sorted, {i \in DOMAIN sorted : sorted[i].domain \in D})
ToolsAt(reg, d, K) == [i \in 1..Len(EntriesAt(reg, {d})) |-> Build(EntriesAt(reg, {d})[i], K)]
ToolsOf(d, K) == ToolsAt(internalTools, d, K)
Program(D, K) == [name : {e.name : e \in {f \in Catalogue : f.domain \in D}}, kbs : {K}]
Brought(C) == [name : C, kbs : {Dynamic}]
ExternalOf(B, D) == IF External \in D THEN B[External] ELSE <<>>

LEMMA EntriesByRegistry == \A D : EntriesOf(D) = EntriesAt(internalTools, D)
BY DEF EntriesOf, InDomains, SortedInternalTools, EntriesAt

\* An agent gets the program's tools that were built and then what was brought; when
\* all were built, they stand as they are listed.
OwnThenBrought(own, D, K, B) ==
    /\ own \in Seq(Program(D, K))
    /\ ToolsInDomains(EntriesOf(D), B, D) = own \o ExternalOf(B, D)
    /\ (\A d \in D \ {External} : B[d] = ToolsOf(d, K)) =>
          Len(own) = Len(EntriesOf(D)) /\ \A i \in 1..Len(own) : own[i].name = EntriesOf(D)[i].name

LEMMA ToolsAreOwnFirst ==
  ASSUME Registered \subseteq Catalogue, NEW D, NEW K, NEW B,
         \A d \in D \ {External} : B[d] = <<>> \/ B[d] = ToolsOf(d, K)
  PROVE  \E own : OwnThenBrought(own, D, K, B)
<1>. DEFINE l == EntriesOf(D)
            n == Len(l)
            Taken(i) == <<B[l[i].domain], Cursor(l, i)>>
            V == {Taken(i) : i \in 1..n}
            T == [i \in 1..n |-> Taken(i)]
            S == {i \in 1..n : Taken(i)[2] <= Len(Taken(i)[1])}
            p == Picked(T, S)
            own == [i \in 1..Len(p) |-> p[i][1][p[i][2]]]
<1>1. Listing(l, D)
  BY EntriesAreListed
<1>. HIDE DEF l
<1>2. n \in Nat /\ DOMAIN l = 1..n /\ \A i \in 1..n : l[i] \in Catalogue /\ l[i].domain \in D \ {External}
  BY <1>1, CatalogueAssumption DEF Listing
<1>3. ASSUME NEW i \in 1..n
      PROVE  /\ Cursor(l, i) \in 1..Len(EntriesOf({l[i].domain}))
             /\ EntriesOf({l[i].domain})[Cursor(l, i)] = l[i]
  <2>1. Listing(EntriesOf({l[i].domain}), {l[i].domain})
    BY EntriesAreListed
  <2>. QED
    BY <1>1, <1>2, <2>1, CursorIsPlace
<1>4. ASSUME NEW i \in 1..n, B[l[i].domain] = ToolsOf(l[i].domain, K)
      PROVE  i \in S /\ Taken(i)[1][Taken(i)[2]] = Build(l[i], K)
  <2>. DEFINE e == EntriesOf({l[i].domain})
              b == B[l[i].domain]
              c == Cursor(l, i)
  <2>1. b = [j \in 1..Len(e) |-> Build(e[j], K)]
    BY <1>4, EntriesByRegistry DEF ToolsOf, ToolsAt
  <2>2. c \in 1..Len(e) /\ e[c] = l[i]
    BY <1>3
  <2>3. e \in Seq(Catalogue)
    BY EntriesAreListed DEF Listing
  <2>. HIDE DEF e, c, b
  <2>4. Len(e) \in Nat /\ Len(b) = Len(e) /\ b[c] = Build(l[i], K)
    BY <2>1, <2>2, <2>3
  <2>5. Taken(i)[1] = b /\ Taken(i)[2] = c
    BY DEF b, c
  <2>. QED
    BY <2>2, <2>4, <2>5
<1>5. ASSUME NEW i \in S PROVE Taken(i)[1][Taken(i)[2]] = Build(l[i], K)
  <2>1. i \in 1..n /\ Cursor(l, i) <= Len(B[l[i].domain])
    OBVIOUS
  <2>2. Cursor(l, i) \in Nat /\ Cursor(l, i) >= 1
    <3>1. EntriesOf({l[i].domain}) \in Seq(Catalogue)
      BY EntriesAreListed DEF Listing
    <3>. QED
      BY <1>3, <2>1, <3>1
  <2>3. B[l[i].domain] # <<>>
    <3>1. Len(<<>>) = 0
      OBVIOUS
    <3>. QED
      BY <2>1, <2>2, <3>1
  <2>. QED
    BY <1>2, <1>4, <2>1, <2>3
<1>6. T \in Seq(V) /\ Len(T) = n /\ DOMAIN T = 1..n
  BY <1>2
<1>7. p \in Seq(V) /\ \E at \in [DOMAIN p -> DOMAIN T] : PicksAt(at, T, S)
  <2>. HIDE DEF T, S, V
  <2>. QED
    BY <1>6, PickedInOrder
<1>8. ToolsInDomains(l, B, D) = own \o ExternalOf(B, D)
  BY DEF ToolsInDomains, ExternalOf, Cursor
<1>9. \A i \in DOMAIN p : \E k \in S : p[i] = Taken(k)
  <2>1. PICK at \in [DOMAIN p -> DOMAIN T] : PicksAt(at, T, S)
    BY <1>7
  <2>2. \A i \in DOMAIN p : at[i] \in S /\ p[i] = T[at[i]]
    BY <2>1 DEF PicksAt
  <2>3. \A k \in S : T[k] = Taken(k)
    OBVIOUS
  <2>. HIDE DEF p, T, S, Taken
  <2>. QED
    BY <2>2, <2>3
<1>10. own \in Seq(Program(D, K))
  <2>1. ASSUME NEW i \in 1..Len(p) PROVE p[i][1][p[i][2]] \in Program(D, K)
    <3>0. S \subseteq 1..n
      OBVIOUS
    <3>. HIDE DEF p, S, Taken, V
    <3>1. PICK k \in S : p[i] = Taken(k)
      BY <1>7, <1>9
    <3>2. p[i][1][p[i][2]] = Build(l[k], K)
      BY <1>5, <3>1
    <3>3. l[k] \in Catalogue /\ l[k].domain \in D
      BY <1>2, <3>0
    <3>. QED
      BY <3>2, <3>3 DEF Build, Program
  <2>2. Len(p) \in Nat
    BY <1>7
  <2>. HIDE DEF p
  <2>. QED
    BY <2>1, <2>2
<1>11. ASSUME \A d \in D \ {External} : B[d] = ToolsOf(d, K)
       PROVE  Len(own) = n /\ \A i \in 1..Len(own) : own[i].name = l[i].name
  <2>1. S = 1..n
    BY <1>2, <1>4, <1>11
  <2>2. Len(p) = n /\ \A i \in 1..n : p[i] = T[i]
    <3>. HIDE DEF T, V, S
    <3>. QED
      BY <1>2, <1>6, <2>1, PickedPrefix
  <2>3. \A i \in 1..n : T[i] = Taken(i) /\ i \in S
    BY <2>1
  <2>4. \A i \in 1..n : p[i][1][p[i][2]] = Build(l[i], K)
    <3>. HIDE DEF p, T, S, Taken
    <3>. QED
      BY <1>5, <2>2, <2>3
  <2>5. Len(own) = n /\ \A i \in 1..n : own[i] = Build(l[i], K)
    <3>. HIDE DEF p
    <3>. QED
      BY <1>2, <2>2, <2>4
  <2>. HIDE DEF own, n
  <2>6. \A x : Build(x, K).name = x.name
    BY DEF Build
  <2>. QED
    BY <2>5, <2>6
<1>. HIDE DEF own, p
<1>12. OwnThenBrought(own, D, K, B)
  BY <1>8, <1>10, <1>11 DEF l, OwnThenBrought
<1>. QED
  BY <1>12

\* What holds of an agent, of a request r.
IsListed(a, r) == a.how \in Roles \/ r.kind = "new" => a.entries = NamesOf(Own(a))
IsStable(a) ==
    \A i, j \in DOMAIN a.entries : \A e, f \in Catalogue :
        (i < j /\ e.name = a.entries[i] /\ f.name = a.entries[j])
            => (e.order <= f.order /\ (e.order = f.order => e.rank < f.rank))
IsGuarded(a) ==
    \A t \in ToSet(a.tools) :
        (t.name \in Patterned \/ \E e \in Catalogue : e.name = t.name /\ e.dangerous) => t.name \in a.guarded
IsInside(a) == a.how \in {"quick", "single"} => Reach(a) = {}
IsChosen(a, r) ==
    a.how \in Roles => /\ \A t \in ToSet(Own(a)) : t.kbs = r.kbs
                       /\ {t.name : t \in Reach(a)} \subseteq Chosen(r)
Bounded(a, r) ==
    /\ a.how \in Roles \cup {"quick", "single"}
    /\ IsListed(a, r) /\ IsStable(a) /\ IsGuarded(a) /\ IsInside(a) /\ IsChosen(a, r)

\* The program's own tools come first, so they are what is not dynamic.
OwnStandFirst(a, own, X, D, K, C) ==
    /\ Len(Own(a)) = Len(own) /\ DOMAIN Own(a) = 1..Len(own)
    /\ \A i \in 1..Len(own) : Own(a)[i] = own[i]
    /\ \A t \in ToSet(a.tools) : t \in Program(D, K) \/ t \in Brought(C)
    /\ X = <<>> => \A t \in ToSet(a.tools) : t \in Program(D, K)
    /\ \A t \in Reach(a) : t \in Brought(C)

LEMMA OwnIsFirst ==
  ASSUME NEW D, NEW K \in Kbs, NEW own \in Seq(Program(D, K)), NEW C, NEW X \in Seq(Brought(C)),
         NEW a, a.tools = own \o X
  PROVE  OwnStandFirst(a, own, X, D, K, C)
<1>. DEFINE V == Program(D, K) \cup Brought(C)
            t == own \o X
<1>1. own \in Seq(V) /\ X \in Seq(V)
  OBVIOUS
<1>2. K # Dynamic
  BY CatalogueAssumption
<1>3. /\ t \in Seq(V) /\ DOMAIN t = 1..(Len(own) + Len(X))
      /\ \A i \in DOMAIN own : i \in DOMAIN t /\ t[i] = own[i]
      /\ \A i \in DOMAIN X : Len(own) + i \in DOMAIN t /\ t[Len(own) + i] = X[i]
      /\ \A i \in DOMAIN t : IF i <= Len(own) THEN i \in DOMAIN own
                             ELSE i - Len(own) \in DOMAIN X /\ i = Len(own) + (i - Len(own))
  <2>. HIDE DEF V
  <2>. QED
    BY <1>1, Concatenated
<1>4. \A i \in DOMAIN own : own[i] \in Program(D, K)
  OBVIOUS
<1>5. \A i \in DOMAIN X : X[i] \in Brought(C)
  OBVIOUS
<1>6. Len(own) \in Nat /\ Len(X) \in Nat /\ DOMAIN own = 1..Len(own) /\ DOMAIN X = 1..Len(X)
  OBVIOUS
<1>. HIDE DEF t, V
<1>7. a.tools = t
  BY DEF t
<1>8. ASSUME NEW i \in DOMAIN t
      PROVE  IF i <= Len(own) THEN i \in DOMAIN own /\ t[i] = own[i] /\ t[i] \in Program(D, K) ELSE t[i] \in Brought(C) /\ X # <<>>
  <2>1. CASE i <= Len(own)
    BY <1>3, <1>4, <2>1
  <2>2. CASE ~(i <= Len(own))
    <3>1. i - Len(own) \in DOMAIN X /\ t[i] = X[i - Len(own)]
      BY <1>3, <2>2
    <3>2. X # <<>>
      BY <3>1
    <3>. QED
      BY <1>5, <2>2, <3>1, <3>2
  <2>. QED
    BY <2>1, <2>2
<1>9. \A x \in Program(D, K) : x.kbs = K
  BY DEF Program
<1>10. \A x \in Brought(C) : x.kbs = Dynamic
  BY DEF Brought
<1>11. {i \in DOMAIN t : t[i].kbs # Dynamic} = 1..Len(own)
  <2>1. ASSUME NEW i \in DOMAIN t PROVE t[i].kbs # Dynamic <=> i \in 1..Len(own)
    <3>1. i \in Nat /\ i >= 1
      BY <1>3, <1>6
    <3>. QED
      BY <1>2, <1>6, <1>8, <1>9, <1>10, <3>1
  <2>2. 1..Len(own) \subseteq DOMAIN t
    BY <1>3, <1>6
  <2>. QED
    BY <2>1, <2>2
<1>12. Own(a) = Picked(t, 1..Len(own))
  BY <1>7, <1>11 DEF Own
<1>13. Len(own) \in 0..Len(t)
  BY <1>3, <1>6
<1>14. /\ Own(a) \in Seq(V) /\ Len(Own(a)) = Len(own)
       /\ \A i \in 1..Len(own) : Own(a)[i] = t[i]
  <2>1. t \in Seq(V)
    BY <1>3
  <2>2. /\ Picked(t, 1..Len(own)) \in Seq(V) /\ Len(Picked(t, 1..Len(own))) = Len(own)
        /\ \A i \in 1..Len(own) : Picked(t, 1..Len(own))[i] = t[i]
    BY ONLY <1>13, <2>1, PickedPrefix
  <2>. QED
    BY <1>12, <2>2
<1>15. DOMAIN Own(a) = 1..Len(own) /\ \A i \in 1..Len(own) : Own(a)[i] = own[i]
  <2>1. DOMAIN Own(a) = 1..Len(Own(a))
    BY ONLY <1>14
  <2>2. \A i \in 1..Len(own) : t[i] = own[i]
    BY ONLY <1>3, <1>6
  <2>. QED
    BY ONLY <1>14, <2>1, <2>2
<1>16. /\ \A x \in ToSet(a.tools) : x \in Program(D, K) \/ x \in Brought(C)
       /\ X = <<>> => \A x \in ToSet(a.tools) : x \in Program(D, K)
  BY <1>7, <1>8 DEF ToSet
<1>17. \A x \in Reach(a) : x \in Brought(C)
  BY <1>2, <1>9, <1>16 DEF Reach
<1>. QED
  BY <1>14, <1>15, <1>16, <1>17 DEF OwnStandFirst

\* How the agents of a request r are built: their own tools for K, what was brought from C.
Mountable(how, D, K, B, C, guards, r) ==
    /\ how \in Roles \cup {"quick", "single"} /\ K \in Kbs /\ C \subseteq Connections
    /\ \A d \in D \ {External} : B[d] = <<>> \/ B[d] = ToolsOf(d, K)
    /\ External \in D => B[External] \in Seq(Brought(C))
    /\ guards \/ D \cap {DocMgmt, External} = {}
    /\ how \in Roles \/ r.kind = "new" => \A d \in D \ {External} : B[d] = ToolsOf(d, K)
    /\ how \in {"quick", "single"} => External \notin D
    /\ how \in Roles => K = r.kbs /\ C \subseteq Chosen(r)

LEMMA MountedIsBounded ==
  ASSUME Registered \subseteq Catalogue,
         NEW how, NEW D, NEW K, NEW B, NEW C, NEW guards, NEW r, Mountable(how, D, K, B, C, guards, r)
  PROVE  Bounded(SelectTools(how, EntriesOf(D), B, D, guards), r)
<1>. DEFINE a == SelectTools(how, EntriesOf(D), B, D, guards)
            l == EntriesOf(D)
            X == ExternalOf(B, D)
<1>0. /\ how \in Roles \cup {"quick", "single"} /\ K \in Kbs /\ C \subseteq Connections
      /\ \A d \in D \ {External} : B[d] = <<>> \/ B[d] = ToolsOf(d, K)
      /\ External \in D => B[External] \in Seq(Brought(C))
      /\ guards \/ D \cap {DocMgmt, External} = {}
      /\ how \in Roles \/ r.kind = "new" => \A d \in D \ {External} : B[d] = ToolsOf(d, K)
      /\ how \in {"quick", "single"} => External \notin D
      /\ how \in Roles => K = r.kbs /\ C \subseteq Chosen(r)
  BY DEF Mountable
<1>1. /\ a.how = how /\ a.tools = ToolsInDomains(l, B, D)
      /\ a.entries = [i \in 1..Len(l) |-> l[i].name]
      /\ a.guarded = IF guards THEN DangerousToolNames(a.tools) ELSE {}
  BY DEF SelectTools
<1>2. X \in Seq(Brought(C)) /\ (External \notin D => X = <<>>)
  <2>1. CASE External \in D
    BY <1>0, <2>1 DEF ExternalOf
  <2>2. CASE External \notin D
    BY <2>2 DEF ExternalOf
  <2>. QED
    BY <2>1, <2>2
<1>3. Listing(l, D)
  BY EntriesAreListed
<1>. HIDE DEF a
<1>4p. PICK own : OwnThenBrought(own, D, K, B)
  BY <1>0, ToolsAreOwnFirst
<1>4. /\ own \in Seq(Program(D, K)) /\ a.tools = own \o X
      /\ (\A d \in D \ {External} : B[d] = ToolsOf(d, K)) =>
            Len(own) = Len(l) /\ \A i \in 1..Len(own) : own[i].name = l[i].name
  BY <1>1, <1>4p DEF OwnThenBrought
<1>. HIDE DEF l, X
<1>5. /\ Len(Own(a)) = Len(own) /\ DOMAIN Own(a) = 1..Len(own)
      /\ \A i \in 1..Len(own) : Own(a)[i] = own[i]
      /\ \A t \in ToSet(a.tools) : t \in Program(D, K) \/ t \in Brought(C)
      /\ X = <<>> => \A t \in ToSet(a.tools) : t \in Program(D, K)
      /\ \A t \in Reach(a) : t \in Brought(C)
  <2>1. K \in Kbs /\ own \in Seq(Program(D, K)) /\ X \in Seq(Brought(C)) /\ a.tools = own \o X
    BY <1>0, <1>2, <1>4
  <2>2. OwnStandFirst(a, own, X, D, K, C)
    BY <2>1, OwnIsFirst
  <2>. QED
    BY <2>2 DEF OwnStandFirst
<1>6. l \in Seq(Catalogue) /\ Len(l) \in Nat /\ DOMAIN l = 1..Len(l)
  BY <1>3 DEF Listing
<1>7. IsListed(a, r)
  <2>1. SUFFICES ASSUME how \in Roles \/ r.kind = "new" PROVE a.entries = NamesOf(Own(a))
    BY <1>1 DEF IsListed
  <2>2. Len(own) = Len(l) /\ \A i \in 1..Len(own) : own[i].name = l[i].name
    BY <1>0, <1>4, <2>1
  <2>3. NamesOf(Own(a)) = [i \in 1..Len(l) |-> Own(a)[i].name]
    BY <1>5, <2>2 DEF NamesOf
  <2>. QED
    BY <1>1, <1>5, <2>2, <2>3
<1>8. IsStable(a)
  <2>1. SUFFICES ASSUME NEW i \in DOMAIN l, NEW j \in DOMAIN l, i < j, NEW e \in Catalogue, NEW f \in Catalogue,
                        e.name = l[i].name, f.name = l[j].name
                 PROVE  e.order <= f.order /\ (e.order = f.order => e.rank < f.rank)
    BY <1>1, <1>6 DEF IsStable
  <2>2. e = l[i] /\ f = l[j]
    BY <1>6, <2>1, CatalogueAssumption
  <2>3. Precedes(e, f)
    BY <1>3, <2>1, <2>2 DEF Listing
  <2>4. e.order \in Nat /\ f.order \in Nat
    BY CatalogueAssumption
  <2>. QED
    BY <2>3, <2>4 DEF Precedes
<1>9. IsGuarded(a)
  <2>1. SUFFICES ASSUME NEW t \in ToSet(a.tools),
                        t.name \in Patterned \/ \E e \in Catalogue : e.name = t.name /\ e.dangerous
                 PROVE  t.name \in a.guarded
    BY DEF IsGuarded
  <2>2. CASE t \in Program(D, K)
    <3>1. PICK f \in Catalogue : f.name = t.name /\ f.domain \in D
      BY <2>2 DEF Program
    <3>2. t.name \notin Patterned
      BY <3>1, CatalogueAssumption
    <3>3. PICK e \in Catalogue : e.name = t.name /\ e.dangerous
      BY <2>1, <3>2
    <3>4. e = f /\ e.domain = DocMgmt
      BY <3>1, <3>3, CatalogueAssumption
    <3>5. guards
      BY <1>0, <3>1, <3>4
    <3>. QED
      BY <1>1, <3>3, <3>5 DEF DangerousToolNames
  <2>3. CASE t \notin Program(D, K)
    <3>1. t \in Brought(C) /\ X # <<>>
      BY <1>5, <2>1, <2>3
    <3>2. guards
      BY <1>0, <1>2, <3>1
    <3>3. t.name \in Connections /\ t.kbs = Dynamic
      BY <1>0, <3>1 DEF Brought
    <3>4. t.name \in Patterned
      BY <2>1, <3>3, CatalogueAssumption
    <3>. QED
      BY <1>1, <2>1, <3>2, <3>3, <3>4 DEF DangerousToolNames
  <2>. QED
    BY <2>2, <2>3
<1>10. IsInside(a)
  <2>1. SUFFICES ASSUME how \in {"quick", "single"} PROVE Reach(a) = {}
    BY <1>1 DEF IsInside
  <2>2. \A t \in ToSet(a.tools) : t \in Program(D, K)
    BY <1>0, <1>2, <1>5, <2>1
  <2>3. K # Dynamic
    BY <1>0, CatalogueAssumption
  <2>. QED
    BY <2>2, <2>3 DEF Reach, Program
<1>11. IsChosen(a, r)
  <2>1. SUFFICES ASSUME how \in Roles
                 PROVE  /\ \A t \in ToSet(Own(a)) : t.kbs = r.kbs
                        /\ {t.name : t \in Reach(a)} \subseteq Chosen(r)
    BY <1>1 DEF IsChosen
  <2>2. \A t \in ToSet(Own(a)) : t \in Program(D, K)
    <3>1. \A i \in 1..Len(own) : own[i] \in Program(D, K)
      BY <1>4
    <3>. QED
      BY <1>5, <3>1 DEF ToSet
  <2>4. \A t \in ToSet(Own(a)) : t.kbs = r.kbs
    BY <1>0, <2>1, <2>2 DEF Program
  <2>5. \A t \in Reach(a) : t.name \in C
    BY <1>5 DEF Brought
  <2>. QED
    BY <1>0, <2>1, <2>4, <2>5
<1>. QED
  BY <1>0, <1>1, <1>7, <1>8, <1>9, <1>10, <1>11 DEF Bounded, a, l

\* What BuildToolsByDomain returns for knowledge bases K.
BuiltFor(reg, b, domains, K) ==
    /\ b = [d \in AllToolDomains |-> b[d]]
    /\ \A d \in AllToolDomains \ {External} : b[d] = IF d \in domains THEN ToolsAt(reg, d, K) ELSE <<>>

LEMMA DiscoveredWereAsked ==
  ASSUME NEW up \in SUBSET Connections
  PROVE  Discovered(up) \in Seq(Brought(up))
<1>1. IsFiniteSet(up)
  BY CatalogueAssumption, FS_Subset
<1>2. Cardinality(up) \in Nat /\ ExistsBijection(1..Cardinality(up), up)
  BY <1>1, FS_CardinalityType
<1>3. \E f \in [1..Cardinality(up) -> up] : IsInjective(f)
  BY <1>2 DEF ExistsBijection, Bijection, Injection
<1>4. SetToSeq(up) \in [1..Cardinality(up) -> up]
  BY <1>3 DEF SetToSeq
<1>. DEFINE n == Cardinality(up)
            f == SetToSeq(up)
<1>5. Discovered(up) = [i \in 1..n |-> [name |-> f[i], kbs |-> Dynamic]]
  BY DEF Discovered
<1>. HIDE DEF n, f
<1>6. \A i \in 1..n : [name |-> f[i], kbs |-> Dynamic] \in Brought(up)
  BY <1>4 DEF Brought, n, f
<1>7. n \in Nat
  BY <1>2 DEF n
<1>. QED
  BY <1>5, <1>6, <1>7

LEMMA ToolsAreBuilt ==
  ASSUME NEW r, NEW domains, NEW up \in SUBSET Connections
  PROVE  /\ BuiltFor(internalTools, BuildToolsByDomain(r, domains, up), domains, r.kbs)
         /\ External \in domains => BuildToolsByDomain(r, domains, up)[External] \in Seq(Brought(up))
<1>. DEFINE b == BuildToolsByDomain(r, domains, up)
<1>1. b = [d \in AllToolDomains |-> b[d]]
  BY DEF BuildToolsByDomain
<1>2. ASSUME NEW d \in AllToolDomains \ {External} PROVE b[d] = IF d \in domains THEN ToolsAt(internalTools, d, r.kbs) ELSE <<>>
  BY EntriesByRegistry DEF BuildToolsByDomain, ToolsAt
<1>3. External \in domains => b[External] = Discovered(up)
  BY DEF BuildToolsByDomain, AllToolDomains
<1>. HIDE DEF b
<1>4. BuiltFor(internalTools, b, domains, r.kbs)
  BY <1>1, <1>2 DEF BuiltFor
<1>. QED
  BY <1>3, <1>4, DiscoveredWereAsked DEF b

\* ToolRequests as they are run; the white list of a single agent.
White == {Knowledge, DocMgmt, Clarify}
ToolRequests == [kind : {"new", "resumed"}, profile : Profiles, kbs : Kbs, mcpDisabled : BOOLEAN,
             ids : SUBSET Connections, domains : {Unset, White}]

\* What a message built is for its mode, and the same request is still run if it is new.
BundleOK ==
    bundle # None =>
        \E domains \in {QuickToolDomains, AllToolDomains}, K \in Kbs :
            /\ BuiltFor(internalTools, bundle.buckets, domains, K)
            /\ req.kind = "new" => ToolDomains(req.profile) \subseteq domains

\* A single agent and one of quick mode are alone.
MountedOK ==
    /\ \A a \in mounted : Bounded(a, req)
    /\ \A a, b \in mounted : a.how = b.how => a = b
    /\ \A a \in mounted : a.how \notin Roles =>
          mounted = {a} /\ ~ (req.profile = "deep" /\ req.domains = Unset)

ToolInv ==
    /\ internalTools \in Seq(Catalogue) /\ Registered \subseteq Catalogue
    /\ pc \in {"starting", "idle", "estimated", "quick", "single", "plan", "running"}
    /\ pc = "starting" => bundle = None /\ waiting = None
    /\ pc # "running" => mounted = {}
    /\ pc \notin {"starting", "idle"} => req \in ToolRequests
    /\ waiting # None => waiting \in ToolRequests
    /\ pc = "estimated" => req.kind = "new"
    /\ req.kind = "new" /\ pc \in {"estimated", "quick", "single", "plan"} => req.domains = Unset
    /\ pc = "quick" => req.profile = "quick"
    /\ pc = "single" => req.profile = "deep" /\ (req.kind = "resumed" => req.domains = White)
    /\ BundleOK /\ MountedOK

LEMMA ToolsStart == ToolInit => ToolInv
<1>. SUFFICES ASSUME ToolInit PROVE ToolInv
  OBVIOUS
<1>1. Registered = {} /\ internalTools \in Seq(Catalogue)
  BY DEF ToolInit, Registered, ToSet
<1>. QED
  BY <1>1 DEF ToolInit, ToolInv, BundleOK, MountedOK

\* The buckets of a request that takes those of its message or builds its own.
LEMMA BucketsAreUsable ==
  ASSUME NEW r, r.kbs \in Kbs, NEW up \in SUBSET Connections, NEW D,
         bundle # None =>
            \E domains \in {QuickToolDomains, AllToolDomains}, K \in Kbs :
               /\ BuiltFor(internalTools, bundle.buckets, domains, K)
               /\ r.kind = "new" => D \subseteq domains,
         D \subseteq AllToolDomains, r.kind = "new" => D \subseteq ToolDomainsFor(r)
  PROVE  \E K \in Kbs :
            /\ \A d \in D \ {External} : BucketsFor(r, up)[d] = <<>> \/ BucketsFor(r, up)[d] = ToolsOf(d, K)
            /\ r.kind = "new" => \A d \in D \ {External} : BucketsFor(r, up)[d] = ToolsOf(d, K)
<1>1. CASE bundle # None
  <2>1. PICK domains \in {QuickToolDomains, AllToolDomains}, K \in Kbs :
               /\ BuiltFor(internalTools, bundle.buckets, domains, K)
               /\ r.kind = "new" => D \subseteq domains
    BY <1>1
  <2>2. BucketsFor(r, up) = bundle.buckets
    BY <1>1 DEF BucketsFor
  <2>. QED
    BY <2>1, <2>2 DEF BuiltFor, ToolsOf
<1>2. CASE bundle = None
  <2>1. BucketsFor(r, up) = BuildToolsByDomain(r, ToolDomainsFor(r), up)
    BY <1>2 DEF BucketsFor
  <2>2. BuiltFor(internalTools, BucketsFor(r, up), ToolDomainsFor(r), r.kbs)
    BY <2>1, ToolsAreBuilt
  <2>. QED
    BY <2>2 DEF BuiltFor, ToolsOf
<1>. QED
  BY <1>1, <1>2

LEMMA DomainsDiffer ==
  /\ Unset # White /\ QuickToolDomains \subseteq AllToolDomains /\ White \subseteq AllToolDomains
  /\ External \notin QuickToolDomains /\ External \notin White /\ DocMgmt \notin QuickToolDomains
  /\ White \subseteq AllToolDomains /\ Knowledge \in AllToolDomains
BY DEF Unset, White, QuickToolDomains, AllToolDomains, Knowledge, DocMgmt, Clarify, External

\* A bundle that is kept stays what it was, for the request that is still run.
LEMMA BundleStays ==
  ASSUME BundleOK, internalTools' = internalTools, bundle' = bundle,
         req'.kind = "new" => req.kind = "new" /\ req'.profile = req.profile
  PROVE  BundleOK'
BY DEF BundleOK

\* Quick mode and a single agent: their only agent.
LEMMA OneIsMounted ==
  ASSUME ToolInv, NEW how \in {"quick", "single"}, NEW a, a.how = how, mounted' = {a}, Bounded(a, req'),
         UNCHANGED <<internalTools, bundle, waiting>>, pc' = "running",
         req' \in ToolRequests, req'.kind = req.kind, req'.profile = req.profile,
         ~ (req'.profile = "deep" /\ req'.domains = Unset), pc \notin {"starting", "idle"}
  PROVE  ToolInv'
<1>1. MountedOK'
  BY DEF MountedOK
<1>2. BundleOK'
  BY BundleStays DEF ToolInv
<1>3. Registered' \subseteq Catalogue
  BY DEF ToolInv, Registered
<1>. QED
  BY <1>1, <1>2, <1>3 DEF ToolInv

LEMMA QuickKeeps ==
  ASSUME ToolInv, NEW up \in SUBSET Connections, RunQuickAgent(up)
  PROVE  ToolInv'
<1>. DEFINE D == QuickToolDomains
            B == BucketsFor(req, up)
            a == SelectTools("quick", EntriesOf(D), B, D, FALSE)
<1>1. /\ pc = "quick" /\ req \in ToolRequests /\ req.profile = "quick" /\ Registered \subseteq Catalogue
      /\ req.kind = "new" => req.domains = Unset
  BY DEF RunQuickAgent, ToolInv
<1>2. mounted' = {a}
  BY DEF RunQuickAgent, ToolDomains
<1>3. /\ bundle # None =>
            \E domains \in {QuickToolDomains, AllToolDomains}, K \in Kbs :
               /\ BuiltFor(internalTools, bundle.buckets, domains, K)
               /\ req.kind = "new" => D \subseteq domains
      /\ req.kind = "new" => D \subseteq ToolDomainsFor(req)
  BY <1>1 DEF ToolInv, BundleOK, ToolDomains, ToolDomainsFor
<1>. HIDE DEF B
<1>4. req.kbs \in Kbs /\ D \subseteq AllToolDomains /\ D \cap {DocMgmt, External} = {} /\ External \notin D
  BY <1>1, DomainsDiffer DEF ToolRequests
<1>. HIDE DEF D
<1>5. PICK K \in Kbs :
         /\ \A d \in D \ {External} : B[d] = <<>> \/ B[d] = ToolsOf(d, K)
         /\ req.kind = "new" => \A d \in D \ {External} : B[d] = ToolsOf(d, K)
  BY <1>3, <1>4, BucketsAreUsable DEF B
<1>6. Bounded(a, req)
  <2>1. "quick" \notin Roles
    BY DEF Roles
  <2>2. Mountable("quick", D, K, B, {}, FALSE, req)
    BY <1>4, <1>5, <2>1 DEF Mountable
  <2>. QED
    BY <1>1, <2>2, MountedIsBounded
<1>7. a.how = "quick"
  BY DEF SelectTools
<1>. HIDE DEF a
<1>8. /\ UNCHANGED <<internalTools, bundle, waiting, req>> /\ pc' = "running"
      /\ ~ (req.profile = "deep" /\ req.domains = Unset)
  BY <1>1 DEF RunQuickAgent
<1>. QED
  BY <1>1, <1>2, <1>6, <1>7, <1>8, OneIsMounted

LEMMA SingleKeeps ==
  ASSUME ToolInv, NEW up \in SUBSET Connections, RunDeepAgent(up)
  PROVE  ToolInv'
<1>. DEFINE r == SingleRequest(req)
            B == BucketsFor(r, up)
            a == SelectTools("single", EntriesOf(White), B, White, TRUE)
<1>1. /\ pc = "single" /\ req \in ToolRequests /\ req.profile = "deep" /\ Registered \subseteq Catalogue
      /\ req.kind = "resumed" => req.domains = White
  BY DEF RunDeepAgent, ToolInv
<1>2. /\ r \in ToolRequests /\ r.domains = White /\ r.kind = req.kind /\ r.profile = req.profile /\ r.kbs = req.kbs
  BY <1>1 DEF SingleRequest, ToolRequests, White
<1>. HIDE DEF r
<1>3. ToolDomainsFor(r) = White
  BY <1>2, DomainsDiffer DEF ToolDomainsFor
<1>4. mounted' = {a} /\ req' = r
  BY <1>3 DEF RunDeepAgent, r
<1>5. /\ bundle # None =>
            \E domains \in {QuickToolDomains, AllToolDomains}, K \in Kbs :
               /\ BuiltFor(internalTools, bundle.buckets, domains, K)
               /\ r.kind = "new" => White \subseteq domains
      /\ White \subseteq ToolDomainsFor(r)
  <2>1. ToolDomains(req.profile) = AllToolDomains
    BY <1>1 DEF ToolDomains
  <2>. QED
    BY <1>1, <1>2, <1>3, <2>1, DomainsDiffer DEF ToolInv, BundleOK
<1>. HIDE DEF B
<1>6. r.kbs \in Kbs /\ External \notin White /\ White \subseteq AllToolDomains
  BY <1>1, <1>2, DomainsDiffer DEF ToolRequests
<1>7. PICK K \in Kbs :
         /\ \A d \in White \ {External} : B[d] = <<>> \/ B[d] = ToolsOf(d, K)
         /\ r.kind = "new" => \A d \in White \ {External} : B[d] = ToolsOf(d, K)
  BY <1>5, <1>6, BucketsAreUsable DEF B
<1>8. Bounded(a, r)
  <2>1. "single" \notin Roles
    BY DEF Roles
  <2>2. Mountable("single", White, K, B, {}, TRUE, r)
    BY <1>6, <1>7, <2>1 DEF Mountable
  <2>. QED
    BY <1>1, <2>2, MountedIsBounded
<1>9. a.how = "single"
  BY DEF SelectTools
<1>. HIDE DEF a
<1>10. UNCHANGED <<internalTools, bundle, waiting>> /\ pc' = "running"
  BY DEF RunDeepAgent
<1>. QED
  BY <1>1, <1>2, <1>4, <1>8, <1>9, <1>10, OneIsMounted, DomainsDiffer

\* A task of a plan.
LEMMA TaskKeeps ==
  ASSUME ToolInv, NEW role \in Roles, NEW up \in SUBSET Connections, BuildAgent(role, up)
  PROVE  ToolInv'
<1>. DEFINE D == TaskToolDomains(role)
            B == TaskBuckets(role, req, up)
            a == SelectTools(role, EntriesOf(D), B, D, TRUE)
<1>1. /\ pc = "running" /\ bundle # None /\ req \in ToolRequests /\ req.profile = "deep" /\ req.domains = Unset
      /\ up \subseteq Chosen(req) /\ \A m \in mounted : m.how # role
      /\ Registered \subseteq Catalogue /\ BundleOK /\ MountedOK
  BY DEF BuildAgent, ToolInv
<1>2. mounted' = mounted \cup {a} /\ UNCHANGED <<internalTools, bundle, req, waiting, pc>>
  BY DEF BuildAgent
<1>3. req.kbs \in Kbs
  BY <1>1 DEF ToolRequests
<1>4. /\ \A d \in D \ {External} : B[d] = ToolsOf(d, req.kbs)
      /\ External \in D => B[External] \in Seq(Brought(up))
  <2>1. CASE role = "knowledge_research"
    <3>. DEFINE built == BuildToolsByDomain(req, {Knowledge}, {})
    <3>1. D = {Knowledge} /\ External \notin D
      BY <2>1 DEF TaskToolDomains, Knowledge, External
    <3>2. bundle.buckets = [d \in AllToolDomains |-> bundle.buckets[d]]
      BY <1>1 DEF BundleOK, BuiltFor
    <3>3. B = [bundle.buckets EXCEPT ![Knowledge] = built[Knowledge]]
      BY <2>1 DEF TaskBuckets
    <3>4. BuiltFor(internalTools, built, {Knowledge}, req.kbs)
      BY ToolsAreBuilt
    <3>5. built[Knowledge] = ToolsOf(Knowledge, req.kbs)
      BY <3>1, <3>4, DomainsDiffer DEF BuiltFor, ToolsOf
    <3>. HIDE DEF built, B
    <3>6. B[Knowledge] = ToolsOf(Knowledge, req.kbs)
      BY <3>2, <3>3, <3>5, DomainsDiffer
    <3>. QED
      BY <3>1, <3>6
  <2>2. CASE role \in {"web_research", "document_operation"}
    <3>1. D \subseteq {DocMgmt, External}
      BY <2>2 DEF TaskToolDomains
    <3>2. B = BuildToolsByDomain(req, {DocMgmt, External}, up)
      BY <2>2 DEF TaskBuckets
    <3>3. /\ BuiltFor(internalTools, B, {DocMgmt, External}, req.kbs)
          /\ B[External] \in Seq(Brought(up))
      BY <3>2, ToolsAreBuilt
    <3>4. DocMgmt \in AllToolDomains
      BY DEF AllToolDomains
    <3>. HIDE DEF B, D
    <3>. QED
      BY <3>1, <3>3, <3>4 DEF BuiltFor, ToolsOf
  <2>3. CASE role = "synthesis_review"
    <3>1. D = {}
      BY <2>3 DEF TaskToolDomains
    <3>. QED
      BY <3>1
  <2>. QED
    BY <2>1, <2>2, <2>3 DEF Roles
<1>5. a.how = role
  BY DEF SelectTools
<1>6. Bounded(a, req)
  <2>. HIDE DEF D, B
  <2>1. role \notin {"quick", "single"}
    BY DEF Roles
  <2>2. Mountable(role, D, req.kbs, B, up, TRUE, req)
    BY <1>1, <1>3, <1>4, <2>1 DEF Mountable
  <2>. QED
    BY <1>1, <2>2, MountedIsBounded
<1>. HIDE DEF a, D, B
<1>7. MountedOK'
  <2>1. \A m \in mounted : m.how \in Roles
    BY <1>1 DEF MountedOK
  <2>. QED
    BY <1>1, <1>2, <1>5, <1>6, <2>1 DEF MountedOK
<1>8. BundleOK'
  BY <1>1, <1>2, BundleStays
<1>9. Registered' \subseteq Catalogue
  BY <1>1, <1>2 DEF Registered
<1>. QED
  BY <1>1, <1>2, <1>7, <1>8, <1>9 DEF ToolInv

\* A message builds for its mode.
LEMMA EstimateKeeps ==
  ASSUME ToolInv, NEW m \in Messages, NEW up \in SUBSET Connections, EstimateToolsTokens(m, up)
  PROVE  ToolInv'
<1>1. /\ pc = "idle" /\ pc' = "estimated" /\ req' = m /\ UNCHANGED <<internalTools, waiting, mounted>>
      /\ mounted = {} /\ Registered \subseteq Catalogue
  BY DEF EstimateToolsTokens, ToolInv
<1>2. m \in ToolRequests /\ m.kind = "new" /\ m.domains = Unset /\ m.profile \in Profiles /\ m.kbs \in Kbs
  BY DEF Messages, ToolRequests
<1>3. BundleOK'
  <2>. DEFINE domains == ToolDomains(m.profile)
              b == BuildToolsByDomain(m, domains, up)
  <2>1. bundle' = None \/ bundle'.buckets = b
    BY DEF EstimateToolsTokens
  <2>2. BuiltFor(internalTools, b, domains, m.kbs)
    BY ToolsAreBuilt
  <2>3. domains \in {QuickToolDomains, AllToolDomains}
    BY DEF ToolDomains
  <2>. HIDE DEF b
  <2>4. bundle' # None => BuiltFor(internalTools', bundle'.buckets, domains, m.kbs) /\ domains \subseteq domains
    BY <1>1, <2>1, <2>2
  <2>. QED
    BY <1>1, <1>2, <2>3, <2>4 DEF BundleOK
<1>4. MountedOK'
  BY <1>1 DEF MountedOK
<1>. QED
  BY <1>1, <1>2, <1>3, <1>4 DEF ToolInv, Registered

\* A later message goes on with the frozen request, which is not a new one.
LEMMA ExecuteKeeps ==
  ASSUME ToolInv, Execute
  PROVE  ToolInv'
<1>1. /\ pc = "estimated" /\ req \in ToolRequests /\ req.kind = "new" /\ req.domains = Unset
      /\ waiting # None => waiting \in ToolRequests
      /\ mounted = {} /\ mounted' = {} /\ waiting' = None /\ UNCHANGED <<internalTools, bundle>>
      /\ Registered \subseteq Catalogue /\ BundleOK
  BY DEF Execute, ToolInv
<1>2. /\ waiting = None => req' = req
      /\ waiting # None => /\ req' \in ToolRequests /\ req'.kind = "resumed" /\ req'.profile = waiting.profile
                           /\ req'.domains = waiting.domains
  BY <1>1 DEF Execute, RestoreContextRequest, ToolRequests
<1>3. /\ pc' \in {"quick", "plan", "single"}
      /\ pc' = "quick" => req'.profile = "quick"
      /\ pc' = "single" => req'.profile # "quick" /\ (waiting # None => waiting.domains # Unset)
  BY DEF Execute
<1>4. req' \in ToolRequests /\ (req'.kind = "new" => req' = req)
  BY <1>1, <1>2
<1>5. req'.profile \in {"quick", "deep"} /\ req'.domains \in {Unset, White}
  BY <1>4 DEF ToolRequests, Profiles
<1>6. pc' = "single" => req'.profile = "deep" /\ (req'.kind = "resumed" => req'.domains = White)
  BY <1>1, <1>2, <1>3, <1>5
<1>7. BundleOK'
  BY <1>1, <1>4, BundleStays
<1>8. MountedOK'
  BY <1>1 DEF MountedOK
<1>. QED
  BY <1>1, <1>3, <1>4, <1>6, <1>7, <1>8 DEF ToolInv, Registered

\* A planned run builds what its message did not.
LEMMA PlanKeeps ==
  ASSUME ToolInv, NEW up \in SUBSET Connections, RunPlanExecute(up)
  PROVE  ToolInv'
<1>1. /\ pc = "plan" /\ pc' = "running" /\ req \in ToolRequests /\ mounted = {}
      /\ UNCHANGED <<internalTools, req, waiting, mounted>> /\ Registered \subseteq Catalogue /\ BundleOK
  BY DEF RunPlanExecute, ToolInv
<1>2. BundleOK'
  <2>1. CASE bundle # None
    <3>1. bundle' = bundle
      BY <2>1 DEF RunPlanExecute
    <3>. QED
      BY <1>1, <3>1, BundleStays
  <2>2. CASE bundle = None
    <3>. DEFINE b == BuildToolsByDomain(req, AllToolDomains, up)
    <3>1. bundle'.buckets = b
      BY <2>2 DEF RunPlanExecute
    <3>2. BuiltFor(internalTools, b, AllToolDomains, req.kbs)
      BY ToolsAreBuilt
    <3>3. req.kbs \in Kbs /\ ToolDomains(req.profile) \subseteq AllToolDomains
      BY <1>1, DomainsDiffer DEF ToolRequests, ToolDomains
    <3>. HIDE DEF b
    <3>4. BuiltFor(internalTools', bundle'.buckets, AllToolDomains, req.kbs)
      BY <1>1, <3>1, <3>2
    <3>. QED
      BY <1>1, <3>3, <3>4 DEF BundleOK
  <2>. QED
    BY <2>1, <2>2
<1>3. MountedOK'
  BY <1>1 DEF MountedOK
<1>. QED
  BY <1>1, <1>2, <1>3 DEF ToolInv, Registered

LEMMA ToolsStay == ToolInv /\ [ToolNext]_toolVars => ToolInv'
<1>. SUFFICES ASSUME ToolInv, [ToolNext]_toolVars PROVE ToolInv'
  OBVIOUS
<1>1. ASSUME NEW e \in Catalogue, RegisterInternal(e) PROVE ToolInv'
  <2>1. pc = "starting" /\ pc' \in {"starting", "idle"} /\ internalTools' = Append(internalTools, e)
    BY <1>1 DEF RegisterInternal
  <2>2. internalTools' \in Seq(Catalogue) /\ Registered' \subseteq Catalogue
    BY <2>1, <1>1 DEF ToolInv, Registered, ToSet
  <2>3. bundle' = None /\ waiting' = None /\ mounted' = {}
    BY <1>1, <2>1 DEF RegisterInternal, ToolInv
  <2>. QED
    BY <2>1, <2>2, <2>3 DEF ToolInv, BundleOK, MountedOK
<1>2. ASSUME NEW m \in Messages, NEW up \in SUBSET Connections, EstimateToolsTokens(m, up) PROVE ToolInv'
  BY <1>2, EstimateKeeps
<1>3. CASE Execute
  BY <1>3, ExecuteKeeps
<1>4. ASSUME NEW up \in SUBSET Connections, RunQuickAgent(up) \/ RunDeepAgent(up) \/ RunPlanExecute(up) PROVE ToolInv'
  BY <1>4, QuickKeeps, SingleKeeps, PlanKeeps
<1>5. ASSUME NEW role \in Roles, NEW up \in SUBSET Connections, BuildAgent(role, up) PROVE ToolInv'
  BY <1>5, TaskKeeps
<1>6. CASE Interrupt
  <2>1. /\ pc = "running" /\ pc' = "idle" /\ bundle' = None /\ mounted' = {} /\ waiting' = req
        /\ internalTools' = internalTools
    BY <1>6 DEF Interrupt
  <2>. QED
    BY <2>1 DEF ToolInv, BundleOK, MountedOK, Registered
<1>7. CASE Complete
  <2>1. /\ pc = "running" /\ pc' = "idle" /\ bundle' = None /\ mounted' = {} /\ waiting' = waiting
        /\ internalTools' = internalTools
    BY <1>7 DEF Complete
  <2>. QED
    BY <2>1 DEF ToolInv, BundleOK, MountedOK, Registered
<1>8. CASE UNCHANGED toolVars
  BY <1>8 DEF toolVars, ToolInv, BundleOK, MountedOK, Registered
<1>. QED
  BY <1>1, <1>2, <1>3, <1>4, <1>5, <1>6, <1>7, <1>8 DEF ToolNext

\* As many agents as a plan has roles, at most.
LEMMA FewAreMounted ==
  ASSUME MountedOK
  PROVE  Cardinality(mounted) <= Cardinality(Roles)
<1>. DEFINE f == [a \in mounted |-> IF a.how \in Roles THEN a.how ELSE "web_research"]
<1>1. f \in [mounted -> Roles]
  BY DEF Roles
<1>2. ASSUME NEW a \in mounted, NEW b \in mounted, f[a] = f[b] PROVE a = b
  BY <1>2 DEF MountedOK
<1>3. f \in Injection(mounted, Roles)
  BY <1>1, <1>2 DEF Injection, IsInjective
<1>4. IsFiniteSet(Roles)
  <2>1. IsFiniteSet({"knowledge_research"})
    BY FS_Singleton
  <2>2. IsFiniteSet({"knowledge_research"} \cup {"web_research"})
    BY <2>1, FS_AddElement
  <2>3. IsFiniteSet(({"knowledge_research"} \cup {"web_research"}) \cup {"document_operation"})
    BY <2>2, FS_AddElement
  <2>4. IsFiniteSet((({"knowledge_research"} \cup {"web_research"}) \cup {"document_operation"}) \cup {"synthesis_review"})
    BY <2>3, FS_AddElement
  <2>5. Roles = (({"knowledge_research"} \cup {"web_research"}) \cup {"document_operation"}) \cup {"synthesis_review"}
    BY DEF Roles
  <2>. QED
    BY <2>4, <2>5
<1>. QED
  BY <1>3, <1>4, FS_Injection

LEMMA ToolsByParts ==
  ToolInv => /\ ToolTypeOK /\ PromptMatchesTools /\ ListsAreStable
             /\ RiskIsGuarded /\ StaysInside /\ TasksKeepTheChoice
<1>. SUFFICES ASSUME ToolInv
              PROVE  /\ ToolTypeOK /\ PromptMatchesTools /\ ListsAreStable
                     /\ RiskIsGuarded /\ StaysInside /\ TasksKeepTheChoice
  OBVIOUS
<1>1. MountedOK /\ \A a \in mounted : Bounded(a, req)
  BY DEF ToolInv, MountedOK
<1>2. ToolTypeOK
  BY <1>1, FewAreMounted DEF ToolInv, ToolTypeOK, Registered, Bounded
<1>3. PromptMatchesTools
  BY <1>1 DEF PromptMatchesTools, Bounded, IsListed
<1>4. ListsAreStable
  BY <1>1 DEF ListsAreStable, Bounded, IsStable
<1>5. RiskIsGuarded
  BY <1>1 DEF RiskIsGuarded, Bounded, IsGuarded
<1>6. StaysInside
  BY <1>1 DEF StaysInside, Bounded, IsInside
<1>7. TasksKeepTheChoice
  BY <1>1 DEF TasksKeepTheChoice, Bounded, IsChosen
<1>. QED
  BY <1>2, <1>3, <1>4, <1>5, <1>6, <1>7

-----------------------------------------------------------------------------
(* One part at a time.                                                     *)

serviceVars == <<part, toolVars, readingVars, accountVars, tokenVars, agentVars, legacyVars>>

\* The invariant of the part that a behaviour is of.
ServicesInv ==
    /\ part = "reading" => ReadingInv
    /\ part = "accounts" => AccountInv
    /\ part = "tokens" => TokenInv
    /\ part = "legacy" => LegacyParts
    /\ part = "agent" => Agent!AgentInv
    /\ part = "tools" => ToolInv

LEMMA ServicesStart == Init => ServicesInv
BY ReadingStarts, AccountsStart, TokensStart, LegacyStarts, AgentStarts, ToolsStart DEF Init, ServicesInv

\* A step is a step of one part, and the part stays the same.
LEMMA ServicesStay == ServicesInv /\ [Next]_serviceVars => ServicesInv'
<1>. SUFFICES ASSUME ServicesInv, [Next]_serviceVars PROVE ServicesInv'
  OBVIOUS
<1>1. part' = part
  BY DEF Next, serviceVars
<1>2. CASE part = "accounts"
  <2>1. [AccountNext]_accountVars
    BY <1>2 DEF Next, serviceVars
  <2>. QED  BY <1>1, <1>2, <2>1, AccountsStay DEF ServicesInv
<1>3. CASE part = "tokens"
  <2>1. [TokenNext]_tokenVars
    BY <1>3 DEF Next, serviceVars
  <2>. QED  BY <1>1, <1>3, <2>1, TokensStay DEF ServicesInv
<1>4. CASE part = "legacy"
  <2>1. [Legacy!LegacyNext]_legacyVars
    BY <1>4 DEF Next, serviceVars
  <2>. QED  BY <1>1, <1>4, <2>1, LegacyStays DEF ServicesInv
<1>5. CASE part = "agent"
  <2>1. [Agent!AgentNext]_agentVars
    BY <1>5 DEF Next, serviceVars
  <2>. QED  BY <1>1, <1>5, <2>1, AgentStays DEF ServicesInv
<1>6. CASE part = "reading"
  <2>1. [ReadingNext]_readingVars
    BY <1>6 DEF Next, serviceVars
  <2>. QED  BY <1>1, <1>6, <2>1, ReadingStay DEF ServicesInv
<1>7. CASE part = "tools"
  <2>1. [ToolNext]_toolVars
    BY <1>7 DEF Next, serviceVars
  <2>. QED  BY <1>1, <1>7, <2>1, ToolsStay DEF ServicesInv
<1>8. CASE part \notin {"reading", "accounts", "tokens", "legacy", "agent", "tools"}
  BY <1>1, <1>8 DEF ServicesInv
<1>. QED  BY <1>2, <1>3, <1>4, <1>5, <1>6, <1>7, <1>8

LEMMA ServicesAlways == Spec => []ServicesInv
BY ServicesStart, ServicesStay, PTL DEF Spec, serviceVars

\* A page shows exactly the lines that its reference names, a section ends where its
\* headings say, and the review is given of a reference no more than was read and calls
\* complete only the whole: whatever was stored, asked for and allowed (ArtifactReading).
THEOREM ReadingIsAlwaysHonest == Spec => []ReadingIsHonest
<1>1. ServicesInv => ReadingIsHonest
  BY DEF ServicesInv, ReadingIsHonest
<1>. QED  BY <1>1, ServicesAlways, PTL

\* A user that was deleted, a password that was replaced and a token that was
\* logged out stay so, whatever requests run at the same time (Accounts, LoginTokens).
THEOREM WithdrawnAlwaysStays == Spec => []WithdrawnStaysWithdrawn
<1>1. ServicesInv => WithdrawnStaysWithdrawn
  BY DEF ServicesInv, WithdrawnStaysWithdrawn
<1>. QED  BY <1>1, ServicesAlways, PTL

\* Of the calls of a message each dangerous tool runs once at most, and only after
\* its own card was approved, whatever the tools, the pauses and the answers (AgentRun).
THEOREM OnlyApprovedEverRuns == Spec => []OnlyApprovedRuns
<1>1. ServicesInv => OnlyApprovedRuns
  BY DEF ServicesInv, OnlyApprovedRuns, Agent!AgentInv
<1>. QED  BY <1>1, ServicesAlways, PTL

\* An answer called done ended as its model meant it to and holds nothing of an attempt
\* that broke off; what is kept is what was shown; and a run that may ask its user
\* has rounds for what follows, for every number of iterations configured (AgentRun).
THEOREM AnswerIsAlwaysWhole == Spec => []AnswerIsWhole
<1>1. ServicesInv => AnswerIsWhole
  BY DEF ServicesInv, AnswerIsWhole, Agent!AgentInv
<1>. QED  BY <1>1, ServicesAlways, PTL

\* What the prompt of an agent lists is what it can call, in an order that does not depend
\* on the registration; a dangerous tool is given only with its guard; quick mode and a
\* single agent reach no connection, and a task none that its user did not choose: for every
\* registry, every choice and whatever run a message goes on with (ToolSet).
THEOREM ToolsStayBounded == Spec => []ToolsAreBounded
<1>1. ServicesInv => ToolsAreBounded
  BY ToolsByParts DEF ServicesInv, ToolsAreBounded
<1>. QED  BY <1>1, ServicesAlways, PTL

\* A task of an older program is resumed on finished work only, for every plan, and
\* the card that is shown can be answered from the checkpoint (LegacyResume).
THEOREM LegacyIsAlwaysResumable == Spec => []LegacyIsResumable
<1>1. ServicesInv => LegacyIsResumable
  BY LegacyByParts DEF ServicesInv, LegacyIsResumable
<1>. QED  BY <1>1, ServicesAlways, PTL

=============================================================================
