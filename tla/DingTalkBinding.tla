-------------------------- MODULE DingTalkBinding ---------------------------
(***************************************************************************)
(* Binding a DingTalk account to a user (dingtalk_service.go): the state   *)
(* of the QR code lies in Redis until an exchange takes it or it expires,  *)
(* the exchange asks DingTalk who scanned it, looks whether the account is *)
(* taken, and writes the binding.                                          *)
(***************************************************************************)
EXTENDS Naturals, FiniteSets

CONSTANTS
    Users, Unions,  \* users of the program, DingTalk accounts (unionId)
    Exchanges,      \* requests that exchange a code
    States,         \* states handed out with QR codes (bound)
    NoUnion

ASSUME BindingNames == NoUnion \notin Unions /\ Users \cap {"unused", "gone"} = {}

VARIABLES
    oauth,      \* [States -> the user, "unused" or "gone"]
    exchange,   \* [Exchanges -> where it is]
    binding     \* [Users -> the account]

bindingVars == <<oauth, exchange, binding>>

Exchange == [pc : {"new", "asking", "token", "known", "free", "bound", "refused"},
             user : Users, state : States, union : Unions \cup {NoUnion}]

\* States, exchanges and bindings are of their types.
BindingTypeOK ==
    /\ oauth \in [States -> Users \cup {"unused", "gone"}]
    /\ exchange \in [Exchanges -> Exchange]
    /\ binding \in [Users -> Unions \cup {NoUnion}]

\* Every exchange brings a user and a state of its choice, its own or not.
BindingInit ==
    /\ oauth = [s \in States |-> "unused"]
    /\ exchange \in [Exchanges -> {e \in Exchange : e.pc = "new" /\ e.union = NoUnion}]
    /\ binding = [u \in Users |-> NoUnion]

OAuthConfig(u, s) ==
    /\ oauth[s] = "unused"
    /\ oauth' = [oauth EXCEPT ![s] = u]
    /\ UNCHANGED <<exchange, binding>>

StateExpires(s) ==
    /\ oauth[s] \in Users
    /\ oauth' = [oauth EXCEPT ![s] = "gone"]
    /\ UNCHANGED <<exchange, binding>>

ValidateState_Keeps(x) ==
    LET e == exchange[x] IN
    /\ e.pc = "new" /\ oauth[e.state] # "unused"
    /\ exchange' = [exchange EXCEPT ![x].pc =
                      IF oauth[e.state] = e.user THEN "asking" ELSE "refused"]
    /\ UNCHANGED <<oauth, binding>>

\* GetDelete takes the state, also from an exchange it does not belong to.
ValidateState(x) ==
    LET e == exchange[x] IN
    /\ e.pc = "new" /\ oauth[e.state] # "unused"
    /\ exchange' = [exchange EXCEPT ![x].pc =
                      IF oauth[e.state] = e.user THEN "asking" ELSE "refused"]
    /\ oauth' = [oauth EXCEPT ![e.state] = "gone"]
    /\ UNCHANGED binding

\* DingTalk gives a token for the code, and says who it belongs to.
ExchangeUserAccessToken(x) ==
    /\ exchange[x].pc = "asking"
    /\ \E pc \in {"token", "refused"} : exchange' = [exchange EXCEPT ![x].pc = pc]
    /\ UNCHANGED <<oauth, binding>>

GetCurrentUserInfo(x) ==
    /\ exchange[x].pc = "token"
    /\ \/ \E d \in Unions :
            exchange' = [exchange EXCEPT ![x].pc = "known", ![x].union = d]
       \/ exchange' = [exchange EXCEPT ![x].pc = "refused"]
    /\ UNCHANGED <<oauth, binding>>

TakenBy(d) == {u \in Users : binding[u] = d}

EnsureUnionAvailable(x) ==
    LET e == exchange[x] IN
    /\ e.pc = "known"
    /\ exchange' = [exchange EXCEPT ![x].pc =
                      IF TakenBy(e.union) \subseteq {e.user} THEN "free" ELSE "refused"]
    /\ UNCHANGED <<oauth, binding>>

\* The unique index on ding_union_id turns away what was taken meanwhile.
UpsertByUserID(x) ==
    LET e == exchange[x] IN
    /\ e.pc = "free"
    /\ IF TakenBy(e.union) \subseteq {e.user}
       THEN /\ binding' = [binding EXCEPT ![e.user] = e.union]
            /\ exchange' = [exchange EXCEPT ![x].pc = "bound"]
       ELSE /\ exchange' = [exchange EXCEPT ![x].pc = "refused"]
            /\ UNCHANGED binding
    /\ UNCHANGED oauth

DeleteBinding(u) ==
    /\ binding[u] # NoUnion
    /\ binding' = [binding EXCEPT ![u] = NoUnion]
    /\ UNCHANGED <<oauth, exchange>>

BindingNext ==
    \/ \E u \in Users : DeleteBinding(u) \/ \E s \in States : OAuthConfig(u, s)
    \/ \E s \in States : StateExpires(s)
    \/ \E x \in Exchanges : \/ ValidateState(x) \/ ExchangeUserAccessToken(x)
                            \/ GetCurrentUserInfo(x) \/ EnsureUnionAvailable(x)
                            \/ UpsertByUserID(x)

BindingSpec == BindingInit /\ [][BindingNext]_bindingVars

-----------------------------------------------------------------------------
\* A DingTalk account is bound to at most one user, and a scanned state lets
\* at most one exchange through, however the exchanges of several users and
\* their deletions interleave.
AuthorisationIsExclusive ==
    /\ \A d \in Unions : Cardinality(TakenBy(d)) <= 1
    /\ \A x, y \in Exchanges :
         ( /\ exchange[x].pc \notin {"new", "refused"}
           /\ exchange[y].pc \notin {"new", "refused"}
           /\ exchange[x].state = exchange[y].state ) => x = y

\* Why it is so: no account is written twice, and whoever presented a state has
\* taken it away, whether it was theirs or not.
BoundOnce == \A u, v \in Users : binding[u] = binding[v] /\ binding[u] # NoUnion => u = v
PresentedIsGone ==
    \A x \in Exchanges : exchange[x].pc # "new" => oauth[exchange[x].state] = "gone"

\* The inductive invariant of a binding.
BindingInv == BindingTypeOK /\ AuthorisationIsExclusive /\ BoundOnce /\ PresentedIsGone
=============================================================================
