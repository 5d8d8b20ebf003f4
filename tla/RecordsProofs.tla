---------------------------- MODULE RecordsProofs ----------------------------
(***************************************************************************)
(* The properties of the run Records, for every value of the constants.    *)
(* One section proves the inductive invariant of each part about the       *)
(* component it is; the last one states the properties by the run's        *)
(* specification, a behaviour of which is a behaviour of one part.         *)
(***************************************************************************)
EXTENDS MCRecords, FiniteSetTheorems, SequenceTheorems, TLAPS

-----------------------------------------------------------------------------
(* A set whose elements are all equal.                                     *)

LEMMA AtMostOne ==
  ASSUME NEW S, \A x, y \in S : x = y
  PROVE  IsFiniteSet(S) /\ Cardinality(S) <= 1
<1>1. CASE S = {}
  BY <1>1, FS_EmptySet
<1>2. CASE S # {}
  <2>1. PICK x \in S : TRUE
    BY <1>2
  <2>2. S = {x}
    BY <2>1
  <2>3. IsFiniteSet({x}) /\ Cardinality({x}) = 1
    BY FS_Singleton
  <2> QED
    BY <2>2, <2>3
<1> QED
  BY <1>1, <1>2

-----------------------------------------------------------------------------
(* DingTalkBinding.                                                        *)

\* At the start nobody has presented a state and no account is bound.
LEMMA BindingStarts == BindingInit => BindingInv
<1> SUFFICES ASSUME BindingInit PROVE BindingInv
  OBVIOUS
<1>1. BindingTypeOK
  BY DEF BindingInit, BindingTypeOK, Exchange
<1>2. \A x \in Exchanges : exchange[x].pc = "new"
  BY DEF BindingInit
<1>3. BoundOnce /\ PresentedIsGone
  BY <1>2 DEF BindingInit, BoundOnce, PresentedIsGone
<1>4. \A d \in Unions : TakenBy(d) = {}
  BY BindingNames DEF BindingInit, TakenBy
<1>5. AuthorisationIsExclusive
  BY <1>2, <1>4, FS_EmptySet DEF AuthorisationIsExclusive
<1> QED
  BY <1>1, <1>3, <1>5 DEF BindingInv

\* The part of AuthorisationIsExclusive about states.
LetsOneThrough ==
    \A x, y \in Exchanges :
        ( /\ exchange[x].pc \notin {"new", "refused"}
          /\ exchange[y].pc \notin {"new", "refused"}
          /\ exchange[x].state = exchange[y].state ) => x = y

LEMMA ExclusiveByParts ==
  BoundOnce /\ LetsOneThrough => AuthorisationIsExclusive
<1> SUFFICES ASSUME BoundOnce, LetsOneThrough PROVE AuthorisationIsExclusive
  OBVIOUS
<1>1. ASSUME NEW d \in Unions PROVE Cardinality(TakenBy(d)) <= 1
  <2>1. \A u, v \in TakenBy(d) : u = v
    BY BindingNames DEF BoundOnce, TakenBy
  <2> QED
    BY <2>1, AtMostOne
<1> QED
  BY <1>1 DEF AuthorisationIsExclusive, LetsOneThrough

\* What a step of an exchange leaves alone: the account, or the state and the
\* exchange that presented it.
LEMMA ExchangeStep ==
  ASSUME BindingInv, NEW x \in Exchanges,
         \/ ValidateState(x) \/ ExchangeUserAccessToken(x) \/ GetCurrentUserInfo(x)
         \/ EnsureUnionAvailable(x) \/ UpsertByUserID(x)
  PROVE  BindingTypeOK' /\ BoundOnce' /\ PresentedIsGone' /\ LetsOneThrough'
<1> USE DEF BindingInv
<1>1. CASE ValidateState(x)
  <2>1. BindingTypeOK'
    BY <1>1 DEF ValidateState, BindingTypeOK, Exchange
  <2>2. BoundOnce'
    BY <1>1 DEF ValidateState, BoundOnce
  <2>3. /\ \A y \in Exchanges : y # x => exchange'[y] = exchange[y]
        /\ exchange'[x].state = exchange[x].state
        /\ exchange'[x].pc = IF oauth[exchange[x].state] = exchange[x].user THEN "asking" ELSE "refused"
        /\ oauth' = [oauth EXCEPT ![exchange[x].state] = "gone"]
    BY <1>1 DEF ValidateState, BindingTypeOK, Exchange
  <2>4. PresentedIsGone'
    BY <2>3 DEF PresentedIsGone, BindingTypeOK, Exchange
  <2>5. exchange'[x].pc = "asking" => oauth[exchange[x].state] # "gone"
    BY <2>3, BindingNames DEF BindingTypeOK, Exchange
  <2>6. LetsOneThrough'
    BY <2>3, <2>5 DEF LetsOneThrough, AuthorisationIsExclusive, PresentedIsGone
  <2> QED
    BY <2>1, <2>2, <2>4, <2>6
<1>2. CASE ExchangeUserAccessToken(x) \/ GetCurrentUserInfo(x) \/ EnsureUnionAvailable(x)
  <2>1. /\ \A y \in Exchanges : y # x => exchange'[y] = exchange[y]
        /\ exchange'[x].state = exchange[x].state
        /\ exchange[x].pc \notin {"new", "refused"}
        /\ UNCHANGED <<oauth, binding>>
    BY <1>2 DEF ExchangeUserAccessToken, GetCurrentUserInfo, EnsureUnionAvailable, BindingTypeOK, Exchange
  <2>2. BindingTypeOK'
    BY <1>2 DEF ExchangeUserAccessToken, GetCurrentUserInfo, EnsureUnionAvailable, BindingTypeOK, Exchange
  <2>3. PresentedIsGone' /\ LetsOneThrough' /\ BoundOnce'
    BY <2>1 DEF PresentedIsGone, LetsOneThrough, AuthorisationIsExclusive, BoundOnce
  <2> QED
    BY <2>2, <2>3
<1>3. CASE UpsertByUserID(x)
  <2>1. /\ \A y \in Exchanges : y # x => exchange'[y] = exchange[y]
        /\ exchange'[x].state = exchange[x].state
        /\ exchange[x].pc \notin {"new", "refused"}
        /\ UNCHANGED oauth
    BY <1>3 DEF UpsertByUserID, BindingTypeOK, Exchange
  <2>2. BindingTypeOK'
    BY <1>3 DEF UpsertByUserID, BindingTypeOK, Exchange
  <2>3. PresentedIsGone' /\ LetsOneThrough'
    BY <2>1 DEF PresentedIsGone, LetsOneThrough, AuthorisationIsExclusive
  <2>4. BoundOnce'
    <3>1. CASE UNCHANGED binding
      BY <3>1 DEF BoundOnce
    <3>2. CASE ~UNCHANGED binding
      <4>1. /\ TakenBy(exchange[x].union) \subseteq {exchange[x].user}
            /\ binding' = [binding EXCEPT ![exchange[x].user] = exchange[x].union]
        BY <1>3, <3>2 DEF UpsertByUserID
      <4>2. \A u \in Users : binding[u] = exchange[x].union => u = exchange[x].user
        BY <4>1 DEF TakenBy
      <4> QED
        BY <4>1, <4>2 DEF BoundOnce, BindingTypeOK, Exchange
    <3> QED
      BY <3>1, <3>2
  <2> QED
    BY <2>2, <2>3, <2>4
<1> QED
  BY <1>1, <1>2, <1>3

\* However exchanges, scans, expiries and deletions follow each other.
LEMMA BindingStays == BindingInv /\ [BindingNext]_bindingVars => BindingInv'
<1> SUFFICES ASSUME BindingInv, [BindingNext]_bindingVars
             PROVE  BindingTypeOK' /\ BoundOnce' /\ PresentedIsGone' /\ LetsOneThrough'
  <2>1. (BoundOnce /\ LetsOneThrough => AuthorisationIsExclusive)'
    BY ExclusiveByParts, PTL
  <2> QED
    BY <2>1 DEF BindingInv
<1> USE DEF BindingInv
<1>1. ASSUME NEW u \in Users, DeleteBinding(u)
      PROVE  BindingTypeOK' /\ BoundOnce' /\ PresentedIsGone' /\ LetsOneThrough'
  BY <1>1 DEF DeleteBinding, BindingTypeOK, BoundOnce, PresentedIsGone, LetsOneThrough,
              AuthorisationIsExclusive
<1>2. ASSUME NEW u \in Users, NEW s \in States, OAuthConfig(u, s)
      PROVE  BindingTypeOK' /\ BoundOnce' /\ PresentedIsGone' /\ LetsOneThrough'
  <2>1. BindingTypeOK' /\ BoundOnce' /\ LetsOneThrough'
    BY <1>2 DEF OAuthConfig, BindingTypeOK, BoundOnce, LetsOneThrough, AuthorisationIsExclusive
  <2>2. \A t \in States : oauth[t] = "gone" => oauth'[t] = "gone"
    BY <1>2 DEF OAuthConfig, BindingTypeOK
  <2>3. PresentedIsGone'
    BY <1>2, <2>2 DEF OAuthConfig, PresentedIsGone, BindingTypeOK, Exchange
  <2> QED
    BY <2>1, <2>3
<1>3. ASSUME NEW s \in States, StateExpires(s)
      PROVE  BindingTypeOK' /\ BoundOnce' /\ PresentedIsGone' /\ LetsOneThrough'
  <2>1. BindingTypeOK' /\ BoundOnce' /\ LetsOneThrough'
    BY <1>3 DEF StateExpires, BindingTypeOK, BoundOnce, LetsOneThrough, AuthorisationIsExclusive
  <2>2. \A t \in States : oauth[t] = "gone" => oauth'[t] = "gone"
    BY <1>3 DEF StateExpires, BindingTypeOK
  <2>3. PresentedIsGone'
    BY <1>3, <2>2 DEF StateExpires, PresentedIsGone, BindingTypeOK, Exchange
  <2> QED
    BY <2>1, <2>3
<1>4. CASE UNCHANGED bindingVars
  BY <1>4 DEF bindingVars, BindingTypeOK, BoundOnce, PresentedIsGone, LetsOneThrough,
              AuthorisationIsExclusive
<1> QED
  BY <1>1, <1>2, <1>3, <1>4, ExchangeStep DEF BindingNext

-----------------------------------------------------------------------------
(* McpConfig.                                                              *)

OffsAreFinite == \A c \in Connections : Exists(link[c]) => IsFiniteSet(link[c].off)

\* A row is none of the marks for a row that is not there.
LEMMA RowsExist ==
  /\ \A r \in LinkRow : Exists(r)
  /\ \A r \in TemplateRow : Exists(r)
<1>1. ASSUME NEW r \in LinkRow PROVE Exists(r)
  <2>1. "endpoint" \in DOMAIN r /\ "endpoint" \notin DOMAIN NoRow /\ "endpoint" \notin DOMAIN Removed
    BY DEF LinkRow, NoRow, Removed
  <2> QED
    BY <2>1 DEF Exists
<1>2. ASSUME NEW r \in TemplateRow PROVE Exists(r)
  <2>1. "endpoint" \in DOMAIN r /\ "endpoint" \notin DOMAIN NoRow /\ "endpoint" \notin DOMAIN Removed
    BY DEF TemplateRow, NoRow, Removed
  <2> QED
    BY <2>1 DEF Exists
<1> QED
  BY <1>1, <1>2

LEMMA ExistingRows ==
  ASSUME McpTypeOK
  PROVE  /\ \A c \in Connections : Exists(link[c]) <=> link[c] \in LinkRow
         /\ \A t \in Templates : Exists(template[t]) <=> template[t] \in TemplateRow
BY RowsExist DEF McpTypeOK, Exists

\* What a request is, by where it is.
LEMMA RequestsFit ==
  ASSUME McpTypeOK, NEW e \in Editors
  PROVE  /\ editor[e].pc = "insert" =>
              editor[e] \in [pc : {"insert"}, id : Connections, row : LinkRow]
         /\ editor[e].pc \in {"validate", "update"} =>
              editor[e] \in [pc : {"validate", "update"}, id : Connections, row : LinkRow, checked : BOOLEAN]
         /\ editor[e].pc = "switch" =>
              editor[e] \in [pc : {"switch"}, id : Connections, tool : ToolNames, on : BOOLEAN]
         /\ editor[e].pc = "template" => editor[e] \in [pc : {"template"}, id : Templates, row : TemplateRow]
         /\ editor[e].pc = "probe" => editor[e] \in [pc : {"probe"}, id : Templates, endpoint : Endpoints]
<1>1. editor[e] \in ConnectionRequest \cup TemplateRequest \cup {NoRequest}
  BY DEF McpTypeOK
<1> QED
  BY <1>1 DEF ConnectionRequest, TemplateRequest, NoRequest

\* At the start nothing was read, and every ID of a connection is new or used up.
LEMMA McpStarts == McpInit => McpInv
<1> SUFFICES ASSUME McpInit PROVE McpInv
  OBVIOUS
<1>1. PICK kept \in SUBSET Templates :
        template = [t \in Templates |-> IF t \in kept THEN ATemplate ELSE NoRow]
  BY DEF McpInit
<1>2. PICK ids \in SUBSET Connections :
        /\ link = [c \in Connections |-> IF c \in ids THEN NoRow ELSE Removed]
        /\ told = [x \in Templates \cup Connections |->
             IF x \in Templates THEN [on |-> Exists(template[x]), off |-> {}]
             ELSE IF x \in ids THEN [on |-> FALSE, off |-> {}] ELSE Deleted]
  BY DEF McpInit
<1>3. AnEndpoint \in Endpoints /\ ASchema \in Schemas
  BY McpAssumption DEF AnEndpoint, ASchema
<1>4. ATemplate \in TemplateRow
  BY <1>3 DEF ATemplate, TemplateRow
<1>5. \A c \in Connections : ~Exists(link[c])
  BY <1>2 DEF Exists
<1>6. \A t \in Templates : Exists(template[t]) <=> t \in kept
  BY <1>1, <1>4, RowsExist DEF Exists
<1>7. McpTypeOK
  <2>1. template \in [Templates -> TemplateRow \cup {NoRow, Removed}]
    BY <1>1, <1>4
  <2>2. told \in [Templates \cup Connections -> [on : BOOLEAN, off : SUBSET ToolNames]]
    <3>1. \A x \in Templates \cup Connections : told[x] \in [on : BOOLEAN, off : SUBSET ToolNames]
      BY <1>2 DEF Deleted, Exists
    <3>2. told = [x \in Templates \cup Connections |-> told[x]]
      BY <1>2
    <3> QED
      BY <3>1, <3>2
  <2>3. clock \in 1 .. MaxEdits + 1
    BY McpAssumption DEF McpInit
  <2> QED
    BY <1>2, <1>5, <2>1, <2>2, <2>3 DEF McpInit, McpTypeOK
<1>8. AnswersHold
  BY <1>2, <1>5, <1>6, <1>1, <1>4 DEF AnswersHold, ATemplate
<1>9. ReadsAreDated /\ InsertsAreNew
  <2>1. \A e \in Editors : editor[e].pc = "away"
    BY DEF McpInit, NoRequest
  <2>2. \A t \in Templates : Exists(template[t]) => template[t].at < clock
    BY <1>1, <1>6 DEF ATemplate, McpInit
  <2>3. \A c \in Connections : link[c] = NoRow => told[c].off = {}
    BY <1>2, McpAssumption DEF NoRow, Removed
  <2> QED
    BY <1>5, <2>1, <2>2, <2>3 DEF ReadsAreDated, InsertsAreNew
<1> QED
  BY <1>5, <1>7, <1>8, <1>9 DEF McpInv

\* A request goes on without a write.
LEMMA RequestGoesOn ==
  ASSUME McpInv, NEW e \in Editors,
         NEW req \in ConnectionRequest \cup TemplateRequest \cup {NoRequest},
         editor' = [editor EXCEPT ![e] = req],
         UNCHANGED <<template, link, clock, task, told>>,
         req.pc \in {"validate", "update"} =>
            /\ req.row.at < clock
            /\ Exists(link[req.id]) /\ link[req.id].at = req.row.at => req.row.off = link[req.id].off,
         req.pc = "template" => req.row.at < clock,
         req.pc = "insert" =>
            /\ link[req.id] = NoRow /\ req.row.on /\ req.row.off = {}
            /\ \A f \in Editors \ {e} : ~(editor[f].pc = "insert" /\ editor[f].id = req.id)
  PROVE  McpInv'
<1> USE DEF McpInv
<1>1. editor \in [Editors -> ConnectionRequest \cup TemplateRequest \cup {NoRequest}]
  BY DEF McpTypeOK
<1>2. editor'[e] = req /\ \A f \in Editors \ {e} : editor'[f] = editor[f]
  BY <1>1
<1>3. McpTypeOK'
  BY <1>1 DEF McpTypeOK, Exists
<1>4. AnswersHold' /\ OffsAreFinite'
  BY DEF AnswersHold, OffsAreFinite, Exists
<1>5. ReadsAreDated'
  BY <1>2 DEF ReadsAreDated, Exists
<1>6. InsertsAreNew'
  <2>1. ASSUME NEW f \in Editors, editor'[f].pc = "insert"
        PROVE  /\ link'[editor'[f].id] = NoRow
               /\ editor'[f].row.on /\ editor'[f].row.off = {}
               /\ \A g \in Editors : editor'[g].pc = "insert" /\ editor'[g].id = editor'[f].id => g = f
    <3>1. CASE f = e
      BY <1>2, <2>1, <3>1
    <3>2. CASE f # e
      BY <1>2, <2>1, <3>2 DEF InsertsAreNew
    <3> QED
      BY <3>1, <3>2
  <2> QED
    BY <2>1 DEF InsertsAreNew, Exists
<1> QED
  BY <1>3, <1>4, <1>5, <1>6 DEF OffsAreFinite

\* A request writes a connection: the row gets the next version and the answer
\* says what is in it.
WritesLink(e, c, r) ==
    /\ link' = [link EXCEPT ![c] = r] /\ r.at = clock /\ Written
    /\ editor' = [editor EXCEPT ![e] = NoRequest]
    /\ told' \in [Templates \cup Connections -> [on : BOOLEAN, off : SUBSET ToolNames]]
    /\ told'[c].on = r.on /\ told'[c].off = r.off
    /\ \A x \in Templates \cup Connections : x # c => told'[x] = told[x]
    /\ IsFiniteSet(r.off) /\ Cardinality(r.off) <= MaxDisabled
    /\ TemplateOf[c] # Personal => Exists(template[TemplateOf[c]])
    /\ \A f \in Editors \ {e} : ~(editor[f].pc = "insert" /\ editor[f].id = c)
    /\ UNCHANGED <<template, task>>

LEMMA LinkIsWritten ==
  ASSUME McpInv, NEW e \in Editors, NEW c \in Connections, NEW r \in LinkRow, WritesLink(e, c, r)
  PROVE  McpInv'
<1> USE DEF McpInv, WritesLink
<1>1. editor' \in [Editors -> ConnectionRequest \cup TemplateRequest \cup {NoRequest}]
  BY DEF McpTypeOK
<1>2. editor'[e].pc = "away" /\ \A f \in Editors \ {e} : editor'[f] = editor[f]
  BY DEF McpTypeOK, NoRequest
<1>3. link'[c] = r /\ \A d \in Connections \ {c} : link'[d] = link[d]
  BY DEF McpTypeOK
<1>4. link' \in [Connections -> LinkRow \cup {NoRow, Removed}]
  BY DEF McpTypeOK
<1>5. clock \in Nat /\ clock' = clock + 1 /\ clock' \in 1 .. MaxEdits + 1
  BY McpAssumption DEF McpTypeOK, Written
<1>6. Exists(r)
  BY RowsExist
<1>7. McpTypeOK'
  BY <1>1, <1>3, <1>4, <1>5 DEF McpTypeOK, Exists
<1>8. AnswersHold'
  <2>1. ASSUME NEW t \in Templates PROVE told'[t] = told[t]
    BY McpAssumption
  <2> QED
    BY <1>3, <2>1 DEF AnswersHold, Exists
<1>9. OffsAreFinite'
  BY <1>3 DEF OffsAreFinite, Exists
<1>10. ReadsAreDated'
  <2>1. ASSUME NEW f \in Editors, editor'[f].pc \in {"validate", "update"}
        PROVE  /\ editor'[f].row.at < clock'
               /\ Exists(link'[editor'[f].id]) /\ link'[editor'[f].id].at = editor'[f].row.at =>
                    editor'[f].row.off = link'[editor'[f].id].off
    <3>1. f # e /\ editor'[f] = editor[f] /\ editor[f].row.at < clock
      BY <1>2, <2>1 DEF ReadsAreDated
    <3>2. editor[f].id \in Connections /\ editor[f].row.at \in Nat
      BY <2>1, <3>1, RequestsFit DEF LinkRow
    <3>3. CASE editor[f].id = c
      BY <1>3, <1>5, <3>1, <3>2, <3>3
    <3>4. CASE editor[f].id # c
      BY <1>3, <1>5, <2>1, <3>1, <3>2, <3>4 DEF ReadsAreDated, Exists
    <3> QED
      BY <3>3, <3>4
  <2>2. ASSUME NEW f \in Editors, editor'[f].pc = "template"
        PROVE  editor'[f].row.at < clock'
    <3>1. f # e /\ editor'[f] = editor[f] /\ editor[f].row.at < clock
      BY <1>2, <2>2 DEF ReadsAreDated
    <3>2. editor[f].row.at \in Nat
      BY <2>2, <3>1, RequestsFit DEF TemplateRow
    <3> QED
      BY <1>5, <3>1, <3>2
  <2>3. ASSUME NEW d \in Connections, Exists(link'[d]) PROVE link'[d].at < clock'
    <3>1. CASE d = c
      BY <1>3, <1>5, <3>1
    <3>2. CASE d # c
      <4>1. link'[d] = link[d] /\ link[d].at < clock /\ link[d].at \in Nat
        BY <1>3, <2>3, <3>2, ExistingRows DEF ReadsAreDated, LinkRow, Exists
      <4> QED
        BY <1>5, <4>1
    <3> QED
      BY <3>1, <3>2
  <2>4. ASSUME NEW t \in Templates, Exists(template'[t]) PROVE template'[t].at < clock'
    <3>1. template[t].at < clock /\ template[t].at \in Nat
      BY <2>4, ExistingRows DEF ReadsAreDated, TemplateRow, Exists
    <3> QED
      BY <1>5, <3>1
  <2> QED
    BY <2>1, <2>2, <2>3, <2>4 DEF ReadsAreDated
<1>11. InsertsAreNew'
  <2>1. ASSUME NEW f \in Editors, editor'[f].pc = "insert"
        PROVE  /\ link'[editor'[f].id] = NoRow
               /\ editor'[f].row.on /\ editor'[f].row.off = {}
               /\ \A g \in Editors : editor'[g].pc = "insert" /\ editor'[g].id = editor'[f].id => g = f
    <3>1. f # e /\ editor'[f] = editor[f] /\ editor[f].id # c
      BY <1>2, <2>1
    <3>2. editor[f].id \in Connections
      BY <2>1, <3>1, RequestsFit
    <3> QED
      BY <1>2, <1>3, <2>1, <3>1, <3>2 DEF InsertsAreNew
  <2>2. ASSUME NEW d \in Connections, link'[d] = NoRow
        PROVE  told'[d].off = {} \/ (TemplateOf[d] # Personal /\ ~Exists(template'[TemplateOf[d]]))
    <3>1. d # c
      BY <1>3, <1>6, <2>2 DEF Exists
    <3> QED
      BY <1>3, <2>2, <3>1 DEF InsertsAreNew, Exists
  <2> QED
    BY <2>1, <2>2 DEF InsertsAreNew
<1> QED
  BY <1>7, <1>8, <1>9, <1>10, <1>11 DEF OffsAreFinite

\* The steps of a request that write nothing.
LEMMA ConnectionRequestsBegin ==
  ASSUME McpInv, NEW e \in Editors, NEW c \in Connections,
         \/ \E endpoint \in Endpoints, fields \in Credentials : CreateConnection(e, c, endpoint, fields)
         \/ \E endpoint \in Endpoints : EditConnection(e, c, "endpoint", endpoint)
         \/ \E fields \in Credentials : EditConnection(e, c, "fields", fields)
         \/ \E on \in BOOLEAN : EditConnection(e, c, "on", on)
         \/ \E tool \in ToolNames, on \in BOOLEAN : SwitchTool(e, c, tool, on)
  PROVE  McpInv'
<1> USE DEF McpInv
<1>0. clock \in Nat
  BY DEF McpTypeOK
<1>1. ASSUME NEW endpoint \in Endpoints, NEW fields \in Credentials,
             CreateConnection(e, c, endpoint, fields)
      PROVE  McpInv'
  <2> DEFINE rec == [endpoint |-> endpoint, fields |-> fields, on |-> TRUE, off |-> {}, at |-> clock]
             req == [pc |-> "insert", id |-> c, row |-> rec]
  <2>1. req \in ConnectionRequest
    BY <1>0 DEF ConnectionRequest, LinkRow
  <2>2. \A f \in Editors \ {e} : ~(editor[f].pc = "insert" /\ editor[f].id = c)
    BY <1>1 DEF CreateConnection
  <2>3. /\ editor' = [editor EXCEPT ![e] = req] /\ UNCHANGED <<template, link, clock, task, told>>
        /\ link[c] = NoRow
    BY <1>1 DEF CreateConnection, Asks
  <2> QED
    BY <2>1, <2>2, <2>3, RequestGoesOn
<1>2. ASSUME NEW field \in {"endpoint", "fields", "on"}, NEW value,
             field = "endpoint" => value \in Endpoints,
             field = "fields" => value \in Credentials,
             field = "on" => value \in BOOLEAN,
             EditConnection(e, c, field, value)
      PROVE  McpInv'
  <2> DEFINE new == [link[c] EXCEPT ![field] = value]
             req == [pc |-> "validate", id |-> c, row |-> new, checked |-> new.on \/ field # "on"]
  <2>1. link[c] \in LinkRow
    BY <1>2, ExistingRows DEF EditConnection
  <2>2. new \in LinkRow
    <3>1. CASE field = "endpoint"
      BY <1>2, <2>1, <3>1 DEF LinkRow
    <3>2. CASE field = "fields"
      BY <1>2, <2>1, <3>2 DEF LinkRow
    <3>3. CASE field = "on"
      BY <1>2, <2>1, <3>3 DEF LinkRow
    <3> QED
      BY <3>1, <3>2, <3>3
  <2>3. new.at = link[c].at /\ new.off = link[c].off
    BY <2>1 DEF LinkRow
  <2>4. new.at < clock
    BY <1>2, <2>3 DEF ReadsAreDated, EditConnection
  <2>5. (new.on \/ field # "on") \in BOOLEAN
    OBVIOUS
  <2>6. req \in ConnectionRequest
    BY <2>2, <2>5 DEF ConnectionRequest
  <2>7. editor' = [editor EXCEPT ![e] = req] /\ UNCHANGED <<template, link, clock, task, told>>
    BY <1>2 DEF EditConnection, Asks
  <2> QED
    BY <2>3, <2>4, <2>6, <2>7, RequestGoesOn
<1>3. ASSUME NEW tool \in ToolNames, NEW on \in BOOLEAN, SwitchTool(e, c, tool, on)
      PROVE  McpInv'
  <2> DEFINE req == [pc |-> "switch", id |-> c, tool |-> tool, on |-> on]
  <2>1. req \in ConnectionRequest
    BY DEF ConnectionRequest
  <2>2. editor' = [editor EXCEPT ![e] = req] /\ UNCHANGED <<template, link, clock, task, told>>
    BY <1>3 DEF SwitchTool, Asks
  <2> QED
    BY <2>1, <2>2, RequestGoesOn
<1> QED
  BY <1>1, <1>2, <1>3

LEMMA TemplateRequestsBegin ==
  ASSUME McpInv, NEW e \in Editors, NEW t \in Templates,
         \/ \E endpoint \in Endpoints : EditTemplate(e, t, "endpoint", endpoint)
         \/ \E schema \in Schemas : EditTemplate(e, t, "schema", schema)
         \/ \E on \in BOOLEAN : EditTemplate(e, t, "on", on)
         \/ ProbeTemplate(e, t)
  PROVE  McpInv'
<1> USE DEF McpInv
<1>1. ASSUME NEW field \in {"endpoint", "schema", "on"}, NEW value,
             field = "endpoint" => value \in Endpoints,
             field = "schema" => value \in Schemas,
             field = "on" => value \in BOOLEAN,
             EditTemplate(e, t, field, value)
      PROVE  McpInv'
  <2> DEFINE new == [template[t] EXCEPT ![field] = value]
             req == [pc |-> "template", id |-> t, row |-> new]
  <2>1. template[t] \in TemplateRow
    BY <1>1, ExistingRows DEF EditTemplate
  <2>2. new \in TemplateRow
    <3>1. CASE field = "endpoint"
      BY <1>1, <2>1, <3>1 DEF TemplateRow
    <3>2. CASE field = "schema"
      BY <1>1, <2>1, <3>2 DEF TemplateRow
    <3>3. CASE field = "on"
      BY <1>1, <2>1, <3>3 DEF TemplateRow
    <3> QED
      BY <3>1, <3>2, <3>3
  <2>3. new.at = template[t].at
    BY <2>1 DEF TemplateRow
  <2>4. new.at < clock
    BY <1>1, <2>3 DEF ReadsAreDated, EditTemplate
  <2>5. req \in TemplateRequest
    BY <2>2 DEF TemplateRequest
  <2>6. editor' = [editor EXCEPT ![e] = req] /\ UNCHANGED <<template, link, clock, task, told>>
    BY <1>1 DEF EditTemplate, Asks
  <2> QED
    BY <2>4, <2>5, <2>6, RequestGoesOn
<1>2. ASSUME ProbeTemplate(e, t) PROVE McpInv'
  <2> DEFINE req == [pc |-> "probe", id |-> t, endpoint |-> template[t].endpoint]
  <2>1. template[t] \in TemplateRow
    BY <1>2, ExistingRows DEF ProbeTemplate
  <2>2. req \in TemplateRequest
    BY <2>1 DEF TemplateRequest, TemplateRow
  <2>3. editor' = [editor EXCEPT ![e] = req] /\ UNCHANGED <<template, link, clock, task, told>>
    BY <1>2 DEF ProbeTemplate, Asks
  <2> QED
    BY <2>2, <2>3, RequestGoesOn
<1> QED
  BY <1>1, <1>2

LEMMA RequestEnds ==
  ASSUME McpInv, NEW e \in Editors, Answers(e), UNCHANGED <<template, link, clock, task, told>>
  PROVE  McpInv'
BY RequestGoesOn DEF Answers, NoRequest

LEMMA ValidationKeeps ==
  ASSUME McpInv, NEW e \in Editors, ValidateConnection(e)
  PROVE  McpInv'
<1> USE DEF McpInv
<1>1. CASE Answers(e)
  BY <1>1, RequestEnds DEF ValidateConnection
<1>2. CASE ~Answers(e)
  <2> DEFINE req == [editor[e] EXCEPT !.pc = "update"]
  <2>1. editor[e] \in [pc : {"validate", "update"}, id : Connections, row : LinkRow, checked : BOOLEAN]
    BY <1>2, RequestsFit DEF ValidateConnection
  <2>2. req \in [pc : {"validate", "update"}, id : Connections, row : LinkRow, checked : BOOLEAN]
    BY <2>1
  <2>3. req \in ConnectionRequest
    BY <2>2 DEF ConnectionRequest
  <2>4. req.pc = "update" /\ req.row = editor[e].row /\ req.id = editor[e].id
    BY <2>1
  <2>5. editor' = [editor EXCEPT ![e] = req] /\ UNCHANGED <<template, link, clock, task, told>>
    BY <1>2 DEF ValidateConnection, Asks
  <2>6. editor[e].pc = "validate"
    BY <1>2 DEF ValidateConnection
  <2> QED
    BY <2>3, <2>4, <2>5, <2>6, RequestGoesOn DEF ReadsAreDated
<1> QED
  BY <1>1, <1>2

\* What an answer about a connection changes in what is said.
SaidOf(c, on, off) ==
    \/ told' = [told EXCEPT ![c].on = on] /\ off = told[c].off
    \/ told' = [told EXCEPT ![c].off = off] /\ on = told[c].on

LEMMA SaidOfLink ==
  ASSUME McpTypeOK, NEW c \in Connections, NEW on \in BOOLEAN, NEW off \in SUBSET ToolNames, SaidOf(c, on, off)
  PROVE  /\ told' \in [Templates \cup Connections -> [on : BOOLEAN, off : SUBSET ToolNames]]
         /\ told'[c].on = on /\ told'[c].off = off
         /\ \A x \in Templates \cup Connections : x # c => told'[x] = told[x]
<1>1. told \in [Templates \cup Connections -> [on : BOOLEAN, off : SUBSET ToolNames]]
  BY DEF McpTypeOK
<1>2. told[c] \in [on : BOOLEAN, off : SUBSET ToolNames]
  BY <1>1
<1>3. told' = [told EXCEPT ![c] = [on |-> on, off |-> off]]
  <2>1. CASE told' = [told EXCEPT ![c].on = on] /\ off = told[c].off
    <3>1. [told[c] EXCEPT !.on = on] = [on |-> on, off |-> off]
      BY <1>2, <2>1
    <3> QED
      BY <2>1, <3>1
  <2>2. CASE told' = [told EXCEPT ![c].off = off] /\ on = told[c].on
    <3>1. [told[c] EXCEPT !.off = off] = [on |-> on, off |-> off]
      BY <1>2, <2>2
    <3> QED
      BY <2>2, <3>1
  <2> QED
    BY <2>1, <2>2 DEF SaidOf
<1> QED
  BY <1>1, <1>3

\* The writes of connections.
LEMMA InsertKeeps ==
  ASSUME McpInv, NEW e \in Editors, InsertConnection(e)
  PROVE  McpInv'
<1> USE DEF McpInv
<1> DEFINE c == editor[e].id
           r == [editor[e].row EXCEPT !.at = clock]
<1>1. CASE UNCHANGED <<link, clock, told>>
  BY <1>1, RequestEnds DEF InsertConnection
<1>2. CASE ~UNCHANGED <<link, clock, told>>
  <2>1. editor[e] \in [pc : {"insert"}, id : Connections, row : LinkRow]
    BY RequestsFit DEF InsertConnection
  <2>2. c \in Connections /\ editor[e].row \in LinkRow
    BY <2>1
  <2>3. clock \in Nat
    BY DEF McpTypeOK
  <2>4. /\ r \in LinkRow /\ r.at = clock
        /\ r.on = editor[e].row.on /\ r.off = editor[e].row.off
    BY <2>2, <2>3 DEF LinkRow
  <2>5. /\ r.on = TRUE /\ r.off = {} /\ link[c] = NoRow
        /\ \A f \in Editors \ {e} : ~(editor[f].pc = "insert" /\ editor[f].id = c)
    BY <2>2, <2>4 DEF InsertsAreNew, InsertConnection, LinkRow
  <2>6. /\ Written /\ link' = [link EXCEPT ![c] = r] /\ told' = [told EXCEPT ![c].on = TRUE]
        /\ TemplateOf[c] # Personal => Exists(template[TemplateOf[c]])
        /\ editor' = [editor EXCEPT ![e] = NoRequest] /\ UNCHANGED <<template, task>>
    BY <1>2 DEF InsertConnection, Answers
  <2>7. told[c].off = {}
    BY <2>2, <2>5, <2>6 DEF InsertsAreNew
  <2>8. /\ told' \in [Templates \cup Connections -> [on : BOOLEAN, off : SUBSET ToolNames]]
        /\ told'[c].on = r.on /\ told'[c].off = r.off
        /\ \A x \in Templates \cup Connections : x # c => told'[x] = told[x]
    <3>1. /\ r.on \in BOOLEAN /\ r.off \in SUBSET ToolNames
          /\ told' = [told EXCEPT ![c].on = r.on] /\ r.off = told[c].off
      BY <2>5, <2>6, <2>7
    <3>2. SaidOf(c, r.on, r.off)
      BY <3>1 DEF SaidOf
    <3> HIDE DEF c, r
    <3> QED
      BY ONLY McpTypeOK, <2>2, <3>1, <3>2, SaidOfLink
  <2>9. IsFiniteSet(r.off) /\ Cardinality(r.off) <= MaxDisabled
    BY <2>5, FS_EmptySet, McpAssumption
  <2>11. WritesLink(e, c, r)
    BY <2>4, <2>5, <2>6, <2>8, <2>9 DEF WritesLink
  <2> HIDE DEF c, r
  <2> QED
    BY <2>2, <2>4, <2>11, LinkIsWritten
<1> QED
  BY <1>1, <1>2

LEMMA UpdateKeeps ==
  ASSUME McpInv, NEW e \in Editors, UpdateConnection(e)
  PROVE  McpInv'
<1> USE DEF McpInv
<1> DEFINE c == editor[e].id
           r == [editor[e].row EXCEPT !.at = clock]
<1>1. CASE ~Unchanged(link[c], editor[e].row)
  BY <1>1, RequestEnds DEF UpdateConnection
<1>2. CASE Unchanged(link[c], editor[e].row)
  <2>1. editor[e] \in [pc : {"validate", "update"}, id : Connections, row : LinkRow, checked : BOOLEAN]
    BY RequestsFit DEF UpdateConnection
  <2>2. c \in Connections /\ editor[e].row \in LinkRow
    BY <2>1
  <2>3. clock \in Nat
    BY DEF McpTypeOK
  <2>4. /\ r \in LinkRow /\ r.at = clock
        /\ r.on = editor[e].row.on /\ r.off = editor[e].row.off
    BY <2>2, <2>3 DEF LinkRow
  <2>5. Exists(link[c]) /\ link[c].off = r.off
    BY <1>2, <2>4 DEF Unchanged, ReadsAreDated, UpdateConnection
  <2>6. /\ Written /\ link' = [link EXCEPT ![c] = r] /\ told' = [told EXCEPT ![c].on = r.on]
        /\ editor' = [editor EXCEPT ![e] = NoRequest] /\ UNCHANGED <<template, task>>
    BY <1>2, <2>4 DEF UpdateConnection, Answers
  <2>7. TemplateOf[c] # Personal => Exists(template[TemplateOf[c]])
    BY <2>2, <2>5 DEF McpTypeOK
  <2>8. told[c].off = r.off /\ IsFiniteSet(r.off) /\ Cardinality(r.off) <= MaxDisabled
    BY <2>2, <2>5 DEF AnswersHold
  <2>9. /\ told' \in [Templates \cup Connections -> [on : BOOLEAN, off : SUBSET ToolNames]]
        /\ told'[c].on = r.on /\ told'[c].off = r.off
        /\ \A x \in Templates \cup Connections : x # c => told'[x] = told[x]
    <3>1. r.on \in BOOLEAN
      BY <2>4 DEF LinkRow
    <3>2. r.off \in SUBSET ToolNames
      BY <2>4 DEF LinkRow
    <3>3. SaidOf(c, r.on, r.off)
      BY <2>6, <2>8 DEF SaidOf
    <3> HIDE DEF c, r
    <3> QED
      BY ONLY McpTypeOK, <2>2, <3>1, <3>2, <3>3, SaidOfLink
  <2>10. \A f \in Editors \ {e} : ~(editor[f].pc = "insert" /\ editor[f].id = c)
    BY <2>5 DEF InsertsAreNew, Exists
  <2>11. WritesLink(e, c, r)
    BY <2>4, <2>6, <2>7, <2>8, <2>9, <2>10 DEF WritesLink
  <2> HIDE DEF c, r
  <2> QED
    BY <2>2, <2>4, <2>11, LinkIsWritten
<1> QED
  BY <1>1, <1>2

LEMMA SwitchKeeps ==
  ASSUME McpInv, NEW e \in Editors, SetToolEnabled(e)
  PROVE  McpInv'
<1> USE DEF McpInv
<1> DEFINE c == editor[e].id
           tool == editor[e].tool
           off == IF editor[e].on THEN link[c].off \ {tool} ELSE link[c].off \cup {tool}
           r == [link[c] EXCEPT !.off = off, !.at = clock]
<1>1. CASE UNCHANGED <<link, clock, told>>
  BY <1>1, RequestEnds DEF SetToolEnabled
<1>2. CASE ~UNCHANGED <<link, clock, told>>
  <2>1. editor[e] \in [pc : {"switch"}, id : Connections, tool : ToolNames, on : BOOLEAN]
    BY RequestsFit DEF SetToolEnabled
  <2>2. c \in Connections /\ tool \in ToolNames
    BY <2>1
  <2>3. /\ Exists(link[c])
        /\ editor[e].on \/ tool \in link[c].off \/ Cardinality(link[c].off) < MaxDisabled
        /\ Written
        /\ link' = [link EXCEPT ![c].off = off, ![c].at = clock]
        /\ told' = [told EXCEPT ![c].off =
                       IF editor[e].on THEN told[c].off \ {tool} ELSE told[c].off \cup {tool}]
        /\ editor' = [editor EXCEPT ![e] = NoRequest] /\ UNCHANGED <<template, task>>
    BY <1>2 DEF SetToolEnabled, Answers
  <2>4. link[c] \in LinkRow /\ clock \in Nat
    BY <2>2, <2>3, ExistingRows DEF McpTypeOK
  <2>5. /\ r \in LinkRow /\ r.at = clock /\ r.on = link[c].on /\ r.off = off
        /\ link' = [link EXCEPT ![c] = r]
    BY <2>2, <2>3, <2>4 DEF LinkRow, McpTypeOK
  <2>6. /\ link[c].on = told[c].on /\ link[c].off = told[c].off
        /\ IsFiniteSet(link[c].off) /\ Cardinality(link[c].off) <= MaxDisabled
    BY <2>2, <2>3 DEF AnswersHold
  <2>7. /\ told' \in [Templates \cup Connections -> [on : BOOLEAN, off : SUBSET ToolNames]]
        /\ told'[c].on = r.on /\ told'[c].off = r.off
        /\ \A x \in Templates \cup Connections : x # c => told'[x] = told[x]
    <3>1. link[c].on \in BOOLEAN /\ off \in SUBSET ToolNames
      BY <2>2, <2>4 DEF LinkRow
    <3>2. told' = [told EXCEPT ![c].off = off]
      BY <2>3, <2>6
    <3>3. SaidOf(c, link[c].on, off)
      BY <2>6, <3>2 DEF SaidOf
    <3> HIDE DEF c, r, off
    <3>4. /\ told' \in [Templates \cup Connections -> [on : BOOLEAN, off : SUBSET ToolNames]]
          /\ told'[c].on = link[c].on /\ told'[c].off = off
          /\ \A x \in Templates \cup Connections : x # c => told'[x] = told[x]
      BY ONLY McpTypeOK, <2>2, <3>1, <3>3, SaidOfLink
    <3> QED
      BY <2>5, <3>4
  <2>8. IsFiniteSet(off) /\ Cardinality(off) <= MaxDisabled
    <3>1. CASE editor[e].on
      <4>1. off \subseteq link[c].off
        BY <3>1
      <4>2. IsFiniteSet(off) /\ Cardinality(off) <= Cardinality(link[c].off)
        BY <2>6, <4>1, FS_Subset
      <4>3. Cardinality(off) \in Nat /\ Cardinality(link[c].off) \in Nat
        BY <2>6, <4>2, FS_CardinalityType
      <4> QED
        BY <2>6, <4>2, <4>3, McpAssumption
    <3>2. CASE ~editor[e].on /\ tool \in link[c].off
      <4>1. off = link[c].off
        BY <3>2
      <4> QED
        BY <2>6, <4>1
    <3>3. CASE ~editor[e].on /\ tool \notin link[c].off
      <4>1. off = link[c].off \cup {tool}
        BY <3>3
      <4>2. IsFiniteSet(off) /\ Cardinality(off) = Cardinality(link[c].off) + 1
        BY <2>6, <3>3, <4>1, FS_AddElement
      <4>3. Cardinality(link[c].off) \in Nat /\ Cardinality(link[c].off) < MaxDisabled
        BY <2>3, <2>6, <3>3, FS_CardinalityType
      <4> QED
        BY <4>2, <4>3, McpAssumption
    <3> QED
      BY <3>1, <3>2, <3>3
  <2>9. TemplateOf[c] # Personal => Exists(template[TemplateOf[c]])
    BY <2>2, <2>3 DEF McpTypeOK
  <2>10. \A f \in Editors \ {e} : ~(editor[f].pc = "insert" /\ editor[f].id = c)
    BY <2>3 DEF InsertsAreNew, Exists
  <2>11. WritesLink(e, c, r)
    BY <2>3, <2>5, <2>7, <2>8, <2>9, <2>10 DEF WritesLink
  <2> HIDE DEF c, r, off
  <2> QED
    BY <2>2, <2>5, <2>11, LinkIsWritten
<1> QED
  BY <1>1, <1>2

\* A request writes a template; the connections stay.
LEMMA UpdateTemplateKeeps ==
  ASSUME McpInv, NEW e \in Editors, UpdateTemplate(e)
  PROVE  McpInv'
<1> USE DEF McpInv
<1> DEFINE t == editor[e].id
           rec == editor[e].row
           new == [rec EXCEPT !.at = clock, !.manifest = template[t].manifest]
<1>1. CASE ~Unchanged(template[t], rec)
  BY <1>1, RequestEnds DEF UpdateTemplate
<1>2. CASE Unchanged(template[t], rec)
  <2>1. t \in Templates /\ rec \in TemplateRow
    BY RequestsFit DEF UpdateTemplate
  <2>2. clock \in Nat /\ Exists(template[t]) /\ template[t] \in TemplateRow
    BY <1>2, <2>1, ExistingRows DEF McpTypeOK, Unchanged
  <2>3. new \in TemplateRow /\ new.at = clock /\ new.on = rec.on /\ Exists(new)
    <3>1. new \in TemplateRow /\ new.at = clock /\ new.on = rec.on
      BY <2>1, <2>2 DEF TemplateRow
    <3> QED
      BY <3>1, RowsExist
  <2>4. /\ Written /\ template' = [template EXCEPT ![t] = new]
        /\ told' = [told EXCEPT ![t].on = rec.on]
        /\ editor' = [editor EXCEPT ![e] = NoRequest] /\ UNCHANGED <<link, task>>
    BY <1>2 DEF UpdateTemplate, Answers
  <2>5. clock' = clock + 1 /\ clock' \in 1 .. MaxEdits + 1
    BY <2>2, <2>4, McpAssumption DEF McpTypeOK, Written
  <2>6. /\ told' \in [Templates \cup Connections -> [on : BOOLEAN, off : SUBSET ToolNames]]
        /\ told'[t].on = new.on
        /\ \A x \in Templates \cup Connections : x # t => told'[x] = told[x]
    <3>1. told[t] \in [on : BOOLEAN, off : SUBSET ToolNames] /\ rec.on \in BOOLEAN
      BY <2>1 DEF McpTypeOK, TemplateRow
    <3>2. [told[t] EXCEPT !.on = rec.on] \in [on : BOOLEAN, off : SUBSET ToolNames]
      BY <3>1
    <3>3. told' = [told EXCEPT ![t] = [told[t] EXCEPT !.on = rec.on]]
      BY <2>4
    <3>4. told \in [Templates \cup Connections -> [on : BOOLEAN, off : SUBSET ToolNames]]
      BY DEF McpTypeOK
    <3> QED
      BY <2>1, <2>3, <3>1, <3>2, <3>3, <3>4
  <2>7. \A c \in Connections : told'[c] = told[c]
    BY <2>1, <2>6, McpAssumption
  <2>8. /\ template'[t] = new /\ \A s \in Templates \ {t} : template'[s] = template[s]
        /\ template' \in [Templates -> TemplateRow \cup {NoRow, Removed}]
    BY <2>1, <2>3, <2>4 DEF McpTypeOK
  <2>9. \A s \in Templates : Exists(template'[s]) <=> Exists(template[s])
    BY <2>2, <2>3, <2>8
  <2>10. editor'[e].pc = "away" /\ \A f \in Editors \ {e} : editor'[f] = editor[f]
    BY <2>4 DEF McpTypeOK, NoRequest
  <2>11. editor' \in [Editors -> ConnectionRequest \cup TemplateRequest \cup {NoRequest}]
    BY <2>4 DEF McpTypeOK
  <2> HIDE DEF t, rec, new
  <2>12. McpTypeOK'
    <3>1. \A c \in Connections : Exists(link'[c]) /\ TemplateOf[c] # Personal =>
            Exists(template'[TemplateOf[c]])
      BY <2>4, <2>9, McpAssumption DEF McpTypeOK, Exists
    <3> QED
      BY <2>4, <2>5, <2>6, <2>8, <2>11, <3>1 DEF McpTypeOK
  <2>13. AnswersHold' /\ OffsAreFinite'
    BY <2>4, <2>6, <2>7, <2>8, <2>9 DEF AnswersHold, OffsAreFinite, Exists
  <2>14. ReadsAreDated'
    <3>1. \A c \in Connections : Exists(link[c]) => link[c].at < clock'
      BY <2>2, <2>5, ExistingRows DEF ReadsAreDated, LinkRow
    <3>2. \A s \in Templates : Exists(template'[s]) => template'[s].at < clock'
      <4>1. ASSUME NEW s \in Templates, Exists(template'[s]), s # t PROVE template'[s].at < clock'
        BY <2>2, <2>5, <2>8, <4>1, ExistingRows DEF ReadsAreDated, TemplateRow
      <4> QED
        BY <2>2, <2>3, <2>5, <2>8, <4>1
    <3>3. ASSUME NEW f \in Editors, editor'[f].pc \in {"validate", "update", "template"}
          PROVE  f # e /\ editor'[f] = editor[f] /\ editor[f].row.at < clock'
      <4>1. f # e /\ editor'[f] = editor[f] /\ editor[f].row.at < clock
        BY <2>10, <3>3 DEF ReadsAreDated
      <4>2. editor[f].row.at \in Nat
        BY <3>3, <4>1, RequestsFit DEF LinkRow, TemplateRow
      <4> QED
        BY <2>2, <2>5, <4>1, <4>2
    <3> QED
      BY <2>4, <3>1, <3>2, <3>3 DEF ReadsAreDated, Exists
  <2>15. InsertsAreNew'
    <3>1. \A c \in Connections : link'[c] = NoRow =>
            told'[c].off = {} \/ (TemplateOf[c] # Personal /\ ~Exists(template'[TemplateOf[c]]))
      BY <2>4, <2>7, <2>9, McpAssumption DEF InsertsAreNew
    <3> QED
      BY <2>4, <2>10, <3>1 DEF InsertsAreNew
  <2> QED
    BY <2>12, <2>13, <2>14, <2>15 DEF OffsAreFinite
<1> QED
  BY <1>1, <1>2

\* The tools of a template are noted down; neither its switch nor its version change.
LEMMA UpdateManifestKeeps ==
  ASSUME McpInv, NEW e \in Editors, UpdateManifest(e)
  PROVE  McpInv'
<1> USE DEF McpInv
<1> DEFINE t == editor[e].id
           new == [template[t] EXCEPT !.manifest = editor[e].endpoint]
<1>1. CASE UNCHANGED template
  BY <1>1, RequestEnds DEF UpdateManifest
<1>2. CASE ~UNCHANGED template
  <2>1. t \in Templates /\ editor[e].endpoint \in Endpoints
    BY RequestsFit DEF UpdateManifest
  <2>2. /\ Exists(template[t]) /\ template' = [template EXCEPT ![t].manifest = editor[e].endpoint]
        /\ editor' = [editor EXCEPT ![e] = NoRequest] /\ UNCHANGED <<link, clock, task, told>>
    BY <1>2 DEF UpdateManifest, Answers
  <2>3. template[t] \in TemplateRow
    BY <2>1, <2>2, ExistingRows
  <2>4. new \in TemplateRow /\ new.at = template[t].at /\ new.on = template[t].on /\ Exists(new)
    <3>1. new \in TemplateRow /\ new.at = template[t].at /\ new.on = template[t].on
      BY <2>1, <2>3 DEF TemplateRow
    <3> QED
      BY <3>1, RowsExist
  <2>5. /\ template'[t] = new /\ \A s \in Templates \ {t} : template'[s] = template[s]
        /\ template' \in [Templates -> TemplateRow \cup {NoRow, Removed}]
    BY <2>1, <2>2, <2>4 DEF McpTypeOK
  <2>6. \A s \in Templates : /\ Exists(template'[s]) <=> Exists(template[s])
                             /\ Exists(template[s]) => /\ template'[s].on = template[s].on
                                                       /\ template'[s].at = template[s].at
    BY <2>2, <2>4, <2>5
  <2>7. editor'[e].pc = "away" /\ \A f \in Editors \ {e} : editor'[f] = editor[f]
    BY <2>2 DEF McpTypeOK, NoRequest
  <2>8. editor' \in [Editors -> ConnectionRequest \cup TemplateRequest \cup {NoRequest}]
    BY <2>2 DEF McpTypeOK
  <2> HIDE DEF t, new
  <2>9. McpTypeOK'
    <3>1. \A c \in Connections : Exists(link'[c]) /\ TemplateOf[c] # Personal =>
            Exists(template'[TemplateOf[c]])
      BY <2>2, <2>6, McpAssumption DEF McpTypeOK, Exists
    <3> QED
      BY <2>2, <2>5, <2>8, <3>1 DEF McpTypeOK
  <2>10. AnswersHold' /\ OffsAreFinite'
    BY <2>2, <2>6 DEF AnswersHold, OffsAreFinite, Exists
  <2>11. ReadsAreDated'
    BY <2>2, <2>6, <2>7 DEF ReadsAreDated, Exists
  <2>12. InsertsAreNew'
    <3>1. \A c \in Connections : link'[c] = NoRow =>
            told'[c].off = {} \/ (TemplateOf[c] # Personal /\ ~Exists(template'[TemplateOf[c]]))
      BY <2>2, <2>6, McpAssumption DEF InsertsAreNew
    <3> QED
      BY <2>2, <2>7, <3>1 DEF InsertsAreNew
  <2> QED
    BY <2>9, <2>10, <2>11, <2>12 DEF OffsAreFinite
<1> QED
  BY <1>1, <1>2

\* A deletion: the rows of some connections, and of a template at most.
RemovesRows(gone) ==
    /\ \A c \in gone : Exists(link[c])
    /\ link' \in [Connections -> LinkRow \cup {NoRow, Removed}]
    /\ \A c \in Connections : link'[c] = IF c \in gone THEN Removed ELSE link[c]
    /\ template' \in [Templates -> TemplateRow \cup {NoRow, Removed}]
    /\ \A t \in Templates : template'[t] = template[t] \/ template'[t] = Removed
    /\ told' \in [Templates \cup Connections -> [on : BOOLEAN, off : SUBSET ToolNames]]
    /\ \A c \in Connections : link[c] # NoRow /\ c \notin gone => told'[c] = told[c] \/ ~Exists(link[c])
    /\ \A c \in Connections : link[c] = NoRow =>
          \/ told'[c] = told[c]
          \/ TemplateOf[c] # Personal /\ template'[TemplateOf[c]] = Removed
    /\ \A t \in Templates : template'[t] = template[t] => told'[t] = told[t] \/ ~Exists(template[t])
    /\ \A c \in Connections : Exists(link'[c]) /\ TemplateOf[c] # Personal =>
          template'[TemplateOf[c]] = template[TemplateOf[c]]
    /\ UNCHANGED <<clock, editor, task>>

\* What is deleted is not there any more, and does not come back.
LEMMA DeletionsKeep ==
  ASSUME McpInv,
         (\E c \in Connections : DeleteConnection(c)) \/ (\E t \in Templates : DeleteTemplate(t))
  PROVE  McpInv'
<1> USE DEF McpInv, RemovesRows
<1>0. ~Exists(Removed) /\ Removed # NoRow /\ Deleted \in [on : BOOLEAN, off : SUBSET ToolNames]
  BY DEF Exists, Removed, NoRow, Deleted
<1>1. ASSUME NEW gone \in SUBSET Connections, RemovesRows(gone)
      PROVE  McpInv'
  <2>1. \A c \in Connections : Exists(link'[c]) =>
            link'[c] = link[c] /\ Exists(link[c]) /\ told'[c] = told[c] /\ c \notin gone
    BY <1>0, <1>1, ExistingRows DEF Exists
  <2>2. \A t \in Templates : Exists(template'[t]) =>
            template'[t] = template[t] /\ Exists(template[t]) /\ told'[t] = told[t]
    BY <1>0, <1>1
  <2>3. McpTypeOK'
    <3>1. \A c \in Connections : Exists(link'[c]) /\ TemplateOf[c] # Personal =>
            Exists(template'[TemplateOf[c]])
      BY <1>1, <2>1, McpAssumption DEF McpTypeOK
    <3> QED
      BY <1>1, <3>1 DEF McpTypeOK
  <2>4. AnswersHold' /\ OffsAreFinite'
    BY <2>1, <2>2 DEF AnswersHold, OffsAreFinite
  <2>5. ReadsAreDated'
    <3>1. \A c \in Connections : Exists(link'[c]) => link'[c].at < clock'
      BY <1>1, <2>1 DEF ReadsAreDated
    <3>2. \A t \in Templates : Exists(template'[t]) => template'[t].at < clock'
      BY <1>1, <2>2 DEF ReadsAreDated
    <3>3. ASSUME NEW e \in Editors, editor[e].pc \in {"validate", "update"}
          PROVE  editor[e].id \in Connections
      BY <3>3, RequestsFit
    <3> QED
      BY <1>1, <2>1, <3>1, <3>2, <3>3 DEF ReadsAreDated
  <2>6. InsertsAreNew'
    <3>1. ASSUME NEW e \in Editors, editor[e].pc = "insert"
          PROVE  link'[editor[e].id] = NoRow
      <4>1. editor[e].id \in Connections /\ link[editor[e].id] = NoRow
        BY <3>1, RequestsFit DEF InsertsAreNew
      <4> QED
        BY <1>1, <4>1 DEF Exists
    <3>2. ASSUME NEW c \in Connections, link'[c] = NoRow
          PROVE  told'[c].off = {} \/ (TemplateOf[c] # Personal /\ ~Exists(template'[TemplateOf[c]]))
      <4>1. link[c] = NoRow
        BY <1>0, <1>1, <3>2
      <4>2. CASE told'[c] = told[c]
        <5>1. CASE told[c].off = {}
          BY <4>2, <5>1
        <5>2. CASE TemplateOf[c] # Personal /\ ~Exists(template[TemplateOf[c]])
          BY <2>2, <5>2, McpAssumption
        <5> QED
          BY <4>1, <5>1, <5>2 DEF InsertsAreNew
      <4>3. CASE TemplateOf[c] # Personal /\ template'[TemplateOf[c]] = Removed
        BY <1>0, <4>3
      <4> QED
        BY <1>1, <4>1, <4>2, <4>3
    <3> QED
      BY <1>1, <3>1, <3>2 DEF InsertsAreNew
  <2> QED
    BY <2>3, <2>4, <2>5, <2>6 DEF OffsAreFinite
<1>2. ASSUME NEW c \in Connections, DeleteConnection(c) PROVE McpInv'
  <2>1. /\ Exists(link[c]) /\ link' = [link EXCEPT ![c] = Removed]
        /\ told' = [told EXCEPT ![c] = Deleted] /\ UNCHANGED <<template, clock, editor, task>>
    BY <1>2 DEF DeleteConnection
  <2>2. /\ link' \in [Connections -> LinkRow \cup {NoRow, Removed}]
        /\ \A d \in Connections : link'[d] = IF d \in {c} THEN Removed ELSE link[d]
        /\ told' \in [Templates \cup Connections -> [on : BOOLEAN, off : SUBSET ToolNames]]
        /\ template' \in [Templates -> TemplateRow \cup {NoRow, Removed}]
    BY <1>0, <2>1 DEF McpTypeOK
  <2>3. \A x \in Templates \cup Connections : x # c => told'[x] = told[x]
    BY <2>1 DEF McpTypeOK
  <2>4. \A t \in Templates : told'[t] = told[t]
    BY <2>3, McpAssumption
  <2>5. link[c] # NoRow /\ \A d \in Connections : d # c => told'[d] = told[d]
    BY <2>1, <2>3 DEF Exists
  <2>6. RemovesRows({c})
    <3>1. /\ \A d \in {c} : Exists(link[d])
          /\ \A d \in Connections : link'[d] = IF d \in {c} THEN Removed ELSE link[d]
          /\ \A t \in Templates : template'[t] = template[t] \/ template'[t] = Removed
      BY <2>1, <2>2
    <3>2. /\ \A d \in Connections : link[d] # NoRow /\ d \notin {c} =>
                told'[d] = told[d] \/ ~Exists(link[d])
          /\ \A d \in Connections : link[d] = NoRow => told'[d] = told[d]
          /\ \A t \in Templates : template'[t] = template[t] => told'[t] = told[t]
      BY <2>4, <2>5
    <3>3. \A d \in Connections : template'[TemplateOf[d]] = template[TemplateOf[d]]
      BY <2>1
    <3> QED
      BY <2>1, <2>2, <3>1, <3>2, <3>3
  <2> HIDE DEF RemovesRows, McpInv
  <2> QED
    BY <2>6, <1>1
<1>3. ASSUME NEW t \in Templates, DeleteTemplate(t) PROVE McpInv'
  <2> DEFINE gone == {c \in Connections : TemplateOf[c] = t /\ Exists(link[c])}
  <2>1. /\ Exists(template[t]) /\ template' = [template EXCEPT ![t] = Removed]
        /\ link' = [c \in Connections |-> IF c \in gone THEN Removed ELSE link[c]]
        /\ told' = [x \in DOMAIN told |->
               IF x = t \/ (x \in Connections /\ TemplateOf[x] = t) THEN Deleted ELSE told[x]]
        /\ UNCHANGED <<clock, editor, task>>
    BY <1>3 DEF DeleteTemplate
  <2>2. /\ link' \in [Connections -> LinkRow \cup {NoRow, Removed}]
        /\ \A c \in Connections : link'[c] = IF c \in gone THEN Removed ELSE link[c]
        /\ template' \in [Templates -> TemplateRow \cup {NoRow, Removed}]
        /\ template'[t] = Removed /\ \A s \in Templates : s # t => template'[s] = template[s]
    BY <2>1 DEF McpTypeOK
  <2>3. told' \in [Templates \cup Connections -> [on : BOOLEAN, off : SUBSET ToolNames]]
    BY <1>0, <2>1 DEF McpTypeOK
  <2>4. \A c \in Connections : TemplateOf[c] # t => told'[c] = told[c]
    BY <2>1, McpAssumption DEF McpTypeOK
  <2>5. \A s \in Templates : s # t => told'[s] = told[s]
    BY <2>1, McpAssumption DEF McpTypeOK
  <2>6. template[t] # Removed /\ t # Personal
    BY <1>0, <2>1, McpAssumption
  <2>7. \A c \in Connections : Exists(link'[c]) /\ TemplateOf[c] # Personal =>
            template'[TemplateOf[c]] = template[TemplateOf[c]]
    BY <1>0, <2>2, McpAssumption
  <2>8. RemovesRows(gone)
    <3>1. /\ \A d \in gone : Exists(link[d])
          /\ \A s \in Templates : template'[s] = template[s] \/ template'[s] = Removed
      BY <2>2
    <3>2. \A d \in Connections : link[d] # NoRow /\ d \notin gone =>
              told'[d] = told[d] \/ ~Exists(link[d])
      BY <2>4
    <3>3. \A d \in Connections : link[d] = NoRow =>
              \/ told'[d] = told[d]
              \/ TemplateOf[d] # Personal /\ template'[TemplateOf[d]] = Removed
      BY <2>2, <2>4, <2>6
    <3>4. \A s \in Templates : template'[s] = template[s] => told'[s] = told[s] \/ ~Exists(template[s])
      BY <2>2, <2>5, <2>6
    <3> HIDE DEF gone
    <3> QED
      BY <2>1, <2>2, <2>3, <2>7, <3>1, <3>2, <3>3, <3>4
  <2>9. gone \in SUBSET Connections
    OBVIOUS
  <2> HIDE DEF RemovesRows, McpInv, gone
  <2> QED
    BY <2>8, <2>9, <1>1
<1> QED
  BY <1>2, <1>3

\* An agent changes nothing but what it holds.
LEMMA AgentsKeep ==
  ASSUME McpInv, NEW a \in Tasks,
         (\E c \in Connections : ListConnections(a, c)) \/ CallTool(a) \/ CallReturns(a)
  PROVE  McpInv'
<1> USE DEF McpInv
<1>1. UNCHANGED <<template, link, clock, editor, told>>
  BY DEF ListConnections, CallTool, CallReturns
<1>2. task' \in [Tasks -> AgentTool \cup {NoRequest}]
  <2>1. task \in [Tasks -> AgentTool \cup {NoRequest}]
    BY DEF McpTypeOK
  <2>2. ASSUME NEW c \in Connections, ListConnections(a, c)
        PROVE  task' \in [Tasks -> AgentTool \cup {NoRequest}]
    <3>1. link[c] \in LinkRow /\ (TemplateOf[c] # Personal =>
              TemplateOf[c] \in Templates /\ template[TemplateOf[c]] \in TemplateRow)
      BY <2>2, ExistingRows, McpAssumption DEF ListConnections, Usable
    <3>2. Resolved(c, link[c]) \in [endpoint : Endpoints, fields : Credentials \cup {Kept}]
      BY <3>1 DEF Resolved, LinkRow, TemplateRow
    <3>3. PICK tool \in ToolNames : task' = [task EXCEPT ![a] =
              [pc |-> "holds", id |-> c, tool |-> tool, expected |-> Resolved(c, link[c])]]
      BY <2>2 DEF ListConnections
    <3>4. [pc |-> "holds", id |-> c, tool |-> tool, expected |-> Resolved(c, link[c])] \in AgentTool
      BY <3>2 DEF AgentTool
    <3> QED
      BY <2>1, <3>3, <3>4
  <2>3. ASSUME CallTool(a) \/ CallReturns(a)
        PROVE  task' \in [Tasks -> AgentTool \cup {NoRequest}]
    <3>1. task[a] \in AgentTool
      BY <2>1, <2>3 DEF CallTool, CallReturns, NoRequest
    <3>2. /\ [task[a] EXCEPT !.pc = "runs"] \in AgentTool
          /\ [task[a] EXCEPT !.pc = "holds"] \in AgentTool
      BY <3>1 DEF AgentTool
    <3>3. \/ task' = [task EXCEPT ![a] = [task[a] EXCEPT !.pc = "runs"]]
          \/ task' = [task EXCEPT ![a] = [task[a] EXCEPT !.pc = "holds"]]
          \/ task' = [task EXCEPT ![a] = NoRequest]
      BY <2>3 DEF CallTool, CallReturns
    <3> QED
      BY <2>1, <3>2, <3>3
  <2> QED
    BY <2>2, <2>3
<1>3. McpTypeOK'
  BY <1>1, <1>2 DEF McpTypeOK, Exists
<1> QED
  BY <1>1, <1>3 DEF AnswersHold, ReadsAreDated, InsertsAreNew, Exists

LEMMA McpStays == McpInv /\ [McpNext]_mcpVars => McpInv'
<1> SUFFICES ASSUME McpInv, [McpNext]_mcpVars PROVE McpInv'
  OBVIOUS
<1>1. CASE UNCHANGED mcpVars
  BY <1>1 DEF mcpVars, McpInv, McpTypeOK, AnswersHold, ReadsAreDated, InsertsAreNew, Exists
<1>2. ASSUME NEW e \in Editors,
             \/ InsertConnection(e) \/ ValidateConnection(e) \/ UpdateConnection(e)
             \/ SetToolEnabled(e) \/ UpdateTemplate(e) \/ UpdateManifest(e)
      PROVE  McpInv'
  BY <1>2, InsertKeeps, ValidationKeeps, UpdateKeeps, SwitchKeeps, UpdateTemplateKeeps,
     UpdateManifestKeeps
<1> QED
  BY <1>1, <1>2, ConnectionRequestsBegin, TemplateRequestsBegin, DeletionsKeep, AgentsKeep
     DEF McpNext

\* The check before a call reads what the answers last said.
LEMMA CallsArePermitted == McpInv /\ [McpNext]_mcpVars => PermittedCall
<1> SUFFICES ASSUME McpInv, [McpNext]_mcpVars,
                    NEW a \in Tasks, task[a].pc = "holds", task'[a].pc = "runs"
             PROVE  LET c == task[a].id IN
                    /\ told[c].on /\ task[a].tool \notin told[c].off
                    /\ TemplateOf[c] # Personal => told[TemplateOf[c]].on
  BY DEF PermittedCall
<1> USE DEF McpInv
<1>1. task # task'
  OBVIOUS
<1>2. PICK b \in Tasks : (\E c \in Connections : ListConnections(b, c)) \/ CallTool(b) \/ CallReturns(b)
  <2>1. ASSUME NEW e \in Editors, NEW c \in Connections,
               \/ \E endpoint \in Endpoints, fields \in Credentials : CreateConnection(e, c, endpoint, fields)
               \/ \E endpoint \in Endpoints : EditConnection(e, c, "endpoint", endpoint)
               \/ \E fields \in Credentials : EditConnection(e, c, "fields", fields)
               \/ \E on \in BOOLEAN : EditConnection(e, c, "on", on)
               \/ \E tool \in ToolNames, on \in BOOLEAN : SwitchTool(e, c, tool, on)
        PROVE  task' = task
    BY <2>1 DEF CreateConnection, EditConnection, SwitchTool
  <2>2. ASSUME NEW e \in Editors, NEW t \in Templates,
               \/ \E endpoint \in Endpoints : EditTemplate(e, t, "endpoint", endpoint)
               \/ \E schema \in Schemas : EditTemplate(e, t, "schema", schema)
               \/ \E on \in BOOLEAN : EditTemplate(e, t, "on", on)
               \/ ProbeTemplate(e, t)
        PROVE  task' = task
    BY <2>2 DEF EditTemplate, ProbeTemplate
  <2>3. ASSUME NEW e \in Editors,
               \/ InsertConnection(e) \/ ValidateConnection(e) \/ UpdateConnection(e)
               \/ SetToolEnabled(e) \/ UpdateTemplate(e) \/ UpdateManifest(e)
        PROVE  task' = task
    BY <2>3 DEF InsertConnection, ValidateConnection, UpdateConnection, SetToolEnabled,
                UpdateTemplate, UpdateManifest
  <2>4. ASSUME (\E c \in Connections : DeleteConnection(c)) \/ (\E t \in Templates : DeleteTemplate(t))
        PROVE  task' = task
    BY <2>4 DEF DeleteConnection, DeleteTemplate
  <2>5. ~UNCHANGED mcpVars
    BY <1>1 DEF mcpVars
  <2> QED
    BY <1>1, <2>1, <2>2, <2>3, <2>4, <2>5 DEF McpNext
<1>3. task \in [Tasks -> AgentTool \cup {NoRequest}]
  BY DEF McpTypeOK
<1>4. CallTool(a) /\ Checked(task[a].id, task[a].tool, task[a].expected)
  <2>1. b = a
    BY <1>2, <1>3 DEF ListConnections, CallTool, CallReturns
  <2>2. ~\E c \in Connections : ListConnections(a, c)
    BY DEF ListConnections
  <2>3. ~CallReturns(a)
    BY DEF CallReturns
  <2>4. CallTool(a)
    BY <1>2, <2>1, <2>2, <2>3
  <2> QED
    BY <1>3, <2>4 DEF CallTool, NoRequest
<1> DEFINE c == task[a].id
<1>5. c \in Connections
  BY <1>3 DEF AgentTool, NoRequest
<1>6. /\ Exists(link[c]) /\ link[c].on /\ task[a].tool \notin link[c].off
      /\ TemplateOf[c] # Personal => Exists(template[TemplateOf[c]]) /\ template[TemplateOf[c]].on
  BY <1>4 DEF Checked, Usable
<1>7. TemplateOf[c] # Personal => TemplateOf[c] \in Templates
  BY <1>5, McpAssumption
<1> QED
  BY <1>5, <1>6, <1>7 DEF AnswersHold

-----------------------------------------------------------------------------
(* ModelConfig.                                                            *)

\* What an existing configuration starts as is a row.
LEMMA ModelStarts == ModelInit => ModelInv
<1> SUFFICES ASSUME ModelInit PROVE ModelInv
  OBVIOUS
<1> USE ModelAssumption
<1>1. \A m \in Models : ~IsRow(cached[m])
  BY DEF ModelInit, IsRow
<1>2. \A c \in ConfigCalls : call[c] = NoCall /\ call[c].pc = "idle"
  BY DEF ModelInit, NoCall
<1>3. clients = <<>> /\ Len(clients) = 0 /\ DOMAIN clients = {} /\ clients \in Seq([key : verified, config : verified])
  BY DEF ModelInit
<1>4. ASSUME NEW m \in Models, IsRow(models[m]) PROVE Sound(models[m])
  BY <1>4 DEF ModelInit, IsRow, Sound
<1>5. ModelTypeOK
  BY <1>2, <1>3 DEF ModelInit, ModelTypeOK, Pcs
<1>6. CallsFit
  BY <1>2 DEF ModelInit, CallsFit
<1>7. RowsAreSound
  BY <1>1, <1>2, <1>3, <1>4 DEF RowsAreSound
<1>8. CreatedAlone /\ StaleOnlyByRace /\ ClientOfResolvedConfig
  BY <1>1, <1>2 DEF CreatedAlone, StaleOnlyByRace, ClientOfResolvedConfig
<1> QED
  BY <1>5, <1>6, <1>7, <1>8 DEF ModelInv

\* What holds of the list of clients.
ClientsFit(list, configs) ==
    /\ list \in Seq([key : configs, config : configs])
    /\ Len(list) <= Capacity
    /\ \A i \in DOMAIN list : list[i].key = CacheKey(list[i].config)
    /\ \A i, j \in DOMAIN list : i # j => list[i].key # list[j].key

\* A client that is found or built is put in front, and listed once.
LEMMA InFrontFits ==
  ASSUME ClientsFit(clients, verified), NEW e \in [key : verified, config : verified],
         e.key = CacheKey(e.config)
  PROVE  ClientsFit(InFront(e), verified)
<1> USE ModelAssumption
<1> DEFINE S == [key : verified, config : verified]
           place == Place(e.key)
           length == IF place > Len(clients) THEN place ELSE Len(clients)
           kept == IF length < Capacity THEN length ELSE Capacity
           new == InFront(e)
<1>1. /\ Len(clients) \in Nat /\ DOMAIN clients = 1 .. Len(clients)
      /\ \A i \in 1 .. Len(clients) : clients[i] \in S
  BY LenProperties DEF ClientsFit
<1>2. /\ place \in 1 .. Len(clients) + 1
      /\ \A i \in 1 .. Len(clients) : clients[i].key = e.key <=> i = place
  <2>1. CASE \E i \in DOMAIN clients : clients[i].key = e.key
    BY <1>1, <2>1 DEF Place, ClientsFit
  <2>2. CASE ~\E i \in DOMAIN clients : clients[i].key = e.key
    BY <1>1, <2>2 DEF Place
  <2> QED
    BY <2>1, <2>2
<1>3. kept \in Nat /\ kept <= Capacity /\ kept <= length
  BY <1>1, <1>2
<1>4. new = [i \in 1 .. kept |-> IF i = 1 THEN e ELSE IF i <= place THEN clients[i - 1] ELSE clients[i]]
  BY DEF InFront
<1> HIDE DEF new, place
<1>5. ASSUME NEW i \in 1 .. kept PROVE (IF i = 1 THEN e ELSE IF i <= place THEN clients[i - 1] ELSE clients[i]) \in S
  BY <1>1, <1>2, <1>3
<1>6. new \in [1 .. kept -> S]
  BY <1>4, <1>5
<1>7. new \in Seq(S) /\ Len(new) = kept /\ DOMAIN new = 1 .. kept
  <2>1. new \in Seq(S)
    <3> HIDE DEF S, kept
    <3>1. Seq(S) = UNION {[1 .. n -> S] : n \in Nat}
      BY SeqDef
    <3> QED
      BY <1>3, <1>6, <3>1
  <2>2. DOMAIN new = 1 .. kept
    BY <1>6
  <2>3. Len(new) \in Nat /\ DOMAIN new = 1 .. Len(new)
    BY <2>1, LenProperties
  <2> QED
    BY <1>3, <2>1, <2>2, <2>3
<1> DEFINE old(i) == IF i <= place THEN i - 1 ELSE i
<1>8. \A i \in 1 .. kept : /\ i = 1 => new[i] = e
                           /\ i # 1 => /\ old(i) \in 1 .. Len(clients) /\ old(i) # place
                                       /\ new[i] = clients[old(i)]
  BY <1>1, <1>2, <1>3, <1>4
<1>9. ASSUME NEW i \in 1 .. kept, NEW j \in 1 .. kept, i < j PROVE new[i].key # new[j].key
  <2>1. CASE i = 1
    BY <1>2, <1>3, <1>8, <1>9, <2>1
  <2>2. CASE i # 1
    <3>1. j # 1 /\ old(i) # old(j)
      BY <1>2, <1>3, <1>9, <2>2
    <3>2. clients[old(i)].key # clients[old(j)].key
      BY <1>1, <1>8, <2>2, <3>1 DEF ClientsFit
    <3> QED
      BY <1>8, <2>2, <3>1, <3>2
  <2> QED
    BY <2>1, <2>2
<1>11. \A i \in 1 .. kept : new[i].key = CacheKey(new[i].config)
  <2> TAKE i \in 1 .. kept
  <2>1. CASE i = 1
    BY <1>8, <2>1
  <2>2. CASE i # 1
    <3> HIDE DEF old
    <3>1. old(i) \in 1 .. Len(clients) /\ new[i] = clients[old(i)]
      BY <1>8, <2>2
    <3>2. clients[old(i)].key = CacheKey(clients[old(i)].config)
      BY <1>1, <3>1 DEF ClientsFit
    <3> QED
      BY <3>1, <3>2
  <2> QED
    BY <2>1, <2>2
<1>10. \A i, j \in 1 .. kept : i # j => new[i].key # new[j].key
  BY <1>9
<1> QED
  BY <1>3, <1>7, <1>10, <1>11 DEF ClientsFit, new

\* A request with all its fields, at another step and with another row and client.
Request(c, p, r, g) ==
    [pc |-> p, kind |-> call[c].kind, id |-> call[c].id, change |-> call[c].change,
     row |-> r, config |-> g]
Moved(c, p, r, g) == call' = [call EXCEPT ![c] = Request(c, p, r, g)]

LEMMA RequestMoves ==
  ASSUME CallsFit, NEW c \in ConfigCalls, call[c].pc # "idle", NEW p, NEW r, NEW g
  PROVE  /\ Goto(c, p) => Moved(c, p, call[c].row, call[c].config)
         /\ call' = [call EXCEPT ![c].row = r, ![c].pc = p] => Moved(c, p, r, call[c].config)
         /\ call' = [call EXCEPT ![c].config = g, ![c].pc = p] => Moved(c, p, call[c].row, g)
<1> DEFINE q == call[c]
<1>1. q = Request(c, q.pc, q.row, q.config)
  BY DEF CallsFit, NoCall, Request
<1>2. DOMAIN call = ConfigCalls
  BY DEF CallsFit
<1>3. [q EXCEPT !.pc = p] = Request(c, p, q.row, q.config)
  BY <1>1 DEF Request
<1>4. [q EXCEPT !.row = r, !.pc = p] = Request(c, p, r, q.config)
  <2> DEFINE one == [q EXCEPT !.row = r]
  <2>1. one = Request(c, q.pc, r, q.config)
    BY <1>1 DEF Request
  <2> HIDE DEF one
  <2>2. [one EXCEPT !.pc = p] = Request(c, p, r, q.config)
    BY <2>1 DEF Request
  <2> QED
    BY <2>2 DEF one
<1>5. [q EXCEPT !.config = g, !.pc = p] = Request(c, p, q.row, g)
  <2> DEFINE one == [q EXCEPT !.config = g]
  <2>1. one = Request(c, q.pc, q.row, g)
    BY <1>1 DEF Request
  <2> HIDE DEF one
  <2>2. [one EXCEPT !.pc = p] = Request(c, p, q.row, g)
    BY <2>1 DEF Request
  <2> QED
    BY <2>2 DEF one
<1>6. Goto(c, p) => call' = [call EXCEPT ![c] = [call[c] EXCEPT !.pc = p]]
  BY DEF Goto
<1>7. call' = [call EXCEPT ![c].row = r, ![c].pc = p]
        => call' = [call EXCEPT ![c] = [call[c] EXCEPT !.row = r, !.pc = p]]
  BY <1>2
<1>8. call' = [call EXCEPT ![c].config = g, ![c].pc = p]
        => call' = [call EXCEPT ![c] = [call[c] EXCEPT !.config = g, !.pc = p]]
  BY <1>2
<1> QED
  BY <1>3, <1>4, <1>5, <1>6, <1>7, <1>8 DEF Moved

\* The invariant by what a step changes: the requests, the tables, the clients.
CallsSound ==
    \A c \in ConfigCalls :
        /\ call[c].pc \in Pcs
        /\ (call[c].pc \in {"fill", "save", "client", "build", "used"}
            \/ (call[c].pc = "prepare" /\ call[c].kind = "update")) => Sound(call[c].row)
        /\ call[c].pc = "verify" => WellFormed(call[c].row)
        /\ call[c].pc = "used" => call[c].config = Config(call[c].row)
TablesSound ==
    \A m \in Models : /\ IsRow(models[m]) => Sound(models[m])
                      /\ IsRow(cached[m]) => Sound(cached[m])

ModelParts ==
    /\ CallsFit /\ CallsSound /\ TablesSound /\ ClientsFit(clients, verified)
    /\ served \in 0 .. MaxCalls /\ CreatedAlone /\ StaleOnlyByRace

LEMMA ModelByParts == ModelInv <=> ModelParts
BY DEF ModelParts, ModelInv, ModelTypeOK, RowsAreSound, ClientOfResolvedConfig, CallsSound, TablesSound, ClientsFit

\* A request may be at a step with a row and a client.
MayBeAt(kind, p, r, g) ==
    /\ p \in Pcs \ {"idle"}
    /\ kind = "create" => p \in {"prepare", "verify", "save"}
    /\ p = "prepare" => kind \in {"create", "update"}
    /\ (p \in {"fill", "save", "client", "build", "used"}
        \/ (p = "prepare" /\ kind = "update")) => WellFormed(r) /\ Config(r) \in verified'
    /\ p = "verify" => WellFormed(r)
    /\ p = "used" => g = Config(r)

\* What is sound remains so while more is tried out.
LEMMA SoundStays ==
  ASSUME verified \subseteq verified', NEW r, Sound(r)
  PROVE  WellFormed(r) /\ Config(r) \in verified'
BY DEF Sound

\* A request goes on, or ends.
LEMMA CallMoved ==
  ASSUME ModelInv, NEW c \in ConfigCalls, call[c].pc # "idle",
         verified \subseteq verified', DOMAIN models' = Models, DOMAIN cached' = Models,
         \/ Ends(c)
         \/ \E p, r, g : Moved(c, p, r, g) /\ MayBeAt(call[c].kind, p, r, g)
  PROVE  /\ CallsFit' /\ CallsSound'
         /\ \A d \in ConfigCalls \ {c} : call'[d] = call[d]
<1> USE ModelByParts DEF ModelParts
<1>1. DOMAIN call = ConfigCalls
  BY DEF CallsFit
<1>2. ASSUME NEW d \in ConfigCalls, Sound(call[d].row)
      PROVE  WellFormed(call[d].row) /\ Config(call[d].row) \in verified'
  BY <1>2, SoundStays
<1>3. CASE Ends(c)
  <2>1. call'[c] = NoCall /\ DOMAIN call' = ConfigCalls /\ \A d \in ConfigCalls \ {c} : call'[d] = call[d]
    BY <1>1, <1>3 DEF Ends
  <2>2. CallsFit'
    BY <2>1 DEF CallsFit
  <2>3. CallsSound'
    BY <1>2, <2>1 DEF CallsSound, NoCall, Pcs, Sound, Config
  <2> QED
    BY <2>1, <2>2, <2>3
<1>4. ASSUME NEW p, NEW r, NEW g, Moved(c, p, r, g), MayBeAt(call[c].kind, p, r, g)
      PROVE  CallsFit' /\ CallsSound' /\ \A d \in ConfigCalls \ {c} : call'[d] = call[d]
  <2>1. call'[c] = Request(c, p, r, g) /\ DOMAIN call' = ConfigCalls
        /\ \A d \in ConfigCalls \ {c} : call'[d] = call[d]
    BY <1>1, <1>4 DEF Moved
  <2>2. /\ call'[c].pc = p /\ call'[c].kind = call[c].kind /\ call'[c].id = call[c].id
        /\ call'[c].change = call[c].change /\ call'[c].row = r /\ call'[c].config = g
    BY <2>1 DEF Request
  <2>3. CallsFit'
    <3>1. call[c] # NoCall
      BY DEF NoCall
    <3>2. /\ call'[c] = [pc |-> call'[c].pc, kind |-> call'[c].kind, id |-> call'[c].id,
                         change |-> call'[c].change, row |-> call'[c].row, config |-> call'[c].config]
          /\ call'[c].pc # "idle" /\ call'[c].id \in Models
          /\ call'[c].kind \in {"create", "update", "delete", "use"}
          /\ call'[c].kind = "create" => call'[c].pc \in {"prepare", "verify", "save"}
          /\ call'[c].pc = "prepare" => call'[c].kind \in {"create", "update"}
      BY <1>4, <2>1, <2>2, <3>1 DEF CallsFit, Request, MayBeAt, Pcs
    <3> QED
      BY <2>1, <3>2 DEF CallsFit
  <2>4. CallsSound'
    <3>1. /\ call'[c].pc \in Pcs
          /\ (call'[c].pc \in {"fill", "save", "client", "build", "used"}
              \/ (call'[c].pc = "prepare" /\ call'[c].kind = "update")) => Sound(call[c].row)'
          /\ call'[c].pc = "verify" => WellFormed(call'[c].row)
          /\ call'[c].pc = "used" => call'[c].config = Config(call'[c].row)
      BY <1>4, <2>2 DEF MayBeAt, Sound, WellFormed, Config
    <3>2. ASSUME NEW d \in ConfigCalls \ {c}
          PROVE  /\ call'[d].pc \in Pcs
                 /\ (call'[d].pc \in {"fill", "save", "client", "build", "used"}
                     \/ (call'[d].pc = "prepare" /\ call'[d].kind = "update")) => Sound(call[d].row)'
                 /\ call'[d].pc = "verify" => WellFormed(call'[d].row)
                 /\ call'[d].pc = "used" => call'[d].config = Config(call'[d].row)
      BY <1>2, <2>1 DEF CallsSound, Sound, WellFormed, Config
    <3> QED
      BY <3>1, <3>2 DEF CallsSound, WellFormed, Config
  <2> QED
    BY <2>1, <2>3, <2>4
<1> QED
  BY <1>3, <1>4

\* A request that writes neither a row nor the cache, from any step but the
\* removal of the cache entry.
LEMMA TablesStay ==
  ASSUME ModelInv, NEW c \in ConfigCalls, call[c].pc \notin {"idle", "evict"},
         verified \subseteq verified', UNCHANGED <<models, cached, spoiled, served>>,
         \/ Ends(c)
         \/ \E p, r, g : Moved(c, p, r, g) /\ MayBeAt(call[c].kind, p, r, g),
         ClientsFit(clients', verified')
  PROVE  ModelInv'
<1> USE ModelByParts DEF ModelParts
<1>1. CallsFit' /\ CallsSound' /\ \A d \in ConfigCalls \ {c} : call'[d] = call[d]
  BY CallMoved DEF CallsFit
<1>2. TablesSound'
  <2>1. \A m \in Models : /\ IsRow(models[m]) => WellFormed(models[m]) /\ Config(models[m]) \in verified'
                          /\ IsRow(cached[m]) => WellFormed(cached[m]) /\ Config(cached[m]) \in verified'
    BY SoundStays DEF TablesSound
  <2> QED
    BY <2>1 DEF TablesSound, Sound, WellFormed, Config, IsRow
<1>3. call'[c].pc = "idle" \/ (call'[c].kind = call[c].kind /\ call'[c].id = call[c].id /\ call'[c].pc # "idle")
  BY DEF Ends, Moved, MayBeAt, Request, NoCall, CallsFit
<1>4. CreatedAlone'
  BY <1>1, <1>3 DEF CreatedAlone, IsRow
<1>5. StaleOnlyByRace'
  BY <1>1 DEF StaleOnlyByRace, IsRow
<1>6. ClientsFit(clients, verified)'
  BY DEF ClientsFit, CacheKey
<1>7. ModelParts'
  BY <1>1, <1>2, <1>4, <1>5, <1>6
<1> QED
  BY <1>7, ModelByParts, PTL

\* A request begins: one that creates takes an ID that nobody knows.
LEMMA ModelRequestBegins ==
  ASSUME ModelInv, NEW c \in ConfigCalls, Create(c) \/ Update(c) \/ Delete(c) \/ Resolve(c)
  PROVE  ModelInv'
<1> USE ModelByParts DEF ModelParts
<1>1. PICK kind \in {"create", "update", "delete", "use"}, m \in Models, ch \in Changes \cup {Keep} :
         /\ Begins(c, kind, m, ch)
         /\ kind = "create" => /\ models[m] = Unborn
                               /\ \A d \in ConfigCalls : call[d].pc # "idle" => call[d].id # m
         /\ kind # "create" => models[m] # Unborn
  BY DEF Create, Update, Delete, Resolve, IsRow
<1> DEFINE p == IF kind = "create" THEN "prepare"
                ELSE IF kind = "delete" /\ m \in Shared THEN "drop" ELSE "get"
           new == [pc |-> p, kind |-> kind, id |-> m, change |-> ch, row |-> Gone, config |-> Gone]
<1>2. /\ call[c].pc = "idle" /\ served < MaxCalls /\ served' = served + 1
      /\ call' = [call EXCEPT ![c] = new]
      /\ UNCHANGED <<models, cached, clients, verified, spoiled>>
  BY <1>1 DEF Begins
<1>3. p \in {"prepare", "drop", "get"} /\ (kind = "create" <=> p = "prepare")
  OBVIOUS
<1>4. /\ DOMAIN call' = ConfigCalls /\ call'[c] = new
      /\ \A d \in ConfigCalls \ {c} : call'[d] = call[d]
  BY <1>2 DEF CallsFit
<1> HIDE DEF p
<1>5. CallsFit'
  BY <1>2, <1>3, <1>4 DEF CallsFit
<1>6. CallsSound'
  BY <1>2, <1>3, <1>4 DEF CallsSound, Pcs, Sound, Config
<1>7. TablesSound' /\ ClientsFit(clients, verified)'
  BY <1>2 DEF TablesSound, Sound, WellFormed, Config, IsRow, ClientsFit, CacheKey
<1>8. served' \in 0 .. MaxCalls
  BY <1>2, ModelAssumption
<1>9. CreatedAlone'
  BY <1>1, <1>2, <1>4 DEF CreatedAlone, IsRow
<1>10. StaleOnlyByRace'
  BY <1>2, <1>4 DEF StaleOnlyByRace, IsRow
<1>11. ModelParts'
  BY <1>5, <1>6, <1>7, <1>8, <1>9, <1>10
<1> QED
  BY <1>11, ModelByParts, PTL

\* Reading: what the cache or the table has was tried out.
LEMMA ReadKeeps ==
  ASSUME ModelInv, NEW c \in ConfigCalls, CacheGet(c) \/ ReadRow(c)
  PROVE  ModelInv'
<1> USE ModelByParts DEF ModelParts
<1> DEFINE m == call[c].id  kind == call[c].kind
<1>1. /\ call[c].pc \in {"get", "read"} /\ m \in Models
      /\ kind \in {"update", "delete", "use"}
  BY DEF CacheGet, ReadRow, CallsFit, NoCall
<1>2. CASE CacheGet(c)
  <2>1. CASE Goto(c, "read")
    <3>1. Moved(c, "read", call[c].row, call[c].config)
      BY <1>1, <2>1, RequestMoves
    <3>2. MayBeAt(kind, "read", call[c].row, call[c].config)
      BY <1>1 DEF MayBeAt, Pcs
    <3>3. ClientsFit(clients', verified') /\ UNCHANGED <<models, cached, spoiled, served, verified>>
      BY <1>2 DEF CacheGet
    <3> QED
      BY <1>1, <3>1, <3>2, <3>3, TablesStay
  <2>2. CASE IsRow(cached[m]) /\ Found(c, cached[m])
    <3> DEFINE p == CASE kind = "update" -> "prepare" [] kind = "delete" -> "drop" [] OTHER -> "client"
    <3>1. call' = [call EXCEPT ![c].row = cached[m], ![c].pc = p]
      BY <2>2 DEF Found
    <3>2. p \in {"prepare", "drop", "client"} /\ (p = "prepare" => kind = "update")
      BY <1>1
    <3> HIDE DEF p
    <3>3. Moved(c, p, cached[m], call[c].config)
      BY <1>1, <3>1, RequestMoves
    <3>4. ClientsFit(clients', verified') /\ UNCHANGED <<models, cached, spoiled, served, verified>>
      BY <1>2 DEF CacheGet
    <3>5. Sound(cached[m])
      BY <1>1, <2>2 DEF TablesSound
    <3>6. MayBeAt(kind, p, cached[m], call[c].config)
      BY <1>1, <3>2, <3>4, <3>5 DEF MayBeAt, Pcs, Sound
    <3> QED
      BY <1>1, <3>3, <3>4, <3>6, TablesStay
  <2> QED
    BY <1>2, <2>1, <2>2 DEF CacheGet
<1>3. CASE ReadRow(c)
  <2>1. ClientsFit(clients', verified') /\ UNCHANGED <<models, cached, spoiled, served, verified>>
    BY <1>3 DEF ReadRow
  <2>2. CASE Ends(c)
    BY <1>1, <2>1, <2>2, TablesStay
  <2>3. CASE ~Ends(c)
    <3>1. IsRow(models[m]) /\ call' = [call EXCEPT ![c].row = models[m], ![c].pc = "fill"]
      BY <1>3, <2>3 DEF ReadRow
    <3>2. Moved(c, "fill", models[m], call[c].config)
      BY <1>1, <3>1, RequestMoves
    <3>3. Sound(models[m])
      BY <1>1, <3>1 DEF TablesSound
    <3>4. MayBeAt(kind, "fill", models[m], call[c].config)
      BY <1>1, <2>1, <3>3 DEF MayBeAt, Pcs, Sound
    <3> QED
      BY <1>1, <2>1, <3>2, <3>4, TablesStay
  <2> QED
    BY <2>2, <2>3
<1> QED
  BY <1>2, <1>3

\* The entry written to the cache is what was read: it may be outdated, and
\* then counts as spoiled.
LEMMA CacheSetKeeps ==
  ASSUME ModelInv, NEW c \in ConfigCalls, CacheSet(c)
  PROVE  ModelInv'
<1> USE ModelByParts DEF ModelParts
<1> DEFINE m == call[c].id  kind == call[c].kind  rec == call[c].row
           p == CASE kind = "update" -> "prepare" [] kind = "delete" -> "drop" [] OTHER -> "client"
<1>1. /\ call[c].pc = "fill" /\ m \in Models /\ kind \in {"update", "delete", "use"}
      /\ UNCHANGED <<models, clients, served, verified>>
  BY DEF CacheSet, CallsFit, NoCall
<1>2. Sound(rec) /\ models[m] # Unborn
  BY <1>1 DEF CallsSound, CreatedAlone
<1>3. call' = [call EXCEPT ![c].row = rec, ![c].pc = p]
  BY DEF CacheSet, Found
<1>4. p \in {"prepare", "drop", "client"} /\ (p = "prepare" => kind = "update")
  BY <1>1
<1> HIDE DEF p
<1>5. Moved(c, p, rec, call[c].config)
  BY <1>1, <1>3, RequestMoves
<1>6. MayBeAt(kind, p, rec, call[c].config)
  BY <1>1, <1>2, <1>4 DEF MayBeAt, Pcs, Sound
<1>7. \/ UNCHANGED <<cached, spoiled>>
      \/ /\ cached' = [cached EXCEPT ![m] = rec]
         /\ spoiled' = IF rec = models[m] THEN spoiled \ {m} ELSE spoiled \cup {m}
  BY DEF CacheSet
<1>8. CASE UNCHANGED <<cached, spoiled>>
  BY <1>1, <1>5, <1>6, <1>8, TablesStay
<1>9. CASE /\ cached' = [cached EXCEPT ![m] = rec]
           /\ spoiled' = IF rec = models[m] THEN spoiled \ {m} ELSE spoiled \cup {m}
  <2>1. /\ DOMAIN cached' = Models /\ cached'[m] = rec
        /\ \A n \in Models \ {m} : cached'[n] = cached[n] /\ (n \in spoiled' <=> n \in spoiled)
        /\ rec # models[m] => m \in spoiled'
    BY <1>1, <1>9 DEF CallsFit
  <2>2. CallsFit' /\ CallsSound' /\ \A d \in ConfigCalls \ {c} : call'[d] = call[d]
    BY <1>1, <1>5, <1>6, <2>1, CallMoved DEF CallsFit
  <2>3. call'[c].kind = kind /\ call'[c].id = m /\ call'[c].pc = p
    BY <1>1, <1>5 DEF Moved, Request, CallsFit
  <2>4. TablesSound'
    BY <1>1, <1>2, <2>1 DEF TablesSound, Sound, WellFormed, Config, IsRow
  <2>5. CreatedAlone'
    <3>1. \A n \in Models : models'[n] = Unborn => ~IsRow(cached'[n])
      BY <1>1, <1>2, <2>1 DEF CreatedAlone
    <3>2. \A d \in ConfigCalls : call'[d].pc # "idle" => call[d].pc # "idle" /\ call'[d].kind = call[d].kind
                                                        /\ call'[d].id = call[d].id
      BY <1>1, <2>2, <2>3
    <3> QED
      BY <1>1, <3>1, <3>2 DEF CreatedAlone, IsRow
  <2>6. StaleOnlyByRace'
    BY <1>1, <2>1, <2>2 DEF StaleOnlyByRace, IsRow
  <2>7. ClientsFit(clients, verified)'
    BY <1>1 DEF ClientsFit, CacheKey
  <2>8. ModelParts'
    BY <1>1, <2>2, <2>4, <2>5, <2>6, <2>7
  <2> QED
    BY <2>8, ModelByParts, PTL
<1> QED
  BY <1>7, <1>8, <1>9

\* A row with some fields replaced is a row.
LEMMA ChangedRows ==
  ASSUME NEW rec, WellFormed(rec), NEW ch, NEW k
  PROVE  /\ WellFormed(Merged(rec, ch)) /\ WellFormed([rec EXCEPT !.caps = k])
         /\ WellFormed([rec EXCEPT !.window = NoWindow, !.caps = NoCaps])
         /\ WellFormed([rec EXCEPT !.on = FALSE]) /\ Config([rec EXCEPT !.on = FALSE]) = Config(rec)
<1>1. DOMAIN rec = {"identity", "key", "window", "caps", "on"}
  BY DEF WellFormed
<1>2. WellFormed(Merged(rec, ch))
  <2> DEFINE new == Merged(rec, ch)
  <2>1. new = [f \in {"identity", "key", "window", "caps", "on"} |-> IF ch[f] = Keep THEN rec[f] ELSE ch[f]]
    BY <1>1 DEF Merged
  <2> HIDE DEF new
  <2>2. new = [identity |-> new.identity, key |-> new.key, window |-> new.window,
               caps |-> new.caps, on |-> new.on]
    BY <2>1
  <2> QED
    BY <2>2 DEF WellFormed, new
<1>3. WellFormed([rec EXCEPT !.caps = k])
  BY DEF WellFormed
<1>4. WellFormed([rec EXCEPT !.window = NoWindow, !.caps = NoCaps])
  <2> DEFINE one == [rec EXCEPT !.window = NoWindow]
  <2>1. WellFormed(one)
    BY DEF WellFormed
  <2> HIDE DEF one
  <2>2. WellFormed([one EXCEPT !.caps = NoCaps])
    BY <2>1 DEF WellFormed
  <2> QED
    BY <2>2 DEF one
<1>5. WellFormed([rec EXCEPT !.on = FALSE]) /\ Config([rec EXCEPT !.on = FALSE]) = Config(rec)
  <2> DEFINE off == [rec EXCEPT !.on = FALSE]
  <2>1. WellFormed(off)
    <3>1. \A b : WellFormed([rec EXCEPT !.on = b])
      BY DEF WellFormed
    <3> QED
      BY <3>1
  <2>2. off.identity = rec.identity /\ off.key = rec.key /\ off.window = rec.window /\ off.caps = rec.caps
    BY <1>1
  <2> HIDE DEF off
  <2>3. Config(off) = Config(rec)
    BY <2>2 DEF Config
  <2> QED
    BY <2>1, <2>3 DEF off
<1> QED
  BY <1>2, <1>3, <1>4, <1>5

\* Every candidate of an update and of a creation is a row.
LEMMA CandidatesFit ==
  ASSUME NEW m, NEW old, WellFormed(old), NEW ch, NEW new \in Candidates(m, old, ch)
  PROVE  WellFormed(new)
<1>1. WellFormed(Merged(old, ch))
  BY ChangedRows
<1>2. \/ \E k : new = [Merged(old, ch) EXCEPT !.caps = k]
      \/ new = [Merged(old, ch) EXCEPT !.window = NoWindow, !.caps = NoCaps]
  BY DEF Candidates
<1>3. ASSUME NEW k PROVE WellFormed([Merged(old, ch) EXCEPT !.caps = k])
  BY <1>1, ChangedRows
<1>4. WellFormed([Merged(old, ch) EXCEPT !.window = NoWindow, !.caps = NoCaps])
  BY <1>1, ChangedRows
<1> QED
  BY <1>2, <1>3, <1>4

LEMMA FreshFit ==
  ASSUME NEW m, NEW ch, NEW new \in Fresh(m, ch)
  PROVE  WellFormed(new)
<1> DEFINE blank == [identity |-> ch.identity, key |-> "no key", window |-> NoWindow,
                     caps |-> NoCaps, on |-> TRUE]
           first == Merged(blank, [ch EXCEPT !.on = TRUE])
<1>1. WellFormed(blank)
  BY DEF WellFormed
<1> HIDE DEF blank
<1>2. WellFormed(first)
  BY <1>1, ChangedRows
<1>3. \E k : new = [first EXCEPT !.caps = k]
  BY DEF Fresh, blank
<1> HIDE DEF first
<1>4. ASSUME NEW k PROVE WellFormed([first EXCEPT !.caps = k])
  BY <1>2, ChangedRows
<1> QED
  BY <1>3, <1>4

LEMMA PrepareKeeps ==
  ASSUME ModelInv, NEW c \in ConfigCalls, Prepare(c)
  PROVE  ModelInv'
<1> USE ModelByParts DEF ModelParts
<1> DEFINE m == call[c].id  ch == call[c].change  old == call[c].row  kind == call[c].kind
<1>1. /\ call[c].pc = "prepare" /\ m \in Models /\ kind \in {"create", "update"}
      /\ UNCHANGED <<models, cached, clients, served, verified, spoiled>>
  BY DEF Prepare, CallsFit, NoCall
<1>2. kind = "update" => Sound(old)
  BY <1>1 DEF CallsSound
<1>3. ClientsFit(clients', verified')
  BY <1>1
<1>4. CASE Ends(c)
  BY <1>1, <1>3, <1>4, TablesStay
<1>5. CASE kind = "update" /\ call' = [call EXCEPT ![c].row = [old EXCEPT !.on = FALSE], ![c].pc = "save"]
  <2> DEFINE new == [old EXCEPT !.on = FALSE]
  <2>1. WellFormed(new) /\ Config(new) \in verified
    BY <1>2, <1>5, ChangedRows DEF Sound
  <2> HIDE DEF new
  <2>2. call' = [call EXCEPT ![c].row = new, ![c].pc = "save"]
    BY <1>5 DEF new
  <2>3. Moved(c, "save", new, call[c].config)
    BY <1>1, <2>2, RequestMoves
  <2>4. MayBeAt(kind, "save", new, call[c].config)
    BY <1>1, <2>1 DEF MayBeAt, Pcs
  <2> QED
    BY <1>1, <1>3, <2>3, <2>4, TablesStay
<1>6. ASSUME NEW new, call' = [call EXCEPT ![c].row = new, ![c].pc = "verify"],
             new \in IF kind = "create" THEN Fresh(m, ch) ELSE Candidates(m, old, ch)
      PROVE  ModelInv'
  <2>1. WellFormed(new)
    BY <1>1, <1>2, <1>6, FreshFit, CandidatesFit DEF Sound
  <2>2. Moved(c, "verify", new, call[c].config)
    BY <1>1, <1>6, RequestMoves
  <2>3. MayBeAt(kind, "verify", new, call[c].config)
    BY <1>1, <2>1 DEF MayBeAt, Pcs
  <2> QED
    BY <1>1, <1>3, <2>2, <2>3, TablesStay
<1> QED
  BY <1>4, <1>5, <1>6 DEF Prepare

\* What is tried out may be saved.
LEMMA VerifyKeeps ==
  ASSUME ModelInv, NEW c \in ConfigCalls, Verify(c)
  PROVE  ModelInv'
<1> USE ModelByParts DEF ModelParts
<1> DEFINE kind == call[c].kind  rec == call[c].row
<1>1. call[c].pc = "verify" /\ UNCHANGED <<models, cached, clients, served, spoiled>> /\ verified \subseteq verified'
  BY DEF Verify
<1>2. ClientsFit(clients', verified')
  <2>1. clients \in Seq([key : verified', config : verified'])
    BY <1>1, SeqMonotonic DEF ClientsFit
  <2> QED
    BY <1>1, <2>1 DEF ClientsFit
<1>3. CASE Ends(c)
  BY <1>1, <1>2, <1>3, TablesStay
<1>4. CASE Goto(c, "save") /\ verified' = verified \cup {Config(rec)}
  <2>1. Moved(c, "save", rec, call[c].config)
    BY <1>1, <1>4, RequestMoves
  <2>2. WellFormed(rec)
    BY <1>1 DEF CallsSound
  <2>3. MayBeAt(kind, "save", rec, call[c].config)
    BY <1>1, <1>4, <2>2 DEF MayBeAt, Pcs, CallsFit, NoCall
  <2> QED
    BY <1>1, <1>2, <2>1, <2>3, TablesStay
<1> QED
  BY <1>3, <1>4 DEF Verify

\* A row is written, with what was tried out, or removed; the cache is told next.
LEMMA SaveKeeps ==
  ASSUME ModelInv, NEW c \in ConfigCalls, Save(c) \/ Drop(c)
  PROVE  ModelInv'
<1> USE ModelByParts DEF ModelParts
<1> DEFINE m == call[c].id  kind == call[c].kind
<1>1. /\ call[c].pc \in {"save", "drop"} /\ m \in Models
      /\ UNCHANGED <<cached, clients, served, verified, spoiled>>
  BY DEF Save, Drop, CallsFit, NoCall
<1>2. PICK rec : /\ models' = [models EXCEPT ![m] = rec]
                 /\ rec # Unborn
                 /\ IsRow(rec) => Sound(rec)
                 /\ kind = "create" \/ Goto(c, "evict")
                 /\ kind = "create" => Ends(c)
  <2>1. CASE Save(c)
    <3>1. Sound(call[c].row)
      BY <2>1 DEF Save, CallsSound
    <3>2. call[c].row # Unborn
      BY <3>1 DEF Sound, WellFormed, Unborn
    <3>3. /\ models' = [models EXCEPT ![m] = call[c].row]
          /\ kind = "create" \/ Goto(c, "evict")
          /\ kind = "create" => Ends(c)
      BY <2>1 DEF Save
    <3> QED
      BY <3>1, <3>2, <3>3
  <2>2. CASE Drop(c)
    <3>1. Gone # Unborn /\ ~IsRow(Gone)
      BY DEF Gone, Unborn, IsRow
    <3>2. kind # "create"
      BY <2>2 DEF Drop, CallsFit, NoCall
    <3> QED
      BY <2>2, <3>1, <3>2 DEF Drop
  <2> QED
    BY <2>1, <2>2
<1>3. DOMAIN models' = Models /\ models'[m] = rec /\ \A n \in Models \ {m} : models'[n] = models[n]
  BY <1>1, <1>2 DEF CallsFit
<1>4. ~(kind = "create") => Moved(c, "evict", call[c].row, call[c].config)
                            /\ MayBeAt(kind, "evict", call[c].row, call[c].config)
  BY <1>1, <1>2, RequestMoves DEF MayBeAt, Pcs
<1>5. CallsFit' /\ CallsSound' /\ \A d \in ConfigCalls \ {c} : call'[d] = call[d]
  BY <1>1, <1>2, <1>3, <1>4, CallMoved DEF CallsFit
<1>6. /\ kind = "create" => call'[c].pc = "idle"
      /\ kind # "create" => call'[c].pc = "evict" /\ call'[c].kind = kind /\ call'[c].id = m
  BY <1>1, <1>2, <1>4 DEF Moved, Request, CallsFit, Ends, NoCall
<1>7. TablesSound'
  BY <1>1, <1>2, <1>3 DEF TablesSound, Sound, WellFormed, Config, IsRow
<1>8. CreatedAlone'
  <2>1. \A n \in Models : models'[n] = Unborn => ~IsRow(cached'[n])
    BY <1>1, <1>2, <1>3 DEF CreatedAlone
  <2>2. ASSUME NEW d \in ConfigCalls, call'[d].pc # "idle"
        PROVE  /\ call'[d].kind # "create" => models'[call'[d].id] # Unborn
               /\ call'[d].kind = "create" =>
                     /\ models'[call'[d].id] = Unborn
                     /\ \A e \in ConfigCalls \ {d} : call'[e].pc # "idle" => call'[e].id # call'[d].id
    <3>1. CASE d = c
      BY <1>2, <1>3, <1>6, <2>2, <3>1
    <3>2. CASE d # c
      <4>1. call'[d] = call[d] /\ call[d].pc # "idle" /\ call[d].id \in Models
        BY <1>5, <2>2, <3>2 DEF CallsFit, NoCall
      <4>2. call[d].kind = "create" => call[d].id # m
        BY <1>1, <3>2, <4>1 DEF CreatedAlone
      <4>3. \A e \in ConfigCalls \ {d} : call'[e].pc # "idle" => call[e].pc # "idle" /\ call'[e].id = call[e].id
        BY <1>1, <1>5, <1>6
      <4> QED
        BY <1>2, <1>3, <4>1, <4>2, <4>3 DEF CreatedAlone
    <3> QED
      BY <3>1, <3>2
  <2> QED
    BY <2>1, <2>2 DEF CreatedAlone, IsRow
<1>9. StaleOnlyByRace'
  <2>1. kind = "create" => ~IsRow(cached[m])
    BY <1>1 DEF CreatedAlone
  <2>2. \A d \in ConfigCalls : call[d].pc = "evict" => call'[d].pc = "evict" /\ call'[d].id = call[d].id
    BY <1>1, <1>5
  <2> QED
    BY <1>1, <1>3, <1>6, <2>1, <2>2 DEF StaleOnlyByRace, IsRow
<1>10. ClientsFit(clients, verified)'
  BY <1>1 DEF ClientsFit, CacheKey
<1>11. ModelParts'
  BY <1>1, <1>5, <1>7, <1>8, <1>9, <1>10
<1> QED
  BY <1>11, ModelByParts, PTL

\* The cache loses an entry; when the removal fails, the entry counts as spoiled.
LEMMA EvictKeeps ==
  ASSUME ModelInv,
         \/ \E c \in ConfigCalls : CacheDelete(c)
         \/ \E m \in Models : Expires(m)
  PROVE  ModelInv'
<1> USE ModelByParts DEF ModelParts
<1>1. UNCHANGED <<models, clients, served, verified>>
  BY DEF CacheDelete, Expires
<1>2. PICK m \in Models :
         /\ \/ cached' = [cached EXCEPT ![m] = Gone] /\ spoiled' = spoiled \ {m}
            \/ UNCHANGED cached /\ spoiled' = spoiled \cup {m}
         /\ \/ UNCHANGED call
            \/ \E c \in ConfigCalls : call[c].pc = "evict" /\ call[c].id = m /\ Ends(c)
  BY DEF CacheDelete, Expires, CallsFit, NoCall
<1>3. /\ DOMAIN cached' = Models
      /\ \A n \in Models : cached'[n] = cached[n] \/ ~IsRow(cached'[n])
      /\ \A n \in Models \ {m} : n \in spoiled' <=> n \in spoiled
      /\ ~IsRow(cached'[m]) \/ m \in spoiled'
  BY <1>2 DEF CallsFit, IsRow
<1>4. /\ CallsFit' /\ CallsSound'
      /\ \A d \in ConfigCalls : \/ call'[d] = call[d]
                                \/ call[d].pc = "evict" /\ call[d].id = m /\ call'[d].pc = "idle"
  <2>1. CASE UNCHANGED call
    BY <1>1, <1>3, <2>1 DEF CallsFit, CallsSound, Sound, WellFormed, Config
  <2>2. ASSUME NEW c \in ConfigCalls, call[c].pc = "evict", call[c].id = m, Ends(c)
        PROVE  /\ CallsFit' /\ CallsSound'
               /\ \A d \in ConfigCalls : \/ call'[d] = call[d]
                                         \/ call[d].pc = "evict" /\ call[d].id = m /\ call'[d].pc = "idle"
    <3>1. CallsFit' /\ CallsSound' /\ \A d \in ConfigCalls \ {c} : call'[d] = call[d]
      BY <1>1, <1>3, <2>2, CallMoved DEF CallsFit
    <3>2. call'[c].pc = "idle"
      BY <2>2 DEF Ends, CallsFit, NoCall
    <3> QED
      BY <2>2, <3>1, <3>2
  <2> QED
    BY <1>2, <2>1, <2>2
<1>5. TablesSound'
  BY <1>1, <1>3 DEF TablesSound, Sound, WellFormed, Config, IsRow
<1>6. CreatedAlone'
  BY <1>1, <1>3, <1>4 DEF CreatedAlone, IsRow
<1>7. StaleOnlyByRace'
  BY <1>1, <1>3, <1>4 DEF StaleOnlyByRace, IsRow
<1>8. ClientsFit(clients, verified)'
  BY <1>1 DEF ClientsFit, CacheKey
<1>9. ModelParts'
  BY <1>1, <1>4, <1>5, <1>6, <1>7, <1>8
<1> QED
  BY <1>9, ModelByParts, PTL

\* A client is found or built for the configuration the request resolved.
LEMMA ClientKeeps ==
  ASSUME ModelInv, NEW c \in ConfigCalls, ClientGet(c) \/ ClientPut(c) \/ Answered(c)
  PROVE  ModelInv'
<1> USE ModelByParts DEF ModelParts
<1> DEFINE rec == call[c].row  config == Config(rec)
<1>1. /\ call[c].pc \in {"client", "build", "used"}
      /\ UNCHANGED <<models, cached, served, verified, spoiled>>
  BY DEF ClientGet, ClientPut, Answered
<1>2. config \in verified /\ call[c].kind # "create"
  BY <1>1 DEF CallsSound, Sound, CallsFit, NoCall
<1>3. CASE Ends(c) /\ UNCHANGED clients
  <2>1. ClientsFit(clients', verified')
    BY <1>1, <1>3
  <2> QED
    BY <1>1, <1>3, <2>1, TablesStay
<1>4. CASE Goto(c, "build") /\ UNCHANGED clients /\ call[c].pc = "client"
  <2>1. ClientsFit(clients', verified')
    BY <1>1, <1>4
  <2>2. Moved(c, "build", rec, call[c].config)
    BY <1>1, <1>4, RequestMoves
  <2>3. MayBeAt(call[c].kind, "build", rec, call[c].config)
    BY <1>1, <1>2 DEF MayBeAt, Pcs, CallsSound, Sound
  <2> QED
    BY <1>1, <2>1, <2>2, <2>3, TablesStay
<1>5. ASSUME NEW e \in [key : verified, config : verified], e.key = CacheKey(e.config), e.config = config,
             clients' = InFront(e), call' = [call EXCEPT ![c].config = e.config, ![c].pc = "used"]
      PROVE  ModelInv'
  <2>1. ClientsFit(clients', verified')
    BY <1>1, <1>5, InFrontFits
  <2>2. Moved(c, "used", rec, config)
    BY <1>1, <1>5, RequestMoves
  <2>3. MayBeAt(call[c].kind, "used", rec, config)
    BY <1>1, <1>2 DEF MayBeAt, Pcs, CallsSound, Sound
  <2> QED
    BY <1>1, <2>1, <2>2, <2>3, TablesStay
<1>6. CASE ClientGet(c) /\ \E i \in DOMAIN clients : clients[i].key = CacheKey(config)
  <2> DEFINE i == CHOOSE j \in DOMAIN clients : clients[j].key = CacheKey(config)
             e == clients[i]
  <2>1. i \in DOMAIN clients /\ e.key = CacheKey(config)
    BY <1>6
  <2>2. clients' = InFront(e) /\ call' = [call EXCEPT ![c].config = e.config, ![c].pc = "used"]
    BY <1>6 DEF ClientGet
  <2> HIDE DEF i
  <2>3. e \in [key : verified, config : verified] /\ e.key = CacheKey(e.config)
    BY <2>1, LenProperties DEF ClientsFit
  <2>4. e.config = config
    BY <2>1, <2>3 DEF CacheKey
  <2> QED
    BY <1>5, <2>2, <2>3, <2>4
<1>7. CASE ClientPut(c) /\ Complete(rec)
  <2> DEFINE e == [key |-> CacheKey(config), config |-> config]
  <2>1. e \in [key : verified, config : verified] /\ e.key = CacheKey(e.config) /\ e.config = config
    BY <1>2 DEF CacheKey
  <2>2. clients' = InFront(e) /\ call' = [call EXCEPT ![c].config = e.config, ![c].pc = "used"]
    BY <1>7 DEF ClientPut
  <2> QED
    BY <1>5, <2>1, <2>2
<1> QED
  BY <1>3, <1>4, <1>6, <1>7 DEF ClientGet, ClientPut, Answered

\* The invariant is kept.
LEMMA ModelStays == ModelInv /\ [ModelNext]_modelVars => ModelInv'
<1> SUFFICES ASSUME ModelInv, [ModelNext]_modelVars PROVE ModelInv'
  OBVIOUS
<1>1. CASE UNCHANGED modelVars
  BY <1>1 DEF modelVars, ModelInv, ModelTypeOK, CallsFit, RowsAreSound, CreatedAlone, StaleOnlyByRace,
              ClientOfResolvedConfig, Sound, WellFormed, Config, IsRow, CacheKey
<1>2. CASE ModelNext
  BY <1>2, ModelRequestBegins, ReadKeeps, CacheSetKeeps, PrepareKeeps, VerifyKeeps, SaveKeeps, EvictKeeps,
     ClientKeeps DEF ModelNext
<1> QED
  BY <1>1, <1>2

-----------------------------------------------------------------------------
(* DingTalkSync.                                                           *)

\* That an item has one document unless imports raced is part of ImportsFit.
LEMMA SyncByParts == SyncInv <=> SyncTypeOK /\ LocksHold /\ InsertsMeetNothing /\ ImportsFit
<1>1. ASSUME ImportsFit, NEW n \in Nodes \ raced
      PROVE  Cardinality({d \in SyncedDocs : IsLive(d) /\ docs[d].node = n}) <= 1
  <2>1. \A d, e \in {x \in SyncedDocs : IsLive(x) /\ docs[x].node = n} : d = e
    BY <1>1 DEF ImportsFit, LiveDocs
  <2> QED
    BY <2>1, AtMostOne
<1> QED
  BY <1>1 DEF SyncInv, OneDocumentUnlessRaced

LEMMA SyncStarts == SyncInit => SyncInv
<1> SUFFICES ASSUME SyncInit PROVE SyncInv
  OBVIOUS
<1> USE SyncAssumption
<1>1. \A d \in SyncedDocs : docs[d] = [state |-> "unused", node |-> Root, versions |-> 0,
                                       chunksOf |-> 0, lock |-> NoDoc] /\ ~IsLive(d)
  BY DEF SyncInit, IsLive
<1>2. \A r \in Importers : imports[r] = Idle /\ imports[r].pc = "idle" /\ imports[r].row = NoDoc
  BY DEF SyncInit, Idle
<1>3. {d \in SyncedDocs : IsLive(d)} = {}
  BY <1>1
<1>4. IsFiniteSet({d \in SyncedDocs : IsLive(d)}) /\ Cardinality({d \in SyncedDocs : IsLive(d)}) = 0
  BY <1>3, FS_EmptySet
<1>5. docs \in [SyncedDocs -> Doc] /\ imports \in [Importers -> Import]
  BY DEF SyncInit, Doc, Import, Idle
<1>6. jobs \in [SyncJobs -> Job] /\ items \in [Nodes -> Item]
  BY DEF SyncInit, Job, Item, JobStates
<1>7. SyncTypeOK
  <2>1. source \in Sources /\ lastSync \in BOOLEAN /\ raced \subseteq Nodes
    BY DEF SyncInit, Sources
  <2>2. kbCount = Cardinality({d \in SyncedDocs : IsLive(d)}) /\ syncFaults \in 0..MaxSyncFaults
    BY <1>4 DEF SyncInit
  <2> QED
    BY <1>5, <1>6, <2>1, <2>2 DEF SyncTypeOK
<1>8. LocksHold /\ InsertsMeetNothing
  BY <1>2 DEF LocksHold, InsertsMeetNothing, Inserting
<1>9. ImportsFit
  BY <1>1, <1>2, <1>4 DEF ImportsFit, LiveDocs
<1> QED
  BY <1>7, <1>8, <1>9, SyncByParts

\* While every row keeps its state, its node and its versions, the same ones are
\* live.
DocsStand == /\ docs' \in [SyncedDocs -> Doc]
             /\ \A d \in SyncedDocs : /\ docs'[d].state = docs[d].state
                                      /\ docs'[d].node = docs[d].node
                                      /\ docs'[d].versions = docs[d].versions

LEMMA LiveStand ==
  ASSUME SyncInv, DocsStand, UNCHANGED kbCount
  PROVE  /\ \A d \in SyncedDocs : IsLive(d)' <=> IsLive(d)
         /\ \A n : LiveDocs(n)' = LiveDocs(n)
         /\ kbCount' = Cardinality({d \in SyncedDocs : IsLive(d)})'
         /\ IsFiniteSet({d \in SyncedDocs : IsLive(d)})'
         /\ \A d \in SyncedDocs : docs'[d].state = "unused" => docs'[d].versions = 0
<1>1. \A d \in SyncedDocs : IsLive(d)' <=> IsLive(d)
  BY DEF DocsStand, IsLive
<1>2. {d \in SyncedDocs : IsLive(d)}' = {d \in SyncedDocs : IsLive(d)}
  BY <1>1
<1>3. \A n : LiveDocs(n)' = LiveDocs(n)
  BY <1>1 DEF DocsStand, LiveDocs
<1>4. kbCount = Cardinality({d \in SyncedDocs : IsLive(d)}) /\ IsFiniteSet({d \in SyncedDocs : IsLive(d)})
  BY DEF SyncInv, SyncTypeOK, ImportsFit
<1>5. \A d \in SyncedDocs : docs'[d].state = "unused" => docs'[d].versions = 0
  BY DEF DocsStand, SyncInv, ImportsFit
<1> QED
  BY <1>1, <1>2, <1>3, <1>4, <1>5

\* The variables that no document and no import depends on.
RestFits == /\ source' \in Sources /\ lastSync' \in BOOLEAN /\ jobs' \in [SyncJobs -> Job]
            /\ items' \in [Nodes -> Item] /\ syncFaults' \in 0..MaxSyncFaults

\* A step of the source or of a job, or one that only changes items.
LEMMA RestSteps ==
  ASSUME SyncInv, RestFits, UNCHANGED <<docs, imports, kbCount, raced>>
  PROVE  SyncInv'
<1> USE SyncByParts
<1>1. SyncTypeOK'
  BY DEF RestFits, SyncTypeOK, IsLive
<1>2. LocksHold' /\ InsertsMeetNothing' /\ ImportsFit'
  BY DEF LocksHold, InsertsMeetNothing, ImportsFit, IsLive, LiveDocs, Inserting
<1>3. (SyncTypeOK /\ LocksHold /\ InsertsMeetNothing /\ ImportsFit)'
  BY <1>1, <1>2
<1> QED
  BY <1>3, SyncByParts, PTL

\* An import goes to a step at which it is in no transaction, and no document
\* changes but for locks, which nobody else holds.
LEMMA ImportGoesOn ==
  ASSUME SyncInv, RestFits, NEW r \in Importers, NEW i \in Import, i.pc # "saving",
         i.pc # "idle" => i.node \in Nodes, i.pc = "built" => i.doc \in SyncedDocs, i.row = NoDoc,
         imports' = [imports EXCEPT ![r] = i],
         UNCHANGED <<kbCount, raced>>,
         DocsStand, \A d \in SyncedDocs : docs[d].lock # r => docs'[d].lock = docs[d].lock
  PROVE  SyncInv'
<1> USE SyncByParts
<1>1. imports \in [Importers -> Import] /\ docs \in [SyncedDocs -> Doc]
  BY DEF SyncTypeOK
<1>2. imports' \in [Importers -> Import] /\ imports'[r] = i /\ \A q \in Importers \ {r} : imports'[q] = imports[q]
  BY <1>1
<1>3. SyncTypeOK'
  BY <1>2, LiveStand DEF SyncTypeOK, RestFits, DocsStand
<1>4. LocksHold'
  <2>1. ASSUME NEW q \in Importers, imports'[q].pc = "saving", imports'[q].row # NoDoc
        PROVE  /\ docs'[imports'[q].row].lock = q /\ IsLive(imports[q].row)'
               /\ docs'[imports'[q].row].node = imports'[q].node
               /\ docs'[imports'[q].row].versions < MaxVersions
    <3>1. q # r /\ imports'[q] = imports[q] /\ imports[q].row \in SyncedDocs
      BY <1>1, <1>2, <2>1 DEF Import
    <3> DEFINE d == imports[q].row
    <3>2. docs[d].lock = q /\ IsLive(d) /\ docs[d].node = imports[q].node /\ docs[d].versions < MaxVersions
      BY <2>1, <3>1 DEF LocksHold
    <3>3. docs'[d].lock = q /\ docs'[d].node = imports[q].node /\ docs'[d].versions < MaxVersions
      BY <3>1, <3>2 DEF DocsStand
    <3>4. IsLive(imports[q].row)'
      BY <3>1, <3>2 DEF DocsStand, IsLive
    <3> QED
      BY <3>1, <3>3, <3>4
  <2> QED
    BY <2>1 DEF LocksHold, IsLive
<1>5. InsertsMeetNothing'
  <2>1. \A q \in Importers : \A n : Inserting(q, n)' => Inserting(q, n) /\ q # r
    BY <1>2 DEF Inserting
  <2> QED
    BY <2>1, LiveStand DEF InsertsMeetNothing
<1>6. ImportsFit'
  <2>1. \A q \in Importers : /\ imports'[q].pc # "idle" => imports'[q].node \in Nodes
                             /\ imports'[q].pc \in {"built", "saving"} => imports'[q].doc \in SyncedDocs
                             /\ imports'[q].pc # "saving" => imports'[q].row = NoDoc
    BY <1>2 DEF ImportsFit
  <2>2. \A n \in Nodes \ raced' : \A d, e \in LiveDocs(n)' : d = e
    BY LiveStand DEF ImportsFit
  <2> QED
    BY <2>1, <2>2, LiveStand DEF ImportsFit
<1>7. (SyncTypeOK /\ LocksHold /\ InsertsMeetNothing /\ ImportsFit)'
  BY <1>3, <1>4, <1>5, <1>6
<1> QED
  BY <1>7, SyncByParts, PTL

\* A job or an item with some fields replaced is one.
LEMMA JobsFit ==
  ASSUME jobs \in [SyncJobs -> Job], NEW j \in SyncJobs, NEW job \in Job
  PROVE  [jobs EXCEPT ![j] = job] \in [SyncJobs -> Job]
OBVIOUS

LEMMA ItemsFit ==
  ASSUME items \in [Nodes -> Item], NEW n \in Nodes, NEW item \in Item
  PROVE  [items EXCEPT ![n] = item] \in [Nodes -> Item]
OBVIOUS

\* The steps of the source and of the jobs.
LEMMA SourceKeeps ==
  ASSUME SyncInv, CreateSource \/ UpdateSource \/ DeleteSource \/ ResetDeletedDocumentLinks
  PROVE  SyncInv'
<1>1. SyncTypeOK
  BY SyncByParts
<1>2. CASE CreateSource \/ UpdateSource \/ DeleteSource
  <2>1. RestFits
    BY <1>1, <1>2 DEF CreateSource, UpdateSource, DeleteSource, RestFits, SyncTypeOK, Sources
  <2>2. UNCHANGED <<docs, imports, kbCount, raced>>
    BY <1>2 DEF CreateSource, UpdateSource, DeleteSource
  <2> QED
    BY <2>1, <2>2, RestSteps
<1>3. CASE ResetDeletedDocumentLinks
  <2>1. \A n \in Nodes : Unlink(items[n]) \in Item /\ items[n] \in Item
    BY <1>1 DEF SyncTypeOK, Unlink, Item
  <2>2. items' \in [Nodes -> Item]
    BY <1>3, <2>1 DEF ResetDeletedDocumentLinks
  <2>3. RestFits /\ UNCHANGED <<docs, imports, kbCount, raced>>
    BY <1>1, <1>3, <2>2 DEF ResetDeletedDocumentLinks, RestFits, SyncTypeOK
  <2> QED
    BY <2>3, RestSteps
<1> QED
  BY <1>2, <1>3

LEMMA JobKeeps ==
  ASSUME SyncInv, NEW j \in SyncJobs, CreateJob(j) \/ JobStep(j)
  PROVE  SyncInv'
<1> USE SyncAssumption
<1>1. SyncTypeOK /\ jobs \in [SyncJobs -> Job] /\ jobs[j] \in Job
  BY SyncByParts DEF SyncTypeOK
<1>2. UNCHANGED <<docs, imports, kbCount, raced, source>>
  BY DEF CreateJob, JobStep, StartJob, FinishJob, MarkSyncResult, NodeFails, ScanNode, ListFails
<1>3. lastSync' \in BOOLEAN
  BY <1>1 DEF CreateJob, JobStep, StartJob, FinishJob, MarkSyncResult, NodeFails, ScanNode, ListFails, SyncTypeOK
<1>4. syncFaults' \in 0..MaxSyncFaults
  <2>1. UNCHANGED syncFaults \/ Fault
    BY DEF CreateJob, JobStep, StartJob, FinishJob, MarkSyncResult, NodeFails, ScanNode, ListFails
  <2> QED
    BY <1>1, <2>1 DEF SyncTypeOK, Fault
<1>5. items' \in [Nodes -> Item]
  <2>1. CASE UNCHANGED items
    BY <1>1, <2>1 DEF SyncTypeOK
  <2>2. ASSUME NEW n \in Nodes, NEW k \in KindsOf[n], Upsert(n, k)
        PROVE  items' \in [Nodes -> Item]
    <3> DEFINE status == IF Known(n) THEN items[n].status ELSE "pending"
               one == [items[n] EXCEPT !.kind = k]
    <3>1. items \in [Nodes -> Item] /\ items[n] \in Item
      BY <1>1, <2>2 DEF SyncTypeOK
    <3>2. k \in Kinds /\ one \in Item /\ status \in {"unknown", "pending", "importing", "imported", "failed"}
      BY <2>2, <3>1 DEF Item
    <3>3. items' = [items EXCEPT ![n] = [items[n] EXCEPT !.kind = k, !.status = status]]
      BY <2>2, <3>1 DEF Upsert
    <3> HIDE DEF status, one
    <3>4. [one EXCEPT !.status = status] \in Item
      BY <3>2 DEF Item
    <3>5. items' = [items EXCEPT ![n] = [one EXCEPT !.status = status]]
      BY <3>3 DEF one
    <3> QED
      BY <3>1, <3>4, <3>5, ItemsFit
  <2> QED
    BY <2>1, <2>2 DEF CreateJob, JobStep, StartJob, FinishJob, MarkSyncResult, NodeFails, ScanNode, ListFails
<1>6. jobs' \in [SyncJobs -> Job]
  <2>1. \A p : Children(p) \subseteq Nodes
    BY DEF Children
  <2>3. jobs[j].todo \in SUBSET Nodes
    BY <1>1 DEF Job
  <2>4. CASE CreateJob(j)
    BY <1>1, <2>4 DEF CreateJob, Job, JobStates
  <2>5. CASE StartJob(j)
    <3>1. CASE jobs' = [jobs EXCEPT ![j].goroutine = "none"]
      BY <1>1, <3>1 DEF Job
    <3>2. CASE jobs' = [jobs EXCEPT ![j] = [MarkRunning(@) EXCEPT !.goroutine = "scanning", !.todo = Children(Root)]]
      <4>1. [MarkRunning(jobs[j]) EXCEPT !.goroutine = "scanning", !.todo = Children(Root)] \in Job
        BY <1>1, <2>1 DEF MarkRunning, Job, JobStates
      <4> QED
        BY <1>1, <3>2, <4>1
    <3> QED
      BY <2>5, <3>1, <3>2 DEF StartJob
  <2>6. CASE FinishJob(j)
    <3>1. CASE jobs' = [jobs EXCEPT ![j].goroutine = "reporting"]
      BY <1>1, <3>1 DEF Job
    <3>2. CASE jobs' = [jobs EXCEPT ![j] = [Finish(@, IF @.failed THEN "failed" ELSE "success")
                                               EXCEPT !.goroutine = "reporting"]]
      <4>1. [Finish(jobs[j], IF jobs[j].failed THEN "failed" ELSE "success") EXCEPT !.goroutine = "reporting"] \in Job
        BY <1>1 DEF Finish, Job, JobStates
      <4> QED
        BY <1>1, <3>2, <4>1
    <3> QED
      BY <2>6, <3>1, <3>2 DEF FinishJob
  <2>7. CASE MarkSyncResult(j)
    BY <1>1, <2>7 DEF MarkSyncResult, Job
  <2>8. ASSUME NEW T \in SUBSET Nodes,
               \/ jobs' = [jobs EXCEPT ![j].todo = T, ![j].failed = TRUE]
               \/ jobs' = [jobs EXCEPT ![j].todo = T]
        PROVE  jobs' \in [SyncJobs -> Job]
    BY <1>1, <2>8 DEF Job
  <2>9. ASSUME NEW n \in Nodes, NodeFails(j, n) PROVE jobs' \in [SyncJobs -> Job]
    <3> DEFINE T == jobs[j].todo \ {n}
    <3>1. \/ jobs' = [jobs EXCEPT ![j].todo = T, ![j].failed = TRUE]
          \/ jobs' = [jobs EXCEPT ![j].todo = T]
      BY <2>9 DEF NodeFails
    <3>2. T \in SUBSET Nodes
      BY <2>1, <2>3
    <3> HIDE DEF T
    <3> QED
      BY <2>8, <3>1, <3>2
  <2>10. ASSUME NEW n \in Nodes, NEW k, ScanNode(j, n, k) PROVE jobs' \in [SyncJobs -> Job]
    <3> DEFINE T == (jobs[j].todo \ {n}) \cup (IF k = "folder" THEN Children(n) ELSE {})
    <3>1. \/ jobs' = [jobs EXCEPT ![j].todo = T, ![j].failed = TRUE]
          \/ jobs' = [jobs EXCEPT ![j].todo = T]
      BY <2>10 DEF ScanNode
    <3>2. T \in SUBSET Nodes
      BY <2>1, <2>3
    <3> HIDE DEF T
    <3> QED
      BY <2>8, <3>1, <3>2
  <2>11. ASSUME NEW p, ListFails(j, p) PROVE jobs' \in [SyncJobs -> Job]
    <3> DEFINE T == jobs[j].todo \ Children(p)
    <3>1. \/ jobs' = [jobs EXCEPT ![j].todo = T, ![j].failed = TRUE]
          \/ jobs' = [jobs EXCEPT ![j].todo = T]
      BY <2>11 DEF ListFails
    <3>2. T \in SUBSET Nodes
      BY <2>1, <2>3
    <3> HIDE DEF T
    <3> QED
      BY <2>8, <3>1, <3>2
  <2> QED
    BY <2>4, <2>5, <2>6, <2>7, <2>9, <2>10, <2>11 DEF JobStep
<1>7. RestFits
  BY <1>1, <1>2, <1>3, <1>4, <1>5, <1>6 DEF RestFits, SyncTypeOK
<1> QED
  BY <1>2, <1>7, RestSteps

\* An import at another step.
LEMMA ImportMoves ==
  ASSUME NEW i \in Import
  PROVE  \A p \in {"fetching", "fetched", "built", "saving", "marking", "failing"} :
             LET j == [i EXCEPT !.pc = p] IN
             /\ j \in Import /\ j.pc = p /\ j.node = i.node
             /\ j.doc = i.doc /\ j.row = i.row /\ j.kind = i.kind
BY DEF Import

\* What else holds of a step of an import that leaves the items and the documents.
LEMMA OnlyImports ==
  ASSUME SyncInv, UNCHANGED <<source, lastSync, jobs, items, docs, syncFaults>>, NEW r
  PROVE  /\ RestFits /\ DocsStand
         /\ \A d \in SyncedDocs : docs[d].lock # r => docs'[d].lock = docs[d].lock
BY SyncByParts DEF SyncTypeOK, RestFits, DocsStand

LEMMA BeginKeeps ==
  ASSUME SyncInv, NEW r \in Importers, NEW n \in Nodes, BeginImport(r, n)
  PROVE  SyncInv'
<1>1. SyncTypeOK /\ items \in [Nodes -> Item] /\ docs \in [SyncedDocs -> Doc]
  BY SyncByParts DEF SyncTypeOK
<1> DEFINE k == items[n].kind
           new == [Idle EXCEPT !.pc = "fetching", !.node = n, !.kind = k]
<1>2. new = [pc |-> "fetching", node |-> n, doc |-> NoDoc, row |-> NoDoc, kind |-> k]
  <2> HIDE DEF k
  <2> DEFINE one == [Idle EXCEPT !.pc = "fetching"]  two == [one EXCEPT !.node = n]
  <2>1. one = [pc |-> "fetching", node |-> Root, doc |-> NoDoc, row |-> NoDoc, kind |-> "none"]
    BY DEF Idle
  <2> HIDE DEF one
  <2>2. two = [pc |-> "fetching", node |-> n, doc |-> NoDoc, row |-> NoDoc, kind |-> "none"]
    BY <2>1
  <2> HIDE DEF two
  <2>3. [two EXCEPT !.kind = k] = [pc |-> "fetching", node |-> n, doc |-> NoDoc, row |-> NoDoc, kind |-> k]
    BY <2>2
  <2> QED
    BY <2>3 DEF one, two
<1>3. k \in Kinds \cup {"none"}
  BY <1>1 DEF Item
<1>4. imports' = [imports EXCEPT ![r] = new] /\ UNCHANGED <<source, lastSync, jobs, syncFaults, docs, kbCount, raced>>
  BY DEF BeginImport
<1> HIDE DEF new, k
<1>5. new \in Import /\ new.pc = "fetching" /\ new.node = n /\ new.row = NoDoc
  BY <1>2, <1>3 DEF Import
<1>6. items' \in [Nodes -> Item]
  <2>1. [items[n] EXCEPT !.status = "importing"] \in Item
    BY <1>1 DEF Item
  <2>2. items' = [items EXCEPT ![n] = [items[n] EXCEPT !.status = "importing"]]
    BY DEF BeginImport
  <2> QED
    BY <1>1, <2>1, <2>2, ItemsFit
<1>7. RestFits /\ DocsStand
  BY <1>1, <1>4, <1>6 DEF SyncTypeOK, RestFits, DocsStand
<1> QED
  BY <1>4, <1>5, <1>7, ImportGoesOn

LEMMA LookUpKeeps ==
  ASSUME SyncInv, NEW r \in Importers, DownloadFile(r) \/ LookUp(r)
  PROVE  SyncInv'
<1> DEFINE i == imports[r]
<1>1. /\ imports \in [Importers -> Import] /\ i \in Import
      /\ i.pc # "idle" => i.node \in Nodes
      /\ i.pc # "saving" => i.row = NoDoc
  BY SyncByParts DEF SyncTypeOK, ImportsFit
<1>2. UNCHANGED <<source, lastSync, jobs, items, syncFaults, docs, kbCount, raced>>
      /\ i.pc \notin {"idle", "saving"}
  BY DEF DownloadFile, LookUp
<1>3. CASE DownloadFile(r)
  <2> DEFINE new == [i EXCEPT !.pc = "fetched"]
  <2>1. new \in Import /\ new.pc = "fetched" /\ new.node \in Nodes /\ new.row = NoDoc
    BY <1>1, <1>2, ImportMoves
  <2>2. imports' = [imports EXCEPT ![r] = new]
    BY <1>3 DEF DownloadFile
  <2> HIDE DEF new
  <2> QED
    BY <1>2, <2>1, <2>2, OnlyImports, ImportGoesOn
<1>4. CASE LookUp(r)
  <2>1. PICK d \in SyncedDocs : imports' = [imports EXCEPT ![r].pc = "built", ![r].doc = d]
    BY <1>4 DEF LookUp, LiveDocs, Minted
  <2> DEFINE one == [i EXCEPT !.pc = "built"]  new == [one EXCEPT !.doc = d]
  <2>2. imports' = [imports EXCEPT ![r] = new]
    BY <1>1, <2>1
  <2>3. one \in Import /\ one.pc = "built" /\ one.node \in Nodes /\ one.row = NoDoc
    BY <1>1, <1>2, ImportMoves
  <2> HIDE DEF one
  <2>4. new \in Import /\ new.pc = "built" /\ new.node \in Nodes /\ new.doc = d /\ new.row = NoDoc
    BY <2>3 DEF Import
  <2> HIDE DEF new
  <2> QED
    BY <1>2, <2>2, <2>4, OnlyImports, ImportGoesOn
<1> QED
  BY <1>3, <1>4

LEMMA FailureKeeps ==
  ASSUME SyncInv, NEW r \in Importers, ImportFails(r)
  PROVE  SyncInv'
<1> DEFINE i == imports[r]
<1>1. /\ imports \in [Importers -> Import] /\ i \in Import /\ docs \in [SyncedDocs -> Doc]
      /\ i.pc # "idle" => i.node \in Nodes
      /\ i.pc # "saving" => i.row = NoDoc
  BY SyncByParts DEF SyncTypeOK, ImportsFit
<1>2. /\ i.pc # "idle"
      /\ imports' = [imports EXCEPT ![r].pc = "failing", ![r].row = NoDoc]
      /\ docs' = [d \in SyncedDocs |-> IF docs[d].lock = r THEN [docs[d] EXCEPT !.lock = NoDoc] ELSE docs[d]]
      /\ UNCHANGED <<source, lastSync, jobs, items, syncFaults, kbCount, raced>>
  BY DEF ImportFails
<1> DEFINE one == [i EXCEPT !.pc = "failing"]  new == [one EXCEPT !.row = NoDoc]
<1>3. imports' = [imports EXCEPT ![r] = new]
  BY <1>1, <1>2
<1>4. one \in Import /\ one.pc = "failing" /\ one.node \in Nodes
  BY <1>1, <1>2, ImportMoves
<1> HIDE DEF one
<1>5. new \in Import /\ new.pc = "failing" /\ new.node \in Nodes /\ new.row = NoDoc
  BY <1>4 DEF Import
<1>6. \A d \in SyncedDocs :
         LET e == [docs[d] EXCEPT !.lock = NoDoc] IN
         e \in Doc /\ e.state = docs[d].state /\ e.node = docs[d].node /\ e.versions = docs[d].versions
  BY <1>1 DEF Doc
<1>7. docs' \in [SyncedDocs -> Doc]
  BY <1>1, <1>2, <1>6
<1>8. \A d \in SyncedDocs :
         /\ docs'[d].state = docs[d].state /\ docs'[d].node = docs[d].node
         /\ docs'[d].versions = docs[d].versions
         /\ docs[d].lock # r => docs'[d].lock = docs[d].lock
  BY <1>2, <1>6
<1>9. DocsStand
  BY <1>7, <1>8 DEF DocsStand
<1>10. RestFits
  BY <1>2, SyncByParts DEF SyncTypeOK, RestFits
<1> HIDE DEF new
<1> QED
  BY <1>2, <1>3, <1>5, <1>8, <1>9, <1>10, ImportGoesOn

LEMMA MarkKeeps ==
  ASSUME SyncInv, NEW r \in Importers, MarkImported(r) \/ MarkImportFailed(r) \/ MarkLost(r)
  PROVE  SyncInv'
<1> DEFINE i == imports[r]
<1>1. /\ i \in Import /\ items \in [Nodes -> Item] /\ docs \in [SyncedDocs -> Doc]
      /\ i.pc # "idle" => i.node \in Nodes
      /\ i.pc # "saving" => i.row = NoDoc
  BY SyncByParts DEF SyncTypeOK, ImportsFit
<1>2. imports' = [imports EXCEPT ![r] = Idle] /\ UNCHANGED <<source, lastSync, jobs, docs, kbCount, raced>>
  BY DEF MarkImported, MarkImportFailed, MarkLost
<1>3. i.node \in Nodes
  BY <1>1 DEF MarkImported, MarkImportFailed, MarkLost
<1>4. i.doc \in SyncedDocs \cup {NoDoc} /\ items[i.node] \in Item
  BY <1>1, <1>3 DEF Import
<1>5. items' \in [Nodes -> Item]
  <2>1. CASE MarkImported(r)
    <3> DEFINE one == [items[i.node] EXCEPT !.status = "imported"]  new == [one EXCEPT !.doc = i.doc]
    <3>1. items' = [items EXCEPT ![i.node] = new]
      BY <1>1, <2>1 DEF MarkImported
    <3>2. one \in Item
      BY <1>4 DEF Item
    <3> HIDE DEF one
    <3>3. new \in Item
      BY <1>4, <3>2 DEF Item
    <3> HIDE DEF new
    <3> QED
      BY <1>1, <1>3, <3>1, <3>3, ItemsFit
  <2>2. CASE MarkImportFailed(r)
    <3> DEFINE new == [items[i.node] EXCEPT !.status = "failed"]
    <3>1. items' = [items EXCEPT ![i.node] = new]
      BY <2>2 DEF MarkImportFailed
    <3>2. new \in Item
      BY <1>4 DEF Item
    <3> HIDE DEF new
    <3> QED
      BY <1>1, <1>3, <3>1, <3>2, ItemsFit
  <2>3. CASE MarkLost(r)
    BY <1>1, <2>3 DEF MarkLost
  <2> QED
    BY <2>1, <2>2, <2>3
<1>6. syncFaults' \in 0..MaxSyncFaults
  <2>1. UNCHANGED syncFaults \/ Fault
    BY DEF MarkImported, MarkImportFailed, MarkLost
  <2>2. syncFaults \in 0..MaxSyncFaults
    BY SyncByParts DEF SyncTypeOK
  <2> QED
    BY <2>1, <2>2, SyncAssumption DEF Fault
<1>7. RestFits
  BY <1>2, <1>5, <1>6, SyncByParts DEF SyncTypeOK, RestFits
<1>8. DocsStand /\ \A d \in SyncedDocs : docs[d].lock # r => docs'[d].lock = docs[d].lock
  BY <1>1, <1>2 DEF DocsStand
<1>9. Idle \in Import /\ Idle.pc = "idle" /\ Idle.row = NoDoc
  BY DEF Idle, Import
<1> QED
  BY <1>2, <1>7, <1>8, <1>9, ImportGoesOn

\* The process dies: no import is left, and no lock.
LEMMA SyncCrashKeeps ==
  ASSUME SyncInv, SyncCrash PROVE SyncInv'

<1>1. SyncTypeOK /\ docs \in [SyncedDocs -> Doc] /\ ImportsFit
  BY SyncByParts DEF SyncTypeOK
<1>2. DocsStand
  <2>1. \A d \in SyncedDocs : [docs[d] EXCEPT !.lock = NoDoc] \in Doc
    BY <1>1 DEF Doc
  <2>2. docs' = [d \in SyncedDocs |-> [docs[d] EXCEPT !.lock = NoDoc]]
    BY DEF SyncCrash
  <2>3. docs' \in [SyncedDocs -> Doc]
    BY <2>1, <2>2
  <2>4. \A d \in SyncedDocs : /\ docs'[d].state = docs[d].state /\ docs'[d].node = docs[d].node
                              /\ docs'[d].versions = docs[d].versions
    BY <1>1, <2>2 DEF Doc
  <2> QED
    BY <2>3, <2>4 DEF DocsStand
<1>3. imports' \in [Importers -> Import] /\ \A r \in Importers : imports'[r].pc = "idle" /\ imports'[r].row = NoDoc
  BY DEF SyncCrash, Idle, Import
<1>4. SyncTypeOK'
  <2>1. jobs' \in [SyncJobs -> Job]
    <3>1. \A j \in SyncJobs : [jobs[j] EXCEPT !.goroutine = "none", !.todo = {}] \in Job
      BY <1>1 DEF SyncTypeOK, Job
    <3> QED
      BY <3>1 DEF SyncCrash
  <2>2. syncFaults' \in 0..MaxSyncFaults /\ UNCHANGED <<source, lastSync, items, raced>>
    <3>1. syncFaults \in 0..MaxSyncFaults /\ MaxSyncFaults \in Nat
      BY <1>1, SyncAssumption DEF SyncTypeOK
    <3>2. Fault /\ UNCHANGED <<source, lastSync, items, raced>>
      BY DEF SyncCrash
    <3> QED
      BY <3>1, <3>2 DEF Fault
  <2>3. kbCount' = Cardinality({d \in SyncedDocs : IsLive(d)})'
    BY <1>2, LiveStand DEF SyncCrash
  <2> QED
    BY <1>1, <1>2, <1>3, <2>1, <2>2, <2>3 DEF SyncTypeOK, DocsStand
<1>5. LocksHold' /\ InsertsMeetNothing'
  BY <1>3 DEF LocksHold, InsertsMeetNothing, Inserting
<1>6. ImportsFit'
  BY <1>1, <1>2, <1>3, LiveStand DEF SyncCrash, ImportsFit
<1>7. (SyncTypeOK /\ LocksHold /\ InsertsMeetNothing /\ ImportsFit)'
  BY <1>4, <1>5, <1>6
<1> QED
  BY <1>7, SyncByParts, PTL

\* A transaction begins: it locks the row it found, or found none.
LEMMA SaveBegins ==
  ASSUME SyncInv, NEW r \in Importers, SaveLooks(r)
  PROVE  SyncInv'
<1> USE SyncByParts
<1> DEFINE i == imports[r]  n == i.node
<1>1. /\ imports \in [Importers -> Import] /\ i \in Import /\ docs \in [SyncedDocs -> Doc]
      /\ i.pc = "built" /\ n \in Nodes /\ i.doc \in SyncedDocs /\ i.row = NoDoc
  BY DEF SyncTypeOK, ImportsFit, SaveLooks
<1>2. UNCHANGED <<source, lastSync, jobs, items, kbCount, syncFaults>>
  BY DEF SaveLooks
<1>3. SyncTypeOK /\ LocksHold /\ InsertsMeetNothing /\ ImportsFit
  OBVIOUS
<1>4. CASE /\ LiveDocs(n) = {} /\ UNCHANGED docs
           /\ imports' = [imports EXCEPT ![r].pc = "saving"]
           /\ raced' = IF \E q \in Importers \ {r} : /\ imports[q].pc = "saving"
                                                     /\ imports[q].node = n
                                                     /\ imports[q].row = NoDoc
                       THEN raced \cup {n} ELSE raced
  <2> DEFINE new == [i EXCEPT !.pc = "saving"]
  <2>1. new \in Import /\ new.pc = "saving" /\ new.node = n /\ new.doc = i.doc /\ new.row = i.row
    BY <1>1, ImportMoves
  <2>2. imports' = [imports EXCEPT ![r] = new]
    BY <1>4
  <2> HIDE DEF new
  <2>3. imports' \in [Importers -> Import] /\ imports'[r] = new /\ \A q \in Importers \ {r} : imports'[q] = imports[q]
    BY <1>1, <2>1, <2>2
  <2>4. raced \subseteq raced' /\ raced' \subseteq Nodes
    BY <1>1, <1>3, <1>4 DEF SyncTypeOK
  <2>5. DocsStand
    BY <1>1, <1>4 DEF DocsStand
  <2>6. SyncTypeOK'
    BY <1>2, <1>3, <2>3, <2>4, <2>5, LiveStand DEF SyncTypeOK, DocsStand
  <2>8. LocksHold'
    <3>1. \A q \in Importers : imports'[q].pc = "saving" /\ imports'[q].row # NoDoc => imports'[q] = imports[q]
      BY <1>1, <2>1, <2>3
    <3>2. ASSUME NEW q \in Importers, imports'[q].pc = "saving", imports'[q].row # NoDoc
          PROVE  /\ docs'[imports'[q].row].lock = q /\ IsLive(imports[q].row)'
                 /\ docs'[imports'[q].row].node = imports'[q].node
                 /\ docs'[imports'[q].row].versions < MaxVersions
      <4>1. imports[q] = imports'[q] /\ imports[q].pc = "saving" /\ imports[q].row # NoDoc
        BY <3>1, <3>2
      <4>2. /\ docs[imports[q].row].lock = q /\ IsLive(imports[q].row)
            /\ docs[imports[q].row].node = imports[q].node
            /\ docs[imports[q].row].versions < MaxVersions
        BY <1>3, <4>1 DEF LocksHold
      <4> QED
        BY <1>4, <4>1, <4>2 DEF IsLive
    <3> QED
      BY <3>2 DEF LocksHold, IsLive
  <2>9. InsertsMeetNothing'
    <3>1. ASSUME NEW q \in Importers, NEW m \in Nodes \ raced', Inserting(q, m)'
          PROVE  LiveDocs(m) = {} /\ \A p \in Importers : Inserting(p, m)' => p = q
      <4>1. CASE m = n
        <5>1. \A p \in Importers \ {r} : ~(imports[p].pc = "saving" /\ imports[p].node = n /\ imports[p].row = NoDoc)
          BY <1>4, <3>1, <4>1
        <5>2. \A p \in Importers \ {r} : ~Inserting(p, m)'
          BY <2>3, <4>1, <5>1 DEF Inserting
        <5> QED
          BY <1>4, <3>1, <4>1, <5>2
      <4>2. CASE m # n
        <5>1. \A p \in Importers : Inserting(p, m)' => Inserting(p, m)
          BY <2>1, <2>3, <4>2 DEF Inserting
        <5>2. m \in Nodes \ raced
          BY <2>4, <3>1
        <5> QED
          BY <1>3, <3>1, <5>1, <5>2 DEF InsertsMeetNothing
      <4> QED
        BY <4>1, <4>2
    <3>2. \A m : LiveDocs(m)' = LiveDocs(m)
      BY <1>2, <2>5, LiveStand
    <3> QED
      BY <3>1, <3>2 DEF InsertsMeetNothing
  <2>10. ImportsFit'
    <3>1. /\ \A m : LiveDocs(m)' = LiveDocs(m)
          /\ IsFiniteSet({d \in SyncedDocs : IsLive(d)})'
          /\ \A d \in SyncedDocs : docs'[d].state = "unused" => docs'[d].versions = 0
      BY <1>2, <2>5, LiveStand
    <3>2. \A q \in Importers : /\ imports'[q].pc # "idle" => imports'[q].node \in Nodes
                               /\ imports'[q].pc \in {"built", "saving"} => imports'[q].doc \in SyncedDocs
                               /\ imports'[q].pc # "saving" => imports'[q].row = NoDoc
      BY <1>1, <1>3, <2>1, <2>3 DEF ImportsFit
    <3>3. \A m \in Nodes \ raced' : \A d, e \in LiveDocs(m)' : d = e
      BY <1>3, <2>4, <3>1 DEF ImportsFit
    <3> QED
      BY <3>1, <3>2, <3>3 DEF ImportsFit
  <2>11. (SyncTypeOK /\ LocksHold /\ InsertsMeetNothing /\ ImportsFit)'
    BY <2>6, <2>8, <2>9, <2>10
  <2> QED
    BY <2>11, SyncByParts, PTL
<1>5. CASE /\ UNCHANGED raced
           /\ \E d \in LiveDocs(n) :
                 /\ docs[d].lock = NoDoc /\ docs[d].versions < MaxVersions
                 /\ docs' = [docs EXCEPT ![d].lock = r]
                 /\ imports' = [imports EXCEPT ![r].pc = "saving", ![r].row = d]
  <2>1. PICK d \in LiveDocs(n) : /\ docs[d].lock = NoDoc /\ docs[d].versions < MaxVersions
                                 /\ docs' = [docs EXCEPT ![d].lock = r]
                                 /\ imports' = [imports EXCEPT ![r].pc = "saving", ![r].row = d]
    BY <1>5
  <2>2. d \in SyncedDocs /\ docs[d] \in Doc /\ IsLive(d) /\ docs[d].node = n
    BY <1>1, <2>1 DEF LiveDocs
  <2> DEFINE one == [i EXCEPT !.pc = "saving"]  new == [one EXCEPT !.row = d]
             locked == [docs[d] EXCEPT !.lock = r]
  <2>3. imports' = [imports EXCEPT ![r] = new]
    BY <1>1, <2>1
  <2>4. one \in Import /\ one.pc = "saving" /\ one.node = n /\ one.doc = i.doc
    BY <1>1, ImportMoves
  <2> HIDE DEF one
  <2>5. new \in Import /\ new.pc = "saving" /\ new.node = n /\ new.doc = i.doc /\ new.row = d
    BY <2>2, <2>4 DEF Import
  <2> HIDE DEF new
  <2>6. imports' \in [Importers -> Import] /\ imports'[r] = new /\ \A q \in Importers \ {r} : imports'[q] = imports[q]
    BY <1>1, <2>3, <2>5
  <2>7. /\ locked \in Doc /\ locked.state = docs[d].state /\ locked.node = docs[d].node
        /\ locked.versions = docs[d].versions /\ locked.lock = r
    BY <2>2 DEF Doc
  <2>8. docs' = [docs EXCEPT ![d] = locked]
    BY <2>1
  <2> HIDE DEF locked
  <2>9. docs' \in [SyncedDocs -> Doc] /\ docs'[d] = locked /\ \A e \in SyncedDocs \ {d} : docs'[e] = docs[e]
    BY <1>1, <2>2, <2>7, <2>8
  <2>10. DocsStand
    BY <2>7, <2>9 DEF DocsStand
  <2>11. /\ \A m : LiveDocs(m)' = LiveDocs(m)
         /\ \A e \in SyncedDocs : IsLive(e)' <=> IsLive(e)
         /\ kbCount' = Cardinality({e \in SyncedDocs : IsLive(e)})'
         /\ IsFiniteSet({e \in SyncedDocs : IsLive(e)})'
         /\ \A e \in SyncedDocs : docs'[e].state = "unused" => docs'[e].versions = 0
    BY <1>2, <2>10, LiveStand
  <2>12. SyncTypeOK'
    BY <1>2, <1>3, <1>5, <2>6, <2>9, <2>11 DEF SyncTypeOK
  <2>13. LocksHold'
    <3>1. ASSUME NEW q \in Importers, imports'[q].pc = "saving", imports'[q].row # NoDoc
          PROVE  /\ docs'[imports'[q].row].lock = q /\ IsLive(imports[q].row)'
                 /\ docs'[imports'[q].row].node = imports'[q].node
                 /\ docs'[imports'[q].row].versions < MaxVersions
      <4>1. CASE q = r
        <5>1. imports'[q].row = d /\ imports'[q].node = n
          BY <2>5, <2>6, <4>1
        <5>2. IsLive(d)'
          BY <2>2, <2>11
        <5> QED
          BY <2>1, <2>2, <2>7, <2>9, <4>1, <5>1, <5>2 DEF IsLive
      <4>2. CASE q # r
        <5> DEFINE e == imports[q].row
        <5>1. imports'[q] = imports[q] /\ e \in SyncedDocs
          BY <1>1, <2>6, <3>1, <4>2 DEF Import
        <5>2. docs[e].lock = q /\ IsLive(e) /\ docs[e].node = imports[q].node /\ docs[e].versions < MaxVersions
          BY <1>3, <3>1, <5>1 DEF LocksHold
        <5>3. e # d
          BY <2>1, <5>2, SyncAssumption
        <5>4. docs'[e] = docs[e] /\ IsLive(e)'
          BY <2>9, <2>11, <5>1, <5>2, <5>3
        <5> QED
          BY <5>1, <5>2, <5>4 DEF IsLive
      <4> QED
        BY <4>1, <4>2
    <3> QED
      BY <3>1 DEF LocksHold, IsLive
  <2>14. InsertsMeetNothing'
    <3>1. d # NoDoc
      BY <2>2, SyncAssumption
    <3>2. \A q \in Importers : \A m : Inserting(q, m)' => Inserting(q, m)
      BY <2>5, <2>6, <3>1 DEF Inserting
    <3> QED
      BY <1>3, <1>5, <2>11, <3>2 DEF InsertsMeetNothing
  <2>15. ImportsFit'
    BY <1>1, <1>3, <1>5, <2>5, <2>6, <2>11 DEF ImportsFit
  <2>16. (SyncTypeOK /\ LocksHold /\ InsertsMeetNothing /\ ImportsFit)'
    BY <2>12, <2>13, <2>14, <2>15
  <2> QED
    BY <2>16, SyncByParts, PTL
<1> QED
  BY <1>4, <1>5 DEF SaveLooks

\* What a transaction makes of a row.
LEMMA SavedFits ==
  ASSUME NEW d \in Doc, d.versions < MaxVersions, NEW i \in Import
  PROVE  /\ Saved(d, i) \in Doc /\ Saved(d, i).state \in {"ready", "failed"}
         /\ Saved(d, i).node = i.node
<1>1. MaxVersions \in Nat
  BY SyncAssumption
<1>2. d.versions + 1 \in 0..MaxVersions /\ i.node \in Nodes \cup {Root}
  BY <1>1 DEF Doc, Import
<1>3. CASE i.kind = "readable"
  <2> DEFINE d1 == [d EXCEPT !.state = "ready"]  d2 == [d1 EXCEPT !.node = i.node]
             d3 == [d2 EXCEPT !.lock = NoDoc]  d4 == [d3 EXCEPT !.versions = d.versions + 1]
             d5 == [d4 EXCEPT !.chunksOf = d.versions + 1]
  <2>1. Saved(d, i) = d5
    BY <1>3 DEF Saved, Doc
  <2>2. d1 \in Doc /\ d1.state = "ready"
    BY DEF Doc
  <2> HIDE DEF d1
  <2>3. d2 \in Doc /\ d2.state = "ready" /\ d2.node = i.node
    BY <1>2, <2>2 DEF Doc
  <2> HIDE DEF d2
  <2>4. d3 \in Doc /\ d3.state = "ready" /\ d3.node = i.node
    BY <2>3 DEF Doc
  <2> HIDE DEF d3
  <2>5. d4 \in Doc /\ d4.state = "ready" /\ d4.node = i.node
    BY <1>2, <2>4 DEF Doc
  <2> HIDE DEF d4
  <2>6. d5 \in Doc /\ d5.state = "ready" /\ d5.node = i.node
    BY <1>2, <2>5 DEF Doc
  <2> HIDE DEF d5
  <2> QED
    BY <2>1, <2>6
<1>4. CASE i.kind # "readable"
  <2> DEFINE d1 == [d EXCEPT !.state = "failed"]  d2 == [d1 EXCEPT !.node = i.node]
             d3 == [d2 EXCEPT !.lock = NoDoc]
  <2>1. Saved(d, i) = d3
    BY <1>4 DEF Saved
  <2>2. d1 \in Doc /\ d1.state = "failed"
    BY DEF Doc
  <2> HIDE DEF d1
  <2>3. d2 \in Doc /\ d2.state = "failed" /\ d2.node = i.node
    BY <1>2, <2>2 DEF Doc
  <2> HIDE DEF d2
  <2>4. d3 \in Doc /\ d3.state = "failed" /\ d3.node = i.node
    BY <2>3 DEF Doc
  <2> HIDE DEF d3
  <2> QED
    BY <2>1, <2>4
<1> QED
  BY <1>3, <1>4

\* A transaction writes the row d of the node of its import: the one it locked,
\* or a new one.
WritesDoc(r, d, x, new) ==
    /\ docs' = [docs EXCEPT ![d] = x] /\ x.state \in {"ready", "failed"} /\ x.node = imports[r].node
    /\ imports' = [imports EXCEPT ![r] = new]
    /\ new.pc \in {"marking", "failing"} /\ new.node \in Nodes /\ new.row = NoDoc
    /\ UNCHANGED <<source, lastSync, jobs, items, raced, syncFaults>>
    /\ \/ /\ imports[r].row = d /\ imports[r].pc = "saving" /\ d # NoDoc
          /\ UNCHANGED kbCount
       \/ /\ docs[d].state = "unused" /\ Inserting(r, imports[r].node)
          /\ kbCount' = kbCount + 1

LEMMA DocIsWritten ==
  ASSUME SyncInv, NEW r \in Importers, NEW d \in SyncedDocs, NEW x \in Doc, NEW new \in Import,
         WritesDoc(r, d, x, new)
  PROVE  SyncInv'
<1> USE SyncByParts DEF WritesDoc
<1> DEFINE n == imports[r].node  live == {e \in SyncedDocs : IsLive(e)}
<1>1. /\ imports \in [Importers -> Import] /\ docs \in [SyncedDocs -> Doc]
      /\ kbCount = Cardinality(live) /\ IsFiniteSet(live)
  BY DEF SyncTypeOK, ImportsFit
<1>2. SyncTypeOK /\ LocksHold /\ InsertsMeetNothing /\ ImportsFit
  OBVIOUS
<1>3. n \in Nodes /\ imports[r].pc = "saving"
  BY <1>2 DEF ImportsFit, Inserting
<1>4. imports' \in [Importers -> Import] /\ imports'[r] = new /\ \A q \in Importers \ {r} : imports'[q] = imports[q]
  BY <1>1
<1>5. docs' \in [SyncedDocs -> Doc] /\ docs'[d] = x /\ \A e \in SyncedDocs \ {d} : docs'[e] = docs[e]
  BY <1>1
<1>6. IsLive(d)' /\ \A e \in SyncedDocs \ {d} : IsLive(e)' <=> IsLive(e)
  BY <1>5 DEF IsLive
<1>7. /\ IsLive(d) => docs[d].node = n /\ docs[d].lock = r /\ imports[r].row = d /\ UNCHANGED kbCount
      /\ ~IsLive(d) => docs[d].state = "unused" /\ Inserting(r, n) /\ kbCount' = kbCount + 1
  BY <1>2, <1>3 DEF LocksHold, IsLive
<1>8. live' = live \cup {d}
  BY <1>6
<1>9. IsFiniteSet(live') /\ kbCount' = Cardinality(live')
  <2> HIDE DEF live
  <2>1. IsFiniteSet(live \cup {d})
        /\ Cardinality(live \cup {d}) = IF d \in live THEN Cardinality(live) ELSE Cardinality(live) + 1
    BY <1>1, FS_AddElement
  <2>2. d \in live <=> IsLive(d)
    BY DEF live
  <2> QED
    BY <1>1, <1>7, <1>8, <2>1, <2>2
<1>10. SyncTypeOK'
  BY <1>2, <1>4, <1>5, <1>9 DEF SyncTypeOK
<1>11. LocksHold'
  <2>1. ASSUME NEW q \in Importers, imports'[q].pc = "saving", imports'[q].row # NoDoc
        PROVE  /\ docs'[imports'[q].row].lock = q /\ IsLive(imports[q].row)'
               /\ docs'[imports'[q].row].node = imports'[q].node
               /\ docs'[imports'[q].row].versions < MaxVersions
    <3> DEFINE e == imports[q].row
    <3>1. q # r /\ imports'[q] = imports[q] /\ e \in SyncedDocs
      BY <1>1, <1>4, <2>1 DEF Import
    <3>2. docs[e].lock = q /\ IsLive(e) /\ docs[e].node = imports[q].node /\ docs[e].versions < MaxVersions
      BY <1>2, <2>1, <3>1 DEF LocksHold
    <3>3. e # d
      BY <1>7, <3>1, <3>2
    <3>4. docs'[e] = docs[e] /\ IsLive(e)'
      BY <1>5, <1>6, <3>1, <3>2, <3>3
    <3> QED
      BY <3>1, <3>2, <3>4
  <2> QED
    BY <2>1 DEF LocksHold, IsLive
<1>12. \A m : LiveDocs(m)' = IF m = n THEN LiveDocs(m) \cup {d} ELSE LiveDocs(m)
  <2>1. ASSUME NEW m, NEW e \in SyncedDocs
        PROVE  e \in LiveDocs(m)' <=> e \in LiveDocs(m) \/ (m = n /\ e = d)
    <3>1. CASE e = d
      BY <1>5, <1>6, <1>7, <3>1 DEF LiveDocs
    <3>2. CASE e # d
      BY <1>5, <1>6, <3>2 DEF LiveDocs
    <3> QED
      BY <3>1, <3>2
  <2>2. \A m : LiveDocs(m)' \subseteq SyncedDocs /\ LiveDocs(m) \subseteq SyncedDocs
    BY DEF LiveDocs
  <2> QED
    BY <2>1, <2>2
<1>13. \A q \in Importers : \A m : Inserting(q, m)' => Inserting(q, m) /\ q # r
  BY <1>4 DEF Inserting
<1>14. \A m \in Nodes \ raced, q \in Importers : Inserting(q, m)' => m # n \/ LiveDocs(m) # {}
  <2>1. ASSUME NEW q \in Importers, NEW m \in Nodes \ raced, m = n, Inserting(q, m)', LiveDocs(m) = {}
        PROVE  FALSE
    <3>1. ~IsLive(d)
      BY <1>7, <2>1 DEF LiveDocs
    <3>2. Inserting(r, m)
      BY <1>7, <2>1, <3>1
    <3>3. Inserting(q, m) /\ q # r
      BY <1>13, <2>1
    <3> QED
      BY <1>2, <2>1, <3>2, <3>3 DEF InsertsMeetNothing
  <2> QED
    BY <2>1
<1>15. InsertsMeetNothing'
  <2>1. ASSUME NEW q \in Importers, NEW m \in Nodes \ raced, Inserting(q, m)'
        PROVE  LiveDocs(m)' = {} /\ \A p \in Importers : Inserting(p, m)' => p = q
    <3>1. Inserting(q, m) /\ LiveDocs(m) = {} /\ \A p \in Importers : Inserting(p, m) => p = q
      BY <1>2, <1>13, <2>1 DEF InsertsMeetNothing
    <3>2. m # n
      BY <1>14, <2>1, <3>1
    <3> QED
      BY <1>12, <1>13, <3>1, <3>2
  <2> QED
    BY <2>1 DEF InsertsMeetNothing
<1>16. ImportsFit'
  <2>1. \A q \in Importers : /\ imports'[q].pc # "idle" => imports'[q].node \in Nodes
                             /\ imports'[q].pc \in {"built", "saving"} => imports'[q].doc \in SyncedDocs
                             /\ imports'[q].pc # "saving" => imports'[q].row = NoDoc
    BY <1>2, <1>4 DEF ImportsFit
  <2>2. \A e \in SyncedDocs : docs'[e].state = "unused" => docs'[e].versions = 0
    BY <1>2, <1>5 DEF ImportsFit
  <2>3. ASSUME NEW m \in Nodes \ raced PROVE \A e, f \in LiveDocs(m)' : e = f
    <3>1. \A e, f \in LiveDocs(m) : e = f
      BY <1>2 DEF ImportsFit
    <3>2. CASE m # n
      BY <1>12, <3>1, <3>2
    <3>3. CASE m = n /\ IsLive(d)
      BY <1>7, <1>12, <3>1, <3>3 DEF LiveDocs
    <3>4. CASE m = n /\ ~IsLive(d)
      <4>1. LiveDocs(m) = {}
        BY <1>2, <1>3, <1>7, <2>3, <3>4 DEF InsertsMeetNothing
      <4> QED
        BY <1>12, <3>4, <4>1
    <3> QED
      BY <3>2, <3>3, <3>4
  <2> QED
    BY <1>9, <2>1, <2>2, <2>3 DEF ImportsFit
<1>17. (SyncTypeOK /\ LocksHold /\ InsertsMeetNothing /\ ImportsFit)'
  BY <1>10, <1>11, <1>15, <1>16
<1> QED
  BY <1>17, SyncByParts, PTL

LEMMA SaveEnds ==
  ASSUME SyncInv, NEW r \in Importers, SaveCommits(r)
  PROVE  SyncInv'
<1> USE SyncByParts
<1> DEFINE i == imports[r]
           d == IF i.row = NoDoc THEN i.doc ELSE i.row
           step == IF i.kind = "readable" THEN "marking" ELSE "failing"
<1>1. /\ imports \in [Importers -> Import] /\ i \in Import /\ docs \in [SyncedDocs -> Doc]
      /\ i.pc = "saving" /\ i.node \in Nodes /\ d \in SyncedDocs
  BY DEF SyncTypeOK, ImportsFit, SaveCommits, Import
<1>2. UNCHANGED <<source, lastSync, jobs, items, raced, syncFaults>>
  BY DEF SaveCommits
<1>3. CASE i.row = NoDoc /\ docs[d].state # "unused"
  <2> DEFINE new == [i EXCEPT !.pc = "failing"]
  <2>1. new \in Import /\ new.pc = "failing" /\ new.node \in Nodes /\ new.row = NoDoc
    BY <1>1, <1>3, ImportMoves
  <2>2. imports' = [imports EXCEPT ![r] = new] /\ UNCHANGED <<docs, kbCount>>
    BY <1>3 DEF SaveCommits
  <2> HIDE DEF new
  <2> QED
    BY <1>2, <2>1, <2>2, OnlyImports, ImportGoesOn
<1>4. CASE ~(i.row = NoDoc /\ docs[d].state # "unused")
  <2> DEFINE x == Saved(docs[d], i)
             one == [i EXCEPT !.pc = step]  new == [one EXCEPT !.row = NoDoc]
  <2>1. /\ docs' = [docs EXCEPT ![d] = x]
        /\ kbCount' = IF i.row = NoDoc THEN kbCount + 1 ELSE kbCount
        /\ imports' = [imports EXCEPT ![r].pc = step, ![r].row = NoDoc]
    BY <1>4 DEF SaveCommits
  <2>2. imports' = [imports EXCEPT ![r] = new]
    BY <1>1, <2>1
  <2>3. step \in {"marking", "failing"}
    OBVIOUS
  <2> HIDE DEF step
  <2>4. one \in Import /\ one.pc = step /\ one.node \in Nodes
    BY <1>1, <2>3 DEF Import
  <2> HIDE DEF one
  <2>5. new \in Import /\ new.pc = step /\ new.node \in Nodes /\ new.row = NoDoc
    BY <2>4 DEF Import
  <2> HIDE DEF new
  <2>6. docs[d].versions < MaxVersions
    <3>1. CASE i.row = NoDoc
      <4>1. docs[d].versions = 0
        BY <1>1, <1>4, <3>1 DEF ImportsFit
      <4> QED
        BY <4>1, SyncAssumption
    <3>2. CASE i.row # NoDoc
      BY <1>1, <3>2 DEF LocksHold
    <3> QED
      BY <3>1, <3>2
  <2>7. x \in Doc /\ x.state \in {"ready", "failed"} /\ x.node = i.node
    BY <1>1, <2>6, SavedFits
  <2> HIDE DEF x
  <2>8. \/ i.row = d /\ i.pc = "saving" /\ d # NoDoc /\ UNCHANGED kbCount
        \/ docs[d].state = "unused" /\ Inserting(r, i.node) /\ kbCount' = kbCount + 1
    <3>1. CASE i.row = NoDoc
      BY <1>1, <1>4, <2>1, <3>1 DEF Inserting
    <3>2. CASE i.row # NoDoc
      BY <1>1, <2>1, <3>2
    <3> QED
      BY <3>1, <3>2
  <2> HIDE DEF d
  <2>9. WritesDoc(r, d, x, new)
    BY <1>2, <2>1, <2>2, <2>3, <2>5, <2>7, <2>8 DEF WritesDoc
  <2> QED
    BY <1>1, <2>5, <2>7, <2>9, DocIsWritten
<1> QED
  BY <1>3, <1>4

\* A document goes that no transaction has locked.
LEMMA DeleteKeeps ==
  ASSUME SyncInv, NEW d \in SyncedDocs, DeleteSynced(d)
  PROVE  SyncInv'
<1> USE SyncByParts
<1> DEFINE live == {e \in SyncedDocs : IsLive(e)}  gone == [docs[d] EXCEPT !.state = "deleted"]
<1>1. /\ imports \in [Importers -> Import] /\ docs \in [SyncedDocs -> Doc] /\ items \in [Nodes -> Item]
      /\ kbCount = Cardinality(live) /\ IsFiniteSet(live)
  BY DEF SyncTypeOK, ImportsFit
<1>2. SyncTypeOK /\ LocksHold /\ InsertsMeetNothing /\ ImportsFit
  OBVIOUS
<1>3. /\ IsLive(d) /\ docs[d].lock = NoDoc
      /\ docs' = [docs EXCEPT ![d] = gone]
      /\ kbCount' = IF kbCount > 0 THEN kbCount - 1 ELSE 0
      /\ UNCHANGED <<source, lastSync, jobs, imports, raced, syncFaults>>
  BY DEF DeleteSynced
<1>4. gone \in Doc /\ gone.state = "deleted" /\ gone.node = docs[d].node
  BY <1>1 DEF Doc
<1> HIDE DEF gone
<1>5. docs' \in [SyncedDocs -> Doc] /\ docs'[d] = gone /\ \A e \in SyncedDocs \ {d} : docs'[e] = docs[e]
  BY <1>1, <1>3, <1>4
<1>6. ~IsLive(d)' /\ \A e \in SyncedDocs \ {d} : IsLive(e)' <=> IsLive(e)
  BY <1>4, <1>5 DEF IsLive
<1>7. live' = live \ {d} /\ d \in live
  BY <1>3, <1>6
<1>8. IsFiniteSet(live') /\ kbCount' = Cardinality(live')
  <2> HIDE DEF live
  <2>1. IsFiniteSet(live \ {d}) /\ Cardinality(live \ {d}) = Cardinality(live) - 1
    BY <1>1, <1>7, FS_RemoveElement
  <2>2. Cardinality(live \ {d}) \in Nat /\ Cardinality(live) \in Nat
    BY <1>1, <2>1, FS_CardinalityType
  <2> QED
    BY <1>1, <1>3, <1>7, <2>1, <2>2
<1>9. items' \in [Nodes -> Item]
  <2>1. \A n \in Nodes : Unlink(items[n]) \in Item /\ items[n] \in Item
    BY <1>1 DEF Unlink, Item
  <2>2. items' = [n \in Nodes |-> IF items[n].doc = d THEN Unlink(items[n]) ELSE items[n]]
    BY DEF DeleteSynced
  <2> QED
    BY <2>1, <2>2
<1>10. SyncTypeOK'
  BY <1>2, <1>3, <1>5, <1>8, <1>9 DEF SyncTypeOK
<1>11. LocksHold'
  <2>1. ASSUME NEW q \in Importers, imports[q].pc = "saving", imports[q].row # NoDoc
        PROVE  /\ docs'[imports[q].row].lock = q /\ IsLive(imports[q].row)'
               /\ docs'[imports[q].row].node = imports[q].node
               /\ docs'[imports[q].row].versions < MaxVersions
    <3> DEFINE e == imports[q].row
    <3>1. e \in SyncedDocs
      BY <1>1, <2>1 DEF Import
    <3>2. docs[e].lock = q /\ IsLive(e) /\ docs[e].node = imports[q].node /\ docs[e].versions < MaxVersions
      BY <1>2, <2>1 DEF LocksHold
    <3>3. e # d
      BY <1>3, <3>2, SyncAssumption
    <3>4. docs'[e] = docs[e] /\ imports'[q] = imports[q]
      BY <1>3, <1>5, <3>1, <3>3
    <3> QED
      BY <3>2, <3>4 DEF IsLive
  <2> QED
    BY <1>3, <2>1 DEF LocksHold, IsLive
<1>12. \A m : LiveDocs(m)' \subseteq LiveDocs(m)
  BY <1>5, <1>6 DEF LiveDocs
<1>13. InsertsMeetNothing'
  BY <1>2, <1>3, <1>12 DEF InsertsMeetNothing, Inserting
<1>14. ImportsFit'
  <2>1. \A e \in SyncedDocs : docs'[e].state = "unused" => docs'[e].versions = 0
    BY <1>2, <1>4, <1>5 DEF ImportsFit
  <2>2. \A m \in Nodes \ raced' : \A e, f \in LiveDocs(m)' : e = f
    BY <1>2, <1>3, <1>12 DEF ImportsFit
  <2> QED
    BY <1>2, <1>3, <1>8, <2>1, <2>2 DEF ImportsFit
<1>15. (SyncTypeOK /\ LocksHold /\ InsertsMeetNothing /\ ImportsFit)'
  BY <1>10, <1>11, <1>13, <1>14
<1> QED
  BY <1>15, SyncByParts, PTL

\* The invariant is kept.
LEMMA SyncStays == SyncInv /\ [SyncNext]_syncVars => SyncInv'
<1> SUFFICES ASSUME SyncInv, [SyncNext]_syncVars PROVE SyncInv'
  OBVIOUS
<1>1. CASE UNCHANGED syncVars
  <2>1. RestFits /\ UNCHANGED <<docs, imports, kbCount, raced>>
    BY <1>1, SyncByParts DEF syncVars, SyncTypeOK, RestFits
  <2> QED
    BY <2>1, RestSteps
<1>2. CASE SyncNext
  BY <1>2, SourceKeeps, JobKeeps, BeginKeeps, LookUpKeeps, FailureKeeps, MarkKeeps, SaveBegins, SaveEnds,
     DeleteKeeps, SyncCrashKeeps DEF SyncNext, ImportStep
<1> QED
  BY <1>1, <1>2

-----------------------------------------------------------------------------
(* DocumentFiles.                                                          *)

\* The bytes of a request more, and of one less.
LEMMA OneMore ==
  ASSUME NEW S \in SUBSET Requests, NEW r \in Requests \ S, IsFiniteSet(Bytes(S))
  PROVE  /\ IsFiniteSet(Bytes(S \cup {r}))
         /\ Total(S \cup {r}) = Total(S) + Size(r)
<1> DEFINE own == {r} \X (1 .. Size(r))
<1>1. Size(r) \in Nat
  BY FilesAssumption DEF Size
<1>2. IsFiniteSet({r}) /\ Cardinality({r}) = 1
  BY FS_Singleton
<1>3. IsFiniteSet(1 .. Size(r)) /\ Cardinality(1 .. Size(r)) = Size(r)
  <2>1. 1 \in Int /\ Size(r) \in Int
    BY <1>1
  <2>2. IsFiniteSet(1 .. Size(r)) /\ Cardinality(1 .. Size(r)) = IF 1 > Size(r) THEN 0 ELSE Size(r) - 1 + 1
    BY <2>1, FS_Interval
  <2> QED
    BY <1>1, <2>2
<1>4. IsFiniteSet(own) /\ Cardinality(own) = Size(r)
  <2>1. IsFiniteSet(own) /\ Cardinality(own) = Cardinality({r}) * Cardinality(1 .. Size(r))
    BY <1>2, <1>3, FS_Product
  <2> QED
    BY <1>1, <1>2, <1>3, <2>1
<1>5. Bytes(S \cup {r}) = Bytes(S) \cup own
  BY DEF Bytes
<1>6. Bytes(S) \cap own = {}
  BY DEF Bytes
<1>7. IsFiniteSet(Bytes(S) \cup own)
      /\ Cardinality(Bytes(S) \cup own) = Cardinality(Bytes(S)) + Cardinality(own) - Cardinality(Bytes(S) \cap own)
  BY <1>4, FS_Union
<1>8. Cardinality(Bytes(S)) \in Nat /\ Cardinality(Bytes(S) \cap own) = 0
  BY <1>6, FS_CardinalityType, FS_EmptySet
<1> HIDE DEF own
<1>9. Total(S \cup {r}) = Cardinality(Bytes(S) \cup own) /\ Total(S) = Cardinality(Bytes(S))
  BY <1>5 DEF Total
<1>10. Cardinality(own) = Size(r)
  BY <1>4
<1>11. IsFiniteSet(Bytes(S \cup {r}))
  BY <1>5, <1>7
<1> QED
  BY <1>1, <1>7, <1>8, <1>9, <1>10, <1>11

\* The same, read backwards.
LEMMA OneLess ==
  ASSUME NEW S \in SUBSET Requests, NEW r \in S, IsFiniteSet(Bytes(S))
  PROVE  /\ IsFiniteSet(Bytes(S \ {r}))
         /\ Total(S) = Total(S \ {r}) + Size(r)
         /\ Total(S \ {r}) \in Nat
<1> DEFINE T == S \ {r}
<1>1. T \in SUBSET Requests /\ r \in Requests \ T /\ T \cup {r} = S
  OBVIOUS
<1>2. Bytes(T) \subseteq Bytes(S)
  BY DEF Bytes
<1>3. IsFiniteSet(Bytes(T))
  BY <1>2, FS_Subset
<1> HIDE DEF T
<1>4. Total(T \cup {r}) = Total(T) + Size(r)
  BY <1>1, <1>3, OneMore
<1>5. Total(T) \in Nat
  BY <1>3, FS_CardinalityType DEF Total
<1> QED
  BY <1>1, <1>3, <1>4, <1>5 DEF T

LEMMA FilesStart == FilesInit => FilesInv
<1> SUFFICES ASSUME FilesInit PROVE FilesInv
  OBVIOUS
<1>1. Live = {} /\ Uploaded = {} /\ \A r \in Requests : At(r, "new") /\ row[r] = "none"
  BY DEF FilesInit, Live, Uploaded, Uploads, At
<1>2. IsFiniteSet({}) /\ Cardinality({}) = 0
  BY FS_EmptySet
<1>3. Bytes({}) = {}
  BY DEF Bytes
<1>4. Total({}) = 0
  BY <1>2, <1>3 DEF Total
<1>5. FilesTypeOK
  <2>1. request \in [Requests -> Steps] /\ row \in [Requests -> {"none", "live", "deleted"}]
    BY DEF FilesInit, Steps
  <2>2. kb \in [status : {"normal", "deleted"}, source : {"local", "sync"}]
    BY DEF FilesInit
  <2> QED
    BY <1>1, <1>2, <1>4, <2>1, <2>2 DEF FilesInit, FilesTypeOK
<1>6. StoredLies
  BY <1>1, <1>2, <1>3 DEF StoredLies, At
<1> QED
  BY <1>1, <1>4, <1>5, <1>6 DEF FilesInit, FilesInv, FileLostOnlyByFailedUpload, QuotaCountsUploads

\* A request whose file is stored finds it on the disk, and no file is gone but for
\* one that an upload took back.
NoRowIsWritten ==
    /\ request' \in [Requests -> Steps] /\ disk' \subseteq Contents
    /\ kb' \in [status : {"normal", "deleted"}, source : {"local", "sync"}]
    /\ \A r \in Requests :
          /\ request'[r] # request[r] =>
                /\ request'[r] # "done"
                /\ request'[r] = "stored" => Content[r] \in disk'
                /\ request[r] \notin {"done", "removed"}
                /\ request'[r] \in {"writable", "unnamed", "rolling"} => r \in Uploads
          /\ Content[r] \in disk => \/ Content[r] \in disk'
                                    \/ \E q \in Uploads : request'[q] = "removed" /\ Content[q] = Content[r]

\* A step that writes no row.
LEMMA RowsStand ==
  ASSUME FilesInv, NoRowIsWritten, UNCHANGED <<row, used, kbDocs, kbBytes>>
  PROVE  FilesInv'
<1> USE DEF FilesInv
<1>1. Live' = Live /\ Uploaded' = Uploaded
  BY DEF Live, Uploaded, Uploads
<1>2. \A S : Total(S)' = Total(S) /\ Bytes(S)' = Bytes(S)
  BY DEF Total, Bytes, Size
<1>3. FilesTypeOK'
  BY <1>1, <1>2 DEF FilesTypeOK, NoRowIsWritten
<1>4. \A q \in Requests : At(q, "removed") => At(q, "removed")'
  BY DEF NoRowIsWritten, At
<1>5. \A r \in Requests : (Content[r] \in disk \/ \E q \in Uploads : At(q, "removed") /\ Content[q] = Content[r])
         => (Content[r] \in disk' \/ \E q \in Uploads : At(q, "removed")' /\ Content[q] = Content[r])
  BY <1>4 DEF NoRowIsWritten, At, Uploads
<1>6. FileLostOnlyByFailedUpload'
  BY <1>1, <1>5 DEF FileLostOnlyByFailedUpload, Live
<1>7. StoredLies'
  <2>1. IsFiniteSet(Live)' /\ IsFiniteSet(Bytes(Live))' /\ IsFiniteSet(Bytes(Uploaded))'
    BY <1>1, <1>2 DEF StoredLies
  <2>2. ASSUME NEW r \in Requests
        PROVE  /\ At(r, "stored")' => Content[r] \in disk'
                      \/ \E q \in Uploads : At(q, "removed")' /\ Content[q] = Content[r]
               /\ request'[r] \in {"writable", "unnamed", "rolling"} => r \in Uploads
               /\ ~At(r, "done")' => row'[r] = "none"
    BY <1>5 DEF StoredLies, NoRowIsWritten, At
  <2> QED
    BY <2>1, <2>2 DEF StoredLies
<1> QED
  BY <1>1, <1>2, <1>3, <1>6, <1>7 DEF QuotaCountsUploads

\* The steps that write no row.
LEMMA StepWithoutRow ==
  ASSUME FilesInv, NEW r \in Requests,
         FindWritable(r) \/ FindSource(r) \/ CheckName(r) \/ CheckQuota(r) \/ SaveFile(r)
         \/ StoreFails(r) \/ RemoveFile(r) \/ RequestDies(r)
  PROVE  FilesInv'
<1>1. /\ request \in [Requests -> Steps] /\ disk \subseteq Contents
      /\ kb \in [status : {"normal", "deleted"}, source : {"local", "sync"}]
  BY DEF FilesInv, FilesTypeOK
<1>2. \A q \in Requests : request[q] \in {"writable", "unnamed", "rolling"} => q \in Uploads
  BY DEF FilesInv, StoredLies
<1>3. Content[r] \in Contents
  BY DEF Contents
<1>4. ASSUME NEW to, FilesInv, UNCHANGED <<kb, row, disk, used, kbDocs, kbBytes>>, Move(r, to),
             to \in {"writable", "unnamed", "checked", "rolling", "refused", "dead"},
             request[r] \notin {"done", "removed"},
             to \in {"writable", "unnamed", "rolling"} => r \in Uploads
      PROVE  FilesInv'
  <2>1. NoRowIsWritten
    BY <1>1, <1>4 DEF NoRowIsWritten, Move, Steps
  <2> QED
    BY <1>4, <2>1, RowsStand
<1>5. ASSUME FindWritable(r) PROVE FilesInv'
  <2>1. request[r] = "new" /\ UNCHANGED <<kb, row, disk, used, kbDocs, kbBytes>>
    BY <1>5 DEF FindWritable, Check, At
  <2>2. PICK to : /\ Move(r, to) /\ to \in {"writable", "checked", "refused"}
                  /\ to = "writable" => r \in Uploads
    BY <1>5 DEF FindWritable, Check
  <2> QED
    BY <1>4, <2>1, <2>2
<1>6. ASSUME FindSource(r) PROVE FilesInv'
  <2>1. request[r] = "new" /\ UNCHANGED <<kb, row, disk, used, kbDocs, kbBytes>> /\ Move(r, "checked")
    BY <1>6 DEF FindSource, Check, At
  <2> QED
    BY <1>4, <2>1
<1>7. ASSUME CheckName(r) PROVE FilesInv'
  <2>1. request[r] = "writable" /\ UNCHANGED <<kb, row, disk, used, kbDocs, kbBytes>>
    BY <1>7 DEF CheckName, Check, At
  <2>2. PICK to : Move(r, to) /\ to \in {"unnamed", "refused"}
    BY <1>7 DEF CheckName, Check
  <2> QED
    BY <1>2, <1>4, <2>1, <2>2
<1>8. ASSUME CheckQuota(r) PROVE FilesInv'
  <2>1. request[r] = "unnamed" /\ UNCHANGED <<kb, row, disk, used, kbDocs, kbBytes>>
    BY <1>8 DEF CheckQuota, Check, At
  <2>2. PICK to : Move(r, to) /\ to \in {"checked", "refused"}
    BY <1>8 DEF CheckQuota, Check
  <2> QED
    BY <1>4, <2>1, <2>2
<1>9. ASSUME SaveFile(r) PROVE FilesInv'
  <2>1. request[r] = "checked" /\ UNCHANGED <<kb, row, used, kbDocs, kbBytes>>
    BY <1>9 DEF SaveFile, At
  <2>2. \/ disk' = disk \cup {Content[r]} /\ request' = [request EXCEPT ![r] = "stored"]
        \/ disk' = disk /\ request' = [request EXCEPT ![r] = "refused"]
    BY <1>9 DEF SaveFile, Move
  <2>3. NoRowIsWritten
    BY <1>1, <1>3, <2>1, <2>2 DEF NoRowIsWritten, Steps
  <2> QED
    BY <2>1, <2>3, RowsStand
<1>10. ASSUME StoreFails(r) PROVE FilesInv'
  <2>1. request[r] = "stored" /\ UNCHANGED <<kb, row, disk, used, kbDocs, kbBytes>>
    BY <1>10 DEF StoreFails, At
  <2>2. PICK to : Move(r, to) /\ to \in {"rolling", "refused"} /\ (to = "rolling" => r \in Uploads)
    BY <1>10 DEF StoreFails
  <2> QED
    BY <1>4, <2>1, <2>2
<1>11. ASSUME RemoveFile(r) PROVE FilesInv'
  <2>1. request[r] = "rolling" /\ UNCHANGED <<kb, row, used, kbDocs, kbBytes>>
        /\ request' = [request EXCEPT ![r] = "removed"] /\ disk' = disk \ {Content[r]}
    BY <1>11 DEF RemoveFile, At, Move
  <2>2. r \in Uploads
    BY <1>2, <2>1
  <2>3. ASSUME NEW q \in Requests, Content[q] \in disk, Content[q] \notin disk'
        PROVE  r \in Uploads /\ request'[r] = "removed" /\ Content[r] = Content[q]
    BY <1>1, <2>1, <2>2, <2>3
  <2>4. NoRowIsWritten
    <3>1. request' \in [Requests -> Steps] /\ disk' \subseteq Contents
          /\ kb' \in [status : {"normal", "deleted"}, source : {"local", "sync"}]
      BY <1>1, <2>1 DEF Steps
    <3>2. \A q \in Requests : request'[q] # request[q] => q = r /\ request'[q] = "removed" /\ request[q] = "rolling"
      BY <1>1, <2>1
    <3> QED
      BY <2>3, <3>1, <3>2 DEF NoRowIsWritten
  <2> QED
    BY <2>1, <2>4, RowsStand
<1>12. ASSUME RequestDies(r) PROVE FilesInv'
  <2>1. request[r] \notin {"done", "removed"} /\ UNCHANGED <<kb, row, disk, used, kbDocs, kbBytes>> /\ Move(r, "dead")
    BY <1>12 DEF RequestDies
  <2> QED
    BY <1>4, <2>1
<1> QED
  BY <1>5, <1>6, <1>7, <1>8, <1>9, <1>10, <1>11, <1>12

\* The knowledge base itself.
LEMMA KnowledgeBaseStands ==
  ASSUME FilesInv, BindSource \/ DeleteKnowledgeBase
  PROVE  FilesInv'
<1>1. UNCHANGED <<request, row, disk, used, kbDocs, kbBytes>>
  BY DEF BindSource, DeleteKnowledgeBase
<1>2. kb' \in [status : {"normal", "deleted"}, source : {"local", "sync"}]
  <2>1. kb \in [status : {"normal", "deleted"}, source : {"local", "sync"}]
    BY DEF FilesInv, FilesTypeOK
  <2>2. kb' = [kb EXCEPT !.source = "sync"] \/ kb' = [kb EXCEPT !.status = "deleted"]
    BY DEF BindSource, DeleteKnowledgeBase
  <2> QED
    BY <2>1, <2>2
<1>3. NoRowIsWritten
  BY <1>1, <1>2 DEF NoRowIsWritten, FilesInv, FilesTypeOK
<1> QED
  BY <1>1, <1>3, RowsStand

\* A request that is being stored is not among the documents yet, and one more
\* document counts one more.
LEMMA StoreRowKeeps ==
  ASSUME FilesInv, NEW r \in Requests, StoreRow(r)
  PROVE  FilesInv'
<1>1. /\ request \in [Requests -> Steps] /\ row \in [Requests -> {"none", "live", "deleted"}]
      /\ disk \subseteq Contents /\ kb \in [status : {"normal", "deleted"}, source : {"local", "sync"}]
      /\ used \in Nat /\ kbDocs = Cardinality(Live) /\ kbBytes = Total(Live) /\ used = Total(Uploaded)
      /\ IsFiniteSet(Live) /\ IsFiniteSet(Bytes(Live)) /\ IsFiniteSet(Bytes(Uploaded))
  BY DEF FilesInv, FilesTypeOK, QuotaCountsUploads, StoredLies
<1>2. /\ request[r] = "stored" /\ request' = [request EXCEPT ![r] = "done"]
      /\ row' = [row EXCEPT ![r] = "live"]
      /\ kbDocs' = kbDocs + 1 /\ kbBytes' = kbBytes + Size(r)
      /\ used' = IF r \in Uploads THEN used + Size(r) ELSE used
      /\ kb' = kb /\ disk' = disk
  BY DEF StoreRow, At, Move
<1>3. row[r] = "none"
  BY <1>2 DEF FilesInv, StoredLies, At
<1>4. Live' = Live \cup {r} /\ Live \in SUBSET Requests /\ r \in Requests \ Live
  BY <1>1, <1>2, <1>3 DEF Live
<1>5. /\ r \in Uploads => Uploaded' = Uploaded \cup {r}
      /\ r \notin Uploads => Uploaded' = Uploaded
      /\ Uploaded \in SUBSET Requests /\ r \in Requests \ Uploaded
  BY <1>1, <1>2, <1>3 DEF Uploaded, Uploads
<1>6. \A S : Total(S)' = Total(S) /\ Bytes(S)' = Bytes(S)
  BY DEF Total, Bytes, Size
<1>7. IsFiniteSet(Bytes(Live \cup {r})) /\ Total(Live \cup {r}) = Total(Live) + Size(r)
  BY <1>1, <1>4, OneMore
<1>8. IsFiniteSet(Bytes(Uploaded \cup {r})) /\ Total(Uploaded \cup {r}) = Total(Uploaded) + Size(r)
  BY <1>1, <1>5, OneMore
<1>9. IsFiniteSet(Live \cup {r}) /\ Cardinality(Live \cup {r}) = Cardinality(Live) + 1
  BY <1>1, <1>4, FS_AddElement
<1>10. Size(r) \in Nat
  BY FilesAssumption DEF Size
<1>11. FilesTypeOK'
  <2>1. request' \in [Requests -> Steps] /\ row' \in [Requests -> {"none", "live", "deleted"}]
    BY <1>1, <1>2 DEF Steps
  <2>2. used' \in Nat
    BY <1>1, <1>2, <1>10
  <2>3. kbDocs' = Cardinality(Live')
    BY <1>1, <1>2, <1>4, <1>9
  <2>4. kbBytes' = Total(Live)'
    <3>1. Total(Live)' = Total(Live \cup {r})
      BY <1>4 DEF Total, Bytes, Size
    <3> QED
      BY <1>1, <1>2, <1>7, <3>1
  <2> QED
    BY <1>1, <1>2, <2>1, <2>2, <2>3, <2>4 DEF FilesTypeOK
<1>12. QuotaCountsUploads'
  <2>1. CASE r \in Uploads
    <3>1. Total(Uploaded)' = Total(Uploaded \cup {r})
      BY <1>5, <2>1 DEF Total, Bytes, Size
    <3> QED
      BY <1>1, <1>2, <1>8, <2>1, <3>1 DEF QuotaCountsUploads
  <2>2. CASE r \notin Uploads
    <3>1. Total(Uploaded)' = Total(Uploaded)
      BY <1>5, <2>2 DEF Total, Bytes, Size
    <3> QED
      BY <1>1, <1>2, <2>2, <3>1 DEF QuotaCountsUploads
  <2> QED
    BY <2>1, <2>2
<1>13. \A q \in Requests : At(q, "removed") => At(q, "removed")'
  BY <1>1, <1>2 DEF At
<1>14. \A q \in Requests : (Content[q] \in disk \/ \E o \in Uploads : At(o, "removed") /\ Content[o] = Content[q])
         => (Content[q] \in disk' \/ \E o \in Uploads : At(o, "removed")' /\ Content[o] = Content[q])
  BY <1>2, <1>13 DEF Uploads
<1>15. FileLostOnlyByFailedUpload'
  <2>1. \A q \in Live \cup {r} : Content[q] \in disk \/ \E o \in Uploads : At(o, "removed") /\ Content[o] = Content[q]
    BY <1>2 DEF FilesInv, FileLostOnlyByFailedUpload, StoredLies, At
  <2> QED
    BY <1>4, <1>14, <2>1 DEF FileLostOnlyByFailedUpload
<1>16. StoredLies'
  <2>1. IsFiniteSet(Live)' /\ IsFiniteSet(Bytes(Live))' /\ IsFiniteSet(Bytes(Uploaded))'
    <3>1. IsFiniteSet(Live')
      BY <1>4, <1>9
    <3>2. Bytes(Live)' = Bytes(Live \cup {r})
      BY <1>4 DEF Bytes, Size
    <3>3. IsFiniteSet(Bytes(Uploaded))'
      <4>1. CASE r \in Uploads
        <5>1. Bytes(Uploaded)' = Bytes(Uploaded \cup {r})
          BY <1>5, <4>1 DEF Bytes, Size
        <5> QED
          BY <1>8, <5>1
      <4>2. CASE r \notin Uploads
        <5>1. Bytes(Uploaded)' = Bytes(Uploaded)
          BY <1>5, <4>2 DEF Bytes, Size
        <5> QED
          BY <1>1, <5>1
      <4> QED
        BY <4>1, <4>2
    <3> QED
      BY <1>7, <3>1, <3>2, <3>3
  <2>2. ASSUME NEW q \in Requests
        PROVE  /\ At(q, "stored")' => Content[q] \in disk'
                      \/ \E o \in Uploads : At(o, "removed")' /\ Content[o] = Content[q]
               /\ request'[q] \in {"writable", "unnamed", "rolling"} => q \in Uploads
               /\ ~At(q, "done")' => row'[q] = "none"
    <3>1. /\ At(q, "stored") => Content[q] \in disk
                      \/ \E o \in Uploads : At(o, "removed") /\ Content[o] = Content[q]
          /\ request[q] \in {"writable", "unnamed", "rolling"} => q \in Uploads
          /\ ~At(q, "done") => row[q] = "none"
      BY DEF FilesInv, StoredLies
    <3>2. CASE q = r
      BY <1>1, <1>2, <3>2 DEF At
    <3>3. CASE q # r
      <4>1. request'[q] = request[q] /\ row'[q] = row[q]
        BY <1>1, <1>2, <3>3
      <4> QED
        BY <1>14, <3>1, <4>1 DEF At
    <3> QED
      BY <3>2, <3>3
  <2> QED
    BY <2>1, <2>2 DEF StoredLies
<1> QED
  BY <1>11, <1>12, <1>15, <1>16 DEF FilesInv

\* A deleted document is one less; the quota keeps counting it.
LEMMA DeleteDocumentKeeps ==
  ASSUME FilesInv, NEW r \in Requests, DeleteDocument(r)
  PROVE  FilesInv'
<1>1. /\ request \in [Requests -> Steps] /\ row \in [Requests -> {"none", "live", "deleted"}]
      /\ kbDocs = Cardinality(Live) /\ kbBytes = Total(Live)
      /\ IsFiniteSet(Live) /\ IsFiniteSet(Bytes(Live)) /\ IsFiniteSet(Bytes(Uploaded))
  BY DEF FilesInv, FilesTypeOK, QuotaCountsUploads, StoredLies
<1>2. /\ row[r] = "live" /\ row' = [row EXCEPT ![r] = "deleted"]
      /\ kbDocs' = IF kbDocs > 0 THEN kbDocs - 1 ELSE 0
      /\ kbBytes' = IF kbBytes >= Size(r) THEN kbBytes - Size(r) ELSE 0
      /\ kb' = kb /\ request' = request /\ disk' = disk /\ used' = used
  BY DEF DeleteDocument
<1>3. Live' = Live \ {r} /\ Live \in SUBSET Requests /\ r \in Live
  BY <1>1, <1>2 DEF Live
<1>4. Uploaded' = Uploaded
  BY <1>1, <1>2 DEF Uploaded, Uploads
<1>5. Size(r) \in Nat
  BY FilesAssumption DEF Size
<1>6. /\ IsFiniteSet(Bytes(Live \ {r})) /\ Total(Live) = Total(Live \ {r}) + Size(r)
      /\ Total(Live \ {r}) \in Nat
  BY <1>1, <1>3, OneLess
<1>7. IsFiniteSet(Live \ {r}) /\ Cardinality(Live \ {r}) = Cardinality(Live) - 1
  BY <1>1, <1>3, FS_RemoveElement
<1>8. Cardinality(Live) \in Nat /\ Cardinality(Live \ {r}) \in Nat
  BY <1>1, <1>7, FS_CardinalityType
<1>9. kbDocs' = Cardinality(Live')
  <2>1. kbDocs' = Cardinality(Live) - 1
    BY <1>1, <1>2, <1>7, <1>8
  <2> QED
    BY <1>3, <1>7, <2>1
<1>10. kbBytes' = Total(Live)'
  <2>1. Total(Live)' = Total(Live \ {r})
    BY <1>3 DEF Total, Bytes, Size
  <2> HIDE DEF Live
  <2>2. kbBytes' = Total(Live \ {r})
    BY <1>1, <1>2, <1>5, <1>6
  <2> QED
    BY <2>1, <2>2
<1>11. FilesTypeOK'
  <2>1. row' \in [Requests -> {"none", "live", "deleted"}]
    BY <1>1, <1>2
  <2> QED
    BY <1>2, <1>9, <1>10, <2>1 DEF FilesInv, FilesTypeOK
<1>12. QuotaCountsUploads'
  <2>1. Total(Uploaded)' = Total(Uploaded)
    BY <1>4 DEF Total, Bytes, Size
  <2> QED
    BY <1>2, <2>1 DEF FilesInv, QuotaCountsUploads
<1>13. FileLostOnlyByFailedUpload'
  BY <1>2, <1>3 DEF FilesInv, FileLostOnlyByFailedUpload, At
<1>14. StoredLies'
  <2>1. IsFiniteSet(Live)'
    BY <1>3, <1>7
  <2>2. IsFiniteSet(Bytes(Live))'
    <3>1. Bytes(Live)' = Bytes(Live \ {r})
      BY <1>3 DEF Bytes, Size
    <3> QED
      BY <1>6, <3>1
  <2>3. IsFiniteSet(Bytes(Uploaded))'
    <3>1. Bytes(Uploaded)' = Bytes(Uploaded)
      BY <1>4 DEF Bytes, Size
    <3> QED
      BY <1>1, <3>1
  <2>4. At(r, "done")
    BY <1>2 DEF FilesInv, StoredLies
  <2>5. \A q \in Requests : ~At(q, "done") => row'[q] = row[q]
    BY <1>1, <1>2, <2>4
  <2> QED
    BY <1>2, <2>1, <2>2, <2>3, <2>5 DEF FilesInv, StoredLies, At
<1> QED
  BY <1>11, <1>12, <1>13, <1>14 DEF FilesInv

\* Every step.
LEMMA FilesStay == FilesInv /\ [FilesNext]_filesVars => FilesInv'
<1> SUFFICES ASSUME FilesInv, [FilesNext]_filesVars PROVE FilesInv'
  OBVIOUS
<1>1. ASSUME NEW r \in Requests, StoreStep(r) \/ RequestDies(r) \/ DeleteDocument(r) PROVE FilesInv'
  BY <1>1, StepWithoutRow, StoreRowKeeps, DeleteDocumentKeeps DEF StoreStep
<1>2. ASSUME UNCHANGED filesVars PROVE FilesInv'
  <2>1. UNCHANGED <<kb, request, row, disk, used, kbDocs, kbBytes>>
    BY <1>2 DEF filesVars
  <2>2. NoRowIsWritten
    BY <2>1 DEF NoRowIsWritten, FilesInv, FilesTypeOK
  <2> QED
    BY <2>1, <2>2, RowsStand
<1> QED
  BY <1>1, <1>2, KnowledgeBaseStands DEF FilesNext

-----------------------------------------------------------------------------
(* SchemaGuard.                                                            *)

\* The instance has its own copy of the definition.
LEMMA SameCardinality == \A S : Schema!Cardinality(S) = Cardinality(S)
BY DEF Schema!Cardinality, Cardinality, Schema!IsFiniteSet, IsFiniteSet

LEMMA PrefixByIndex ==
  ASSUME NEW S, NEW s \in Seq(S), NEW T, NEW t \in Seq(T)
  PROVE  Schema!IsPrefix(s, t) <=> Len(s) <= Len(t) /\ \A k \in 1 .. Len(s) : s[k] = t[k]
<1>1. CASE Len(s) > Len(t)
  BY <1>1 DEF Schema!IsPrefix
<1>2. CASE Len(s) <= Len(t)
  <2>1. /\ SubSeq(s, 1, Len(s)) = [k \in 1 .. Len(s) |-> s[k]]
        /\ SubSeq(t, 1, Len(s)) = [k \in 1 .. Len(s) |-> t[k]]
    BY <1>2
  <2> QED
    BY <1>2, <2>1 DEF Schema!IsPrefix
<1> QED
  BY <1>1, <1>2

\* As long as no key is an expression, the columns are the keys.
LEMMA PlainColumns ==
  ASSUME NEW S, NEW s \in Seq(S), NEW n \in 0 .. Len(s), \A m \in 1 .. n : s[m] # Schema!Computed
  PROVE  LET c == Schema!ColumnsOf(s) IN
         /\ \E T : c \in Seq(T)
         /\ n <= Len(c) /\ (n = Len(s) => Len(c) = n)
         /\ \A k \in 1 .. n : c[k] = s[k]
<1> DEFINE real == {m \in DOMAIN s : s[m] # Schema!Computed}
           upto(j) == {m \in real : m <= j}
           c == Schema!ColumnsOf(s)
<1>1. DOMAIN s = 1 .. Len(s) /\ Len(s) \in Nat /\ IsFiniteSet(1 .. Len(s)) /\ Cardinality(1 .. Len(s)) = Len(s)
  <2>1. DOMAIN s = 1 .. Len(s) /\ Len(s) \in Nat
    OBVIOUS
  <2>2. \A j \in Nat : IsFiniteSet(1 .. j) /\ Cardinality(1 .. j) = j
    BY FS_Interval
  <2> QED
    BY <2>1, <2>2
<1>2. IsFiniteSet(real) /\ Cardinality(real) \in Nat
  BY <1>1, FS_Subset, FS_CardinalityType
<1>3. \A j \in 1 .. n : upto(j) = 1 .. j
  BY <1>1
<1>4. \A j \in 0 .. n : IsFiniteSet(1 .. j) /\ Cardinality(1 .. j) = j
  BY FS_Interval
<1>5. n <= Cardinality(real)
  <2>1. 1 .. n \subseteq real
    BY <1>1
  <2> QED
    BY <2>1, <1>2, <1>4, FS_Subset
<1>6. n = Len(s) => Cardinality(real) = n
  <2>1. ASSUME n = Len(s) PROVE real = 1 .. n
    BY <1>1, <2>1
  <2> QED
    BY <2>1, <1>4
<1>7. c = [k \in 1 .. Cardinality(real) |-> s[CHOOSE m \in real : Schema!Cardinality(upto(m)) = k]]
  <2>1. c = [k \in 1 .. Schema!Cardinality(real) |-> s[CHOOSE m \in real : Schema!Cardinality(upto(m)) = k]]
    BY DEF Schema!ColumnsOf
  <2> HIDE DEF c, real
  <2> QED
    BY <2>1, SameCardinality
<1>8. \E T : c \in Seq(T)
  <2> DEFINE T == {c[k] : k \in 1 .. Cardinality(real)}
             N == Cardinality(real)
  <2>1. c \in [1 .. N -> T]
    BY <1>7
  <2>2. N \in Nat
    BY <1>2
  <2> HIDE DEF c, N, T
  <2>3. c \in Seq(T)
    BY <2>1, <2>2, SeqDef
  <2> QED
    BY <2>3
<1>10. Len(c) = Cardinality(real)
  <2>1. DOMAIN c = 1 .. Cardinality(real)
    BY <1>7
  <2> HIDE DEF c, real
  <2> QED
    BY <2>1, <1>2, <1>8, LenProperties
<1>9. ASSUME NEW k \in 1 .. n PROVE c[k] = s[k]
  <2>1. k \in real /\ Cardinality(upto(k)) = k
    <3>1. k \in real
      BY <1>1
    <3>2. k \in 0 .. n /\ upto(k) = 1 .. k
      BY <1>3
    <3> QED
      BY <3>1, <3>2, <1>4
  <2>2. ASSUME NEW m \in real, Cardinality(upto(m)) = k PROVE m = k
    <3>1. CASE m <= n
      <4>1. m \in 1 .. n
        BY <1>1, <3>1
      <4>2. m \in 0 .. n /\ upto(m) = 1 .. m
        BY <4>1, <1>3
      <4>3. Cardinality(upto(m)) = m
        BY <4>2, <1>4
      <4> QED
        BY <4>3, <2>2
    <3>2. CASE m > n
      <4>1. 1 .. k \subseteq upto(m) /\ m \in upto(m) /\ m \notin 1 .. k
        BY <1>1, <3>2, <2>2
      <4>2. IsFiniteSet(upto(m)) /\ Cardinality(upto(m)) \in Nat
        BY <1>2, FS_Subset, FS_CardinalityType
      <4>3. 1 .. k # upto(m)
        BY <4>1
      <4>4. k \in 0 .. n /\ Cardinality(1 .. k) = k
        BY <1>4
      <4>5. Cardinality(1 .. k) <= Cardinality(upto(m)) /\ Cardinality(1 .. k) # Cardinality(upto(m))
        BY <4>1, <4>2, <4>3, FS_Subset
      <4> QED
        BY <4>4, <4>5, <2>2
    <3> QED
      BY <3>1, <3>2, <1>1
  <2>3. (CHOOSE m \in real : Schema!Cardinality(upto(m)) = k) = k
    <3>1. \A m \in real : Schema!Cardinality(upto(m)) = k <=> m = k
      BY <2>1, <2>2, SameCardinality
    <3> QED
      BY <3>1, <2>1
  <2>4. k \in 1 .. Cardinality(real)
    BY <1>5, <1>2
  <2> QED
    BY <2>3, <2>4, <1>7
<1> QED
  BY <1>5, <1>6, <1>8, <1>9, <1>10

LEMMA JoinedSequence ==
  ASSUME NEW S, NEW a \in Seq(S), NEW b \in Seq(S)
  PROVE  /\ a \o b \in Seq(S) /\ Len(a \o b) \in Nat /\ Len(a) <= Len(a \o b) /\ Len(a) \in Nat
         /\ b = <<>> => Len(a \o b) = Len(a)
         /\ \A k \in 1 .. Len(a) : (a \o b)[k] = a[k]
<1>1. a \o b \in Seq(S) /\ Len(a \o b) = Len(a) + Len(b)
  BY ConcatProperties
<1>2. \A k \in 1 .. Len(a) + Len(b) : (a \o b)[k] = IF k <= Len(a) THEN a[k] ELSE b[k - Len(a)]
  BY ConcatProperties
<1>3. Len(a) \in Nat /\ Len(b) \in Nat
  OBVIOUS
<1>4. b = <<>> => Len(b) = 0
  OBVIOUS
<1> QED
  BY <1>1, <1>2, <1>3, <1>4

\* What the catalogue shows of an index, in terms of its keys.
LEMMA ColumnsOfIndex ==
  ASSUME NEW i, Schema!IsIndex(i)
  PROVE  LET c == Schema!Definition(i).columns IN
         /\ \E T : c \in Seq(T)
         /\ \A n \in 0 .. Len(i.keys) : (\A m \in 1 .. n : i.keys[m] # Schema!Computed) =>
               n <= Len(c) /\ \A k \in 1 .. n : c[k] = i.keys[k]
         /\ i.included = <<>> /\ Schema!Computed \notin Schema!ToSet(i.keys) =>
               Len(c) = Len(i.keys) /\ \A k \in 1 .. Len(i.keys) : c[k] = i.keys[k]
<1> DEFINE s == i.keys \o i.included
           c == Schema!ColumnsOf(s)
<1>1. i.keys \in Seq(STRING) /\ i.included \in Seq(STRING)
  BY DEF Schema!IsIndex
<1>2. /\ s \in Seq(STRING) /\ Len(s) \in Nat /\ Len(i.keys) <= Len(s) /\ Len(i.keys) \in Nat
      /\ i.included = <<>> => Len(s) = Len(i.keys)
      /\ \A k \in 1 .. Len(i.keys) : s[k] = i.keys[k]
  BY <1>1, JoinedSequence
<1>3. Schema!Definition(i).columns = c
  BY DEF Schema!Definition
<1> HIDE DEF s, c
<1>4. \E T : c \in Seq(T)
  <2>1. Len(s) \in Nat
    BY <1>2
  <2>2. 0 \in 0 .. Len(s) /\ \A m \in 1 .. 0 : s[m] # Schema!Computed
    BY <2>1
  <2> QED
    BY <2>2, <1>2, PlainColumns DEF c
<1>5. ASSUME NEW n \in 0 .. Len(i.keys), \A m \in 1 .. n : i.keys[m] # Schema!Computed
      PROVE  n <= Len(c) /\ (n = Len(s) => Len(c) = n) /\ \A k \in 1 .. n : c[k] = i.keys[k]
  <2>1. n \in 0 .. Len(s) /\ \A m \in 1 .. n : s[m] = i.keys[m]
    <3>1. \A x, y \in Nat : x <= y => \A k \in 0 .. x : k \in 0 .. y /\ 1 .. k \subseteq 1 .. x
      OBVIOUS
    <3> QED
      BY <3>1, <1>2
  <2>2. \A m \in 1 .. n : s[m] # Schema!Computed
    BY <2>1, <1>5
  <2>3. n <= Len(c) /\ (n = Len(s) => Len(c) = n) /\ \A k \in 1 .. n : c[k] = s[k]
    BY <2>1, <2>2, <1>2, PlainColumns DEF c
  <2> QED
    BY <2>1, <2>3
<1>6. ASSUME i.included = <<>>, Schema!Computed \notin Schema!ToSet(i.keys)
      PROVE  Len(c) = Len(i.keys) /\ \A k \in 1 .. Len(i.keys) : c[k] = i.keys[k]
  <2>1. Len(s) = Len(i.keys) /\ Len(i.keys) \in 0 .. Len(i.keys)
    BY <1>2, <1>6
  <2>2. \A m \in 1 .. Len(i.keys) : i.keys[m] # Schema!Computed
    BY <1>1, <1>6, LenProperties DEF Schema!ToSet
  <2> QED
    BY <2>1, <2>2, <1>5
<1> QED
  BY <1>3, <1>4, <1>5, <1>6

\* What is assumed of a declared index.
LEMMA DeclaredIndex ==
  ASSUME NEW d \in Schema!ToSet(Declared)
  PROVE  /\ Schema!IsIndex(d) /\ d.keys \in Seq(STRING) /\ Len(d.keys) \in Nat \ {0}
         /\ d.included = <<>> /\ Schema!Computed \notin Schema!ToSet(d.keys)
         /\ d.unique = FALSE /\ d.name # "column" /\ d.predicate \in DOMAIN NormalForm
         /\ \A m \in 1 .. Len(d.keys) : d.keys[m] # Schema!Computed
         /\ \A e \in Schema!ToSet(Declared) : (e.name = d.name => e = d) /\ (Schema!Serves(e, d) => e = d)
<1>1. /\ Schema!IsIndex(d) /\ d.keys # <<>> /\ d.included = <<>>
      /\ Schema!Computed \notin Schema!ToSet(d.keys) /\ d.unique = FALSE /\ d.name # "column"
      /\ \A e \in Schema!ToSet(Declared) : Schema!Serves(e, d) => e = d
  BY IndexAssumption DEF Schema!SoundDeclarations
<1>2. \A e \in Schema!ToSet(Declared) : e.name = d.name => e = d
  BY IndexAssumption DEF Schema!SoundDeclarations, Schema!NamesDiffer
<1>3. d.keys \in Seq(STRING) /\ d.predicate \in DOMAIN NormalForm
  BY <1>1 DEF Schema!IsIndex
<1>4. Len(d.keys) \in Nat \ {0} /\ DOMAIN d.keys = 1 .. Len(d.keys)
  BY <1>1, <1>3, EmptySeq, LenProperties
<1>5. \A m \in 1 .. Len(d.keys) : d.keys[m] # Schema!Computed
  BY <1>1, <1>4 DEF Schema!ToSet
<1> QED
  BY <1>1, <1>2, <1>3, <1>4, <1>5

\* The query that all of a declared index is for.
LEMMA OwnQuery ==
  ASSUME NEW d \in Schema!ToSet(Declared)
  PROVE  \E q \in Schema!Queries :
            /\ q.table = d.table /\ q.ops = d.ops /\ q.method = d.method
            /\ q.columns = d.keys /\ q.rows = d.predicate /\ Schema!Answers(d, q)
<1> DEFINE q == [table |-> d.table, method |-> d.method, ops |-> d.ops,
                 columns |-> SubSeq(d.keys, 1, Len(d.keys)), rows |-> d.predicate]
<1>1. d.keys \in Seq(STRING) /\ Len(d.keys) \in 1 .. Len(d.keys)
  <2>1. d.keys \in Seq(STRING) /\ Len(d.keys) \in Nat \ {0}
    BY DeclaredIndex
  <2> QED
    BY <2>1
<1>2. q \in Schema!Queries
  <2> DEFINE Of(e) == {[table |-> e.table, method |-> e.method, ops |-> e.ops,
                        columns |-> SubSeq(e.keys, 1, n), rows |-> e.predicate] : n \in 1 .. Len(e.keys)}
  <2>1. q \in Of(d)
    BY <1>1
  <2>2. Schema!Queries = UNION {Of(e) : e \in Schema!ToSet(Declared)}
    BY DEF Schema!Queries
  <2> HIDE DEF Of, q
  <2> QED
    BY <2>1, <2>2
<1>3. SubSeq(d.keys, 1, Len(d.keys)) = d.keys
  BY <1>1, SubSeqFull
<1>4. Schema!IsPrefix(d.keys, d.keys)
  BY <1>1, PrefixByIndex
<1> QED
  BY <1>2, <1>3, <1>4 DEF Schema!Answers

LEMMA DefinitionFields ==
  ASSUME NEW i
  PROVE  /\ Schema!Definition(i).method = i.method /\ Schema!Definition(i).unique = i.unique
         /\ Schema!Definition(i).predicate = NormalForm[i.predicate]
BY DEF Schema!Definition

\* An index that answers the queries of a declared one is taken for it.
LEMMA ServingCovers ==
  ASSUME NEW d \in Schema!ToSet(Declared), NEW i, Schema!IsIndex(i), Schema!Serves(i, d)
  PROVE  i.table = d.table /\ Schema!Covers(Schema!Definition(i), Schema!Definition(d))
<1> DEFINE cd == Schema!Definition(d).columns
           ci == Schema!Definition(i).columns
<1>1. PICK q \in Schema!Queries :
            /\ q.table = d.table /\ q.ops = d.ops /\ q.method = d.method
            /\ q.columns = d.keys /\ q.rows = d.predicate /\ Schema!Answers(d, q)
  BY OwnQuery
<1>2. Schema!Answers(i, q)
  BY <1>1 DEF Schema!Serves
<1>3. /\ i.table = d.table /\ Schema!IsPrefix(d.keys, i.keys)
      /\ i.method = d.method \/ {i.method, d.method} \subseteq {"ivfflat", "hnsw"}
      /\ i.predicate \in {Schema!Whole, d.predicate}
  BY <1>1, <1>2 DEF Schema!Answers
<1>4. Schema!Family(i.method) = Schema!Family(d.method)
  BY <1>3 DEF Schema!Family
<1>5. d.keys \in Seq(STRING) /\ i.keys \in Seq(STRING) /\ Len(d.keys) \in Nat /\ Len(i.keys) \in Nat
  BY DeclaredIndex, LenProperties DEF Schema!IsIndex
<1>6. Len(d.keys) <= Len(i.keys) /\ \A k \in 1 .. Len(d.keys) : d.keys[k] = i.keys[k]
  BY <1>3, <1>5, PrefixByIndex
<1>7. Len(cd) = Len(d.keys) /\ \A k \in 1 .. Len(d.keys) : cd[k] = d.keys[k]
  BY DeclaredIndex, ColumnsOfIndex
<1>8. Len(d.keys) <= Len(ci) /\ \A k \in 1 .. Len(d.keys) : ci[k] = i.keys[k]
  <2>1. Len(d.keys) \in 0 .. Len(i.keys)
    BY <1>5, <1>6
  <2>2. \A m \in 1 .. Len(d.keys) : i.keys[m] # Schema!Computed
    BY <1>6, DeclaredIndex
  <2> QED
    BY <2>1, <2>2, ColumnsOfIndex
<1>9. Schema!IsPrefix(cd, ci)
  <2>1. PICK S : cd \in Seq(S)
    BY DeclaredIndex, ColumnsOfIndex
  <2>2. PICK T : ci \in Seq(T)
    BY ColumnsOfIndex
  <2>3. Len(cd) <= Len(ci) /\ \A k \in 1 .. Len(cd) : cd[k] = ci[k]
    BY <1>6, <1>7, <1>8
  <2> HIDE DEF cd, ci
  <2> QED
    BY <2>1, <2>2, <2>3, PrefixByIndex
<1>10. Schema!Definition(d).unique = FALSE
  BY DeclaredIndex, DefinitionFields
<1>11. Schema!Definition(i).predicate \in
          {NormalForm[Schema!Whole], Schema!Definition(d).predicate}
  BY <1>3, DefinitionFields
<1>12. Schema!Family(Schema!Definition(i).method) = Schema!Family(Schema!Definition(d).method)
  BY <1>4, DefinitionFields
<1> QED
  BY <1>3, <1>9, <1>10, <1>11, <1>12 DEF Schema!Covers

\* An index that is taken for a declared one answers its queries, unless it is
\* misread.
LEMMA CoveringServes ==
  ASSUME NEW d \in Schema!ToSet(Declared), NEW i, Schema!IsIndex(i), i.table = d.table,
         Schema!Covers(Schema!Definition(i), Schema!Definition(d)), ~Schema!Misread(i, d)
  PROVE  Schema!Serves(i, d)
<1> DEFINE cd == Schema!Definition(d).columns
           ci == Schema!Definition(i).columns
<1>1. /\ Schema!Family(i.method) = Schema!Family(d.method)
      /\ Schema!IsPrefix(cd, ci)
      /\ NormalForm[i.predicate] \in {NormalForm[Schema!Whole], NormalForm[d.predicate]}
  BY DefinitionFields DEF Schema!Covers
<1>2. /\ i.included = <<>> /\ Schema!Computed \notin Schema!ToSet(i.keys) /\ i.ops = d.ops
      /\ i.predicate = d.predicate \/ NormalForm[i.predicate] # NormalForm[d.predicate]
  BY DEF Schema!Misread
<1>3. d.keys \in Seq(STRING) /\ i.keys \in Seq(STRING) /\ Len(d.keys) \in Nat /\ Len(i.keys) \in Nat
      /\ i.predicate \in DOMAIN NormalForm
  BY DeclaredIndex, LenProperties DEF Schema!IsIndex
<1>4. Len(cd) = Len(d.keys) /\ \A k \in 1 .. Len(d.keys) : cd[k] = d.keys[k]
  BY DeclaredIndex, ColumnsOfIndex
<1>5. Len(ci) = Len(i.keys) /\ \A k \in 1 .. Len(i.keys) : ci[k] = i.keys[k]
  BY <1>2, ColumnsOfIndex
<1>6. Len(d.keys) <= Len(i.keys) /\ \A k \in 1 .. Len(d.keys) : d.keys[k] = i.keys[k]
  <2>1. PICK S : cd \in Seq(S)
    BY DeclaredIndex, ColumnsOfIndex
  <2>2. PICK T : ci \in Seq(T)
    BY ColumnsOfIndex
  <2>3. Len(cd) <= Len(ci) /\ \A k \in 1 .. Len(cd) : cd[k] = ci[k]
    <3> HIDE DEF cd, ci
    <3> QED
      BY <1>1, <2>1, <2>2, PrefixByIndex
  <2> QED
    BY <2>3, <1>3, <1>4, <1>5
<1>7. i.predicate = Schema!Whole \/ i.predicate = d.predicate
  BY <1>1, <1>2, <1>3, IndexAssumption DEF Schema!SoundDeclarations
<1>8. ASSUME NEW q \in Schema!Queries, Schema!Answers(d, q)
      PROVE  Schema!Answers(i, q)
  <2>0. PICK e \in Schema!ToSet(Declared) : \E n \in 1 .. Len(e.keys) : q.columns = SubSeq(e.keys, 1, n)
    BY DEF Schema!Queries
  <2>1. PICK n \in 1 .. Len(e.keys) : q.columns = SubSeq(e.keys, 1, n)
    BY <2>0
  <2>2. q.columns \in Seq(STRING) /\ Len(q.columns) \in Nat
    <3>1. e.keys \in Seq(STRING) /\ Len(e.keys) \in Nat
      BY DeclaredIndex
    <3>2. \A m \in 1 .. n : e.keys[m] \in STRING
      BY <3>1, ElementOfSeq
    <3> QED
      BY <2>1, <3>1, <3>2, SubSeqProperties, LenProperties
  <2>3. /\ d.table = q.table /\ d.ops = q.ops
        /\ d.method = q.method \/ {d.method, q.method} \subseteq {"ivfflat", "hnsw"}
        /\ Schema!IsPrefix(q.columns, d.keys)
        /\ d.predicate \in {Schema!Whole, q.rows}
    BY <1>8 DEF Schema!Answers
  <2>4. Len(q.columns) <= Len(d.keys) /\ \A k \in 1 .. Len(q.columns) : q.columns[k] = d.keys[k]
    BY <2>2, <2>3, <1>3, PrefixByIndex
  <2>5. Len(q.columns) <= Len(i.keys) /\ \A k \in 1 .. Len(q.columns) : q.columns[k] = i.keys[k]
    BY <2>2, <2>4, <1>3, <1>6
  <2>6. Schema!IsPrefix(q.columns, i.keys)
    BY <2>2, <2>5, <1>3, PrefixByIndex
  <2>7. i.method = q.method \/ {i.method, q.method} \subseteq {"ivfflat", "hnsw"}
    <3>0. i.method # "ann" /\ d.method # "ann"
      BY DeclaredIndex DEF Schema!IsIndex
    <3>1. i.method = d.method \/ {i.method, d.method} \subseteq {"ivfflat", "hnsw"}
      <4>1. /\ Schema!Family(i.method) = IF i.method \in {"ivfflat", "hnsw"} THEN "ann" ELSE i.method
            /\ Schema!Family(d.method) = IF d.method \in {"ivfflat", "hnsw"} THEN "ann" ELSE d.method
        BY DEF Schema!Family
      <4> QED
        BY <1>1, <3>0, <4>1
    <3> QED
      BY <3>1, <2>3
  <2> QED
    BY <1>2, <1>7, <2>3, <2>6, <2>7 DEF Schema!Answers
<1> QED
  BY <1>8 DEF Schema!Serves

LEMMA SchemaStarts == Schema!SchemaInit => Schema!SchemaInv
<1> SUFFICES ASSUME Schema!SchemaInit PROVE Schema!SchemaInv
  OBVIOUS
<1>1. /\ indexes \in Priors /\ column \in Columns
      /\ start = [p \in Starts |-> [pc |-> "list", next |-> 1]]
      /\ said = [p \in Starts |-> [what \in Schema!Reports |-> Schema!Unsaid]]
  BY DEF Schema!SchemaInit
<1>2. Schema!NamesDiffer(indexes) /\ \A i \in indexes : Schema!IsIndex(i)
  BY <1>1, IndexAssumption DEF Schema!SoundDeclarations
<1>3. column \in Nat \cup {Schema!Absent}
  BY <1>1, IndexAssumption DEF Schema!SoundDeclarations
<1>4. Schema!SchemaTypeOK
  BY <1>1, <1>2, <1>3 DEF Schema!SchemaTypeOK
<1>5. Schema!ReadyIndexesServe
  BY <1>1 DEF Schema!ReadyIndexesServe, Schema!Reports
<1>6. Schema!ReadyColumnFits
  BY <1>1 DEF Schema!ReadyColumnFits, Schema!Reports, Schema!Unsaid
<1>7. ASSUME NEW p \in Starts PROVE Schema!Reading(p)
  <2>1. Len(Declared) \in Nat \ {0}
    BY IndexAssumption, EmptySeq, LenProperties DEF Schema!SoundDeclarations
  <2> QED
    BY <1>1, <2>1 DEF Schema!Reading
<1> QED
  BY <1>4, <1>5, <1>6, <1>7 DEF Schema!SchemaInv

\* The index a start is at.
LEMMA IndexAtHand ==
  ASSUME Schema!SchemaInv, NEW p \in Starts, start[p].pc \in {"list", "decide"}
  PROVE  /\ start[p].next \in 1 .. Len(Declared) /\ Len(Declared) \in Nat
         /\ Declared[start[p].next] \in Schema!ToSet(Declared)
<1>1. start[p].next \in 1 .. Len(Declared)
  BY DEF Schema!SchemaInv, Schema!Reading
<1>2. Declared \in Seq(Schema!ToSet(Declared))
  BY IndexAssumption DEF Schema!SoundDeclarations
<1> QED
  BY <1>1, <1>2, ElementOfSeq, LenProperties

\* What holds once it holds of an index: none is dropped.
LEMMA StandsOn ==
  ASSUME NEW d, Schema!Stands(d), indexes \subseteq indexes'
  PROVE  Schema!Stands(d)'
BY DEF Schema!Stands, Schema!Serves, Schema!Answers, Schema!Queries, Schema!Misread,
       Schema!Covers, Schema!Definition

\* A start goes on to its next index.
LEMMA SettlesKeeps ==
  ASSUME Schema!SchemaInv, NEW p \in Starts, start[p].pc \in {"list", "decide"},
         NEW d, d = Declared[start[p].next], NEW result \in {"warned", "ready", "created"}, Schema!Settles(p, result),
         UNCHANGED column, indexes \subseteq indexes',
         indexes' \ indexes \subseteq Schema!ToSet(Declared), Schema!NamesDiffer(indexes)',
         result # "warned" => Schema!Stands(d)'
  PROVE  Schema!SchemaInv'
<1>1. /\ start[p].next \in 1 .. Len(Declared) /\ Len(Declared) \in Nat
      /\ d \in Schema!ToSet(Declared) /\ d.name \in Schema!Reports
  BY IndexAtHand DEF Schema!Reports
<1>2. /\ DOMAIN start = Starts /\ \A i \in indexes : Schema!IsIndex(i)
      /\ column \in Nat \cup {Schema!Absent}
      /\ said \in [Starts -> [Schema!Reports ->
             {Schema!Unsaid, "ready", "created", "warned", "mismatch", "added", "failed"}]]
  BY DEF Schema!SchemaInv, Schema!SchemaTypeOK
<1>3. /\ said' = [said EXCEPT ![p] = [@ EXCEPT ![d.name] = result]]
      /\ start' = [start EXCEPT ![p] = Schema!Follows(p)]
  BY DEF Schema!Settles, Schema!Says
<1>4. /\ \A q \in Starts \ {p} : said'[q] = said[q] /\ start'[q] = start[q]
      /\ \A what \in Schema!Reports \ {d.name} : said'[p][what] = said[p][what]
      /\ said'[p][d.name] = result /\ start'[p] = Schema!Follows(p)
  BY <1>1, <1>2, <1>3
<1>5. Schema!SchemaTypeOK'
  <2>1. \A i \in indexes' : Schema!IsIndex(i)
    BY <1>2, DeclaredIndex
  <2>2. said' \in [Starts -> [Schema!Reports ->
             {Schema!Unsaid, "ready", "created", "warned", "mismatch", "added", "failed"}]]
    BY <1>1, <1>2, <1>3
  <2>3. DOMAIN start' = Starts
    BY <1>2, <1>3
  <2> QED
    BY <1>2, <2>1, <2>2, <2>3 DEF Schema!SchemaTypeOK, Schema!IsIndex
<1>6. Schema!ReadyIndexesServe'
  <2> SUFFICES ASSUME NEW q \in Starts, NEW e \in Schema!ToSet(Declared),
                      said'[q][e.name] \notin {Schema!Unsaid, "warned"}
               PROVE  Schema!Stands(e)'
    BY DEF Schema!ReadyIndexesServe
  <2>1. e.name \in Schema!Reports
    BY DEF Schema!Reports
  <2>2. CASE q = p /\ e = d
    BY <1>4, <2>2
  <2>3. CASE q # p \/ e # d
    <3>1. said'[q][e.name] = said[q][e.name]
      BY <1>1, <1>4, <2>1, <2>3, DeclaredIndex
    <3>2. Schema!Stands(e)
      BY <3>1 DEF Schema!SchemaInv, Schema!ReadyIndexesServe
    <3> QED
      BY <3>2, StandsOn
  <2> QED
    BY <2>2, <2>3
<1>7. Schema!ReadyColumnFits'
  <2>1. d.name # "column" /\ "column" \in Schema!Reports
    BY <1>1, DeclaredIndex DEF Schema!Reports
  <2>2. \A q \in Starts : said'[q]["column"] = said[q]["column"]
    BY <1>4, <2>1
  <2> QED
    BY <2>2 DEF Schema!SchemaInv, Schema!ReadyColumnFits
<1>8. ASSUME NEW q \in Starts PROVE Schema!Reading(q)'
  <2>1. CASE q = p
    <3>1. start'[q].pc \in {"list", "column"} /\ start'[q].next = start[p].next + 1
          /\ (start'[q].pc = "list" => start[p].next < Len(Declared))
      BY <1>4, <2>1 DEF Schema!Follows
    <3> QED
      BY <1>1, <3>1 DEF Schema!Reading
  <2>2. CASE q # p
    <3>1. Schema!Reading(q) /\ start'[q] = start[q]
      BY <1>4, <2>2 DEF Schema!SchemaInv
    <3> QED
      BY <3>1 DEF Schema!Reading
  <2> QED
    BY <2>1, <2>2
<1> QED
  BY <1>5, <1>6, <1>7, <1>8 DEF Schema!SchemaInv

LEMMA ListIndexesKeeps ==
  ASSUME Schema!SchemaInv, NEW p \in Starts, Schema!ListIndexes(p)
  PROVE  Schema!SchemaInv'
<1> DEFINE d == Declared[start[p].next]
<1>1. start[p].pc = "list" /\ UNCHANGED <<indexes, dimensioned, column>>
  BY DEF Schema!ListIndexes
<1>2. CASE Schema!Settles(p, "warned")
  <2>1. Schema!NamesDiffer(indexes)'
    BY <1>1 DEF Schema!SchemaInv, Schema!SchemaTypeOK, Schema!NamesDiffer
  <2> QED
    BY <1>1, <1>2, <2>1, SettlesKeeps
<1>3. CASE /\ start' = [start EXCEPT ![p] =
                 [pc |-> "decide", next |-> @.next, seen |-> {i \in indexes : i.table = d.table}]]
           /\ UNCHANGED said
  <2>1. DOMAIN start = Starts
    BY DEF Schema!SchemaInv, Schema!SchemaTypeOK
  <2>2. /\ start'[p] = [pc |-> "decide", next |-> start[p].next,
                        seen |-> {i \in indexes : i.table = d.table}]
        /\ \A q \in Starts \ {p} : start'[q] = start[q]
        /\ DOMAIN start' = Starts
    BY <1>3, <2>1
  <2>3. Schema!SchemaTypeOK'
    BY <1>1, <1>3, <2>2 DEF Schema!SchemaInv, Schema!SchemaTypeOK, Schema!NamesDiffer
  <2>4. Schema!ReadyIndexesServe'
    BY <1>1, <1>3, StandsOn DEF Schema!SchemaInv, Schema!ReadyIndexesServe
  <2>5. Schema!ReadyColumnFits'
    BY <1>1, <1>3 DEF Schema!SchemaInv, Schema!ReadyColumnFits
  <2>6. ASSUME NEW q \in Starts PROVE Schema!Reading(q)'
    <3>1. CASE q = p
      <4>1. start[p].next \in 1 .. Len(Declared)
        BY <1>1, IndexAtHand
      <4> QED
        BY <1>1, <2>2, <3>1, <4>1 DEF Schema!Reading
    <3>2. CASE q # p
      <4>1. Schema!Reading(q) /\ start'[q] = start[q]
        BY <2>2, <3>2 DEF Schema!SchemaInv
      <4> QED
        BY <1>1, <4>1 DEF Schema!Reading
    <3> QED
      BY <3>1, <3>2
  <2> QED
    BY <2>3, <2>4, <2>5, <2>6 DEF Schema!SchemaInv
<1> QED
  BY <1>2, <1>3 DEF Schema!ListIndexes

\* What the indexes a start read are, and those it did not see.
LEMMA SeenIndexes ==
  ASSUME Schema!SchemaInv, NEW p \in Starts, start[p].pc = "decide"
  PROVE  LET d == Declared[start[p].next] IN
         /\ d \in Schema!ToSet(Declared)
         /\ start[p].seen \subseteq indexes
         /\ \A i \in start[p].seen : i.table = d.table /\ Schema!IsIndex(i)
         /\ \A i \in indexes \ start[p].seen : i.table = d.table => i \in Schema!ToSet(Declared)
<1>1. /\ Declared[start[p].next] \in Schema!ToSet(Declared)
      /\ Schema!Reading(p) /\ \A i \in indexes : Schema!IsIndex(i)
  BY IndexAtHand DEF Schema!SchemaInv, Schema!SchemaTypeOK
<1> QED
  BY <1>1 DEF Schema!Reading

\* What a start found ready stands; so does what it made, or found made.
LEMMA CoveredStands ==
  ASSUME NEW d \in Schema!ToSet(Declared), NEW i \in indexes, Schema!IsIndex(i), i.table = d.table,
         Schema!Covers(Schema!Definition(i), Schema!Definition(d))
  PROVE  Schema!Stands(d)
<1>1. CASE Schema!Misread(i, d)
  BY <1>1 DEF Schema!Stands
<1>2. CASE ~Schema!Misread(i, d)
  <2>1. Schema!Serves(i, d)
    BY <1>2, CoveringServes
  <2> QED
    BY <2>1 DEF Schema!Stands
<1> QED
  BY <1>1, <1>2

LEMMA CreateKeeps ==
  ASSUME Schema!SchemaInv, NEW p \in Starts, start[p].pc = "decide",
         NEW d, d = Declared[start[p].next], Schema!Create(p, d), UNCHANGED column,
         \A i \in start[p].seen : i.name # d.name
  PROVE  Schema!SchemaInv'
<1>1. /\ d \in Schema!ToSet(Declared) /\ start[p].seen \subseteq indexes
      /\ \A i \in indexes \ start[p].seen : i.table = d.table => i \in Schema!ToSet(Declared)
  BY SeenIndexes
<1>2. Schema!NamesDiffer(indexes)
  BY DEF Schema!SchemaInv, Schema!SchemaTypeOK
<1>3. CASE Schema!Settles(p, "warned") /\ UNCHANGED indexes
  <2>1. Schema!NamesDiffer(indexes)'
    BY <1>2, <1>3 DEF Schema!NamesDiffer
  <2> QED
    BY <1>3, <2>1, SettlesKeeps
<1>4. CASE /\ indexes' = IF \E i \in indexes : i.name = d.name THEN indexes ELSE indexes \cup {d}
           /\ Schema!Settles(p, "created")
  <2>1. Schema!NamesDiffer(indexes)'
    BY <1>2, <1>4 DEF Schema!NamesDiffer
  <2>2. indexes \subseteq indexes' /\ indexes' \ indexes \subseteq Schema!ToSet(Declared)
    BY <1>1, <1>4
  <2>3. Schema!Stands(d)'
    <3>1. PICK i \in indexes' : i.name = d.name /\ (i = d \/ i \in indexes)
      BY <1>4
    <3>2. i.table = d.table => i = d
      BY <1>1, <3>1, DeclaredIndex
    <3>3. Schema!Serves(d, d)
      BY DEF Schema!Serves
    <3>4. i = d \/ i.table # d.table
      BY <3>2
    <3>5. CASE i = d
      BY <3>1, <3>3, <3>5 DEF Schema!Stands, Schema!Serves, Schema!Answers, Schema!Queries
    <3>6. CASE i.table # d.table
      BY <3>1, <3>6 DEF Schema!Stands
    <3> QED
      BY <3>4, <3>5, <3>6
  <2> QED
    BY <1>4, <2>1, <2>2, <2>3, SettlesKeeps
<1> QED
  BY <1>3, <1>4 DEF Schema!Create

LEMMA DecideKeeps ==
  ASSUME Schema!SchemaInv, NEW p \in Starts, Schema!Decide(p)
  PROVE  Schema!SchemaInv'
<1> PICK d : d = Declared[start[p].next]
  OBVIOUS
<1> DEFINE named == {i \in start[p].seen : i.name = d.name}
           Cover(is) == \E i \in is : Schema!Covers(Schema!Definition(i), Schema!Definition(d))
<1>1. start[p].pc = "decide" /\ UNCHANGED <<dimensioned, column>>
  BY DEF Schema!Decide
<1>2. IF named = {} /\ ~Cover(start[p].seen) THEN Schema!Create(p, d)
      ELSE /\ Schema!Settles(p, IF named = {} \/ Cover(named) THEN "ready" ELSE "warned")
           /\ UNCHANGED indexes
  BY DEF Schema!Decide
<1>3. CASE named = {} /\ ~Cover(start[p].seen)
  BY <1>1, <1>2, <1>3, CreateKeeps
<1>4. CASE ~(named = {} /\ ~Cover(start[p].seen))
  <2> DEFINE result == IF named = {} \/ Cover(named) THEN "ready" ELSE "warned"
  <2>1. Schema!Settles(p, result) /\ UNCHANGED indexes
    BY <1>2, <1>4
  <2>2. Schema!NamesDiffer(indexes)'
    BY <2>1 DEF Schema!SchemaInv, Schema!SchemaTypeOK, Schema!NamesDiffer
  <2>3. result # "warned" => Schema!Stands(d)'
    <3> SUFFICES ASSUME result # "warned" PROVE Schema!Stands(d)'
      OBVIOUS
    <3>1. PICK i \in start[p].seen : Schema!Covers(Schema!Definition(i), Schema!Definition(d))
      BY <1>4
    <3>2. d \in Schema!ToSet(Declared) /\ i \in indexes /\ Schema!IsIndex(i) /\ i.table = d.table
      BY <1>1, <3>1, SeenIndexes
    <3>3. Schema!Stands(d)
      BY <3>1, <3>2, CoveredStands
    <3> QED
      BY <3>3, <2>1, StandsOn
  <2> QED
    <3> HIDE DEF named, Cover
    <3> QED
      BY <1>1, <2>1, <2>2, <2>3, SettlesKeeps
<1> QED
  BY <1>3, <1>4

\* A start that judges the column is up; what others were told of it still holds.
LEMMA JudgesKeeps ==
  ASSUME Schema!SchemaInv, NEW p \in Starts, UNCHANGED indexes,
         NEW result \in {"warned", "ready", "mismatch", "added", "failed"}, Schema!Judges(p, result),
         \/ column' = column
         \/ column = Schema!Absent /\ column' = Want[p] /\ Want[p] > 0,
         result = "ready" /\ Want[p] > 0 => column' = Want[p],
         result = "added" /\ Want[p] > 0 => column' \in {Want[q] : q \in Starts}
  PROVE  Schema!SchemaInv'
<1>1. /\ said' = [said EXCEPT ![p] = [@ EXCEPT !["column"] = result]]
      /\ start' = [start EXCEPT ![p] = [pc |-> "up"]]
  BY DEF Schema!Judges, Schema!Says
<1>2. /\ DOMAIN start = Starts /\ \A i \in indexes : Schema!IsIndex(i)
      /\ Schema!NamesDiffer(indexes) /\ column \in Nat \cup {Schema!Absent}
      /\ said \in [Starts -> [Schema!Reports ->
             {Schema!Unsaid, "ready", "created", "warned", "mismatch", "added", "failed"}]]
  BY DEF Schema!SchemaInv, Schema!SchemaTypeOK
<1>3. "column" \in Schema!Reports /\ Schema!Absent = -1 /\ \A q \in Starts : Want[q] \in Nat
  BY IndexAssumption DEF Schema!Reports, Schema!Absent, Schema!SoundDeclarations
<1>4. /\ \A q \in Starts \ {p} : said'[q] = said[q] /\ start'[q] = start[q]
      /\ \A what \in Schema!Reports \ {"column"} : said'[p][what] = said[p][what]
      /\ said'[p]["column"] = result /\ start'[p] = [pc |-> "up"]
  BY <1>1, <1>2, <1>3
<1>5. Schema!SchemaTypeOK'
  <2>1. said' \in [Starts -> [Schema!Reports ->
             {Schema!Unsaid, "ready", "created", "warned", "mismatch", "added", "failed"}]]
    BY <1>1, <1>2, <1>3
  <2>2. column' \in Nat \cup {Schema!Absent}
    BY <1>2, <1>3
  <2>3. DOMAIN start' = Starts
    BY <1>1, <1>2
  <2> QED
    BY <1>2, <2>1, <2>2, <2>3 DEF Schema!SchemaTypeOK, Schema!NamesDiffer
<1>6. Schema!ReadyIndexesServe'
  <2> SUFFICES ASSUME NEW q \in Starts, NEW e \in Schema!ToSet(Declared),
                      said'[q][e.name] \notin {Schema!Unsaid, "warned"}
               PROVE  Schema!Stands(e)'
    BY DEF Schema!ReadyIndexesServe
  <2>1. e.name \in Schema!Reports /\ e.name # "column"
    BY DeclaredIndex DEF Schema!Reports
  <2>2. said'[q][e.name] = said[q][e.name]
    BY <1>4, <2>1
  <2>3. Schema!Stands(e)
    BY <2>2 DEF Schema!SchemaInv, Schema!ReadyIndexesServe
  <2> QED
    BY <2>3, StandsOn
<1>7. ASSUME NEW q \in Starts, column \in {Want[r] : r \in Starts} PROVE column' = column
  BY <1>3, <1>7
<1>8. Schema!ReadyColumnFits'
  <2> SUFFICES ASSUME NEW q \in Starts, Want[q] > 0
               PROVE  /\ said'[q]["column"] = "ready" => column' = Want[q]
                      /\ said'[q]["column"] = "added" => column' \in {Want[r] : r \in Starts}
    BY DEF Schema!ReadyColumnFits
  <2>1. CASE q = p
    BY <1>4, <2>1
  <2>2. CASE q # p
    <3>1. /\ said[q]["column"] = "ready" => column = Want[q]
          /\ said[q]["column"] = "added" => column \in {Want[r] : r \in Starts}
      BY DEF Schema!SchemaInv, Schema!ReadyColumnFits
    <3> QED
      BY <1>4, <1>7, <2>2, <3>1
  <2> QED
    BY <2>1, <2>2
<1>9. ASSUME NEW q \in Starts PROVE Schema!Reading(q)'
  <2>1. CASE q = p
    BY <1>4, <2>1 DEF Schema!Reading
  <2>2. CASE q # p
    <3>1. Schema!Reading(q) /\ start'[q] = start[q]
      BY <1>4, <2>2 DEF Schema!SchemaInv
    <3> QED
      BY <3>1 DEF Schema!Reading
  <2> QED
    BY <2>1, <2>2
<1> QED
  BY <1>5, <1>6, <1>8, <1>9 DEF Schema!SchemaInv

LEMMA ReadColumnKeeps ==
  ASSUME Schema!SchemaInv, NEW p \in Starts, Schema!ReadColumn(p)
  PROVE  Schema!SchemaInv'
<1>1. start[p].pc = "column" /\ UNCHANGED indexes /\ UNCHANGED column
  BY DEF Schema!ReadColumn
<1>2. CASE column # Schema!Absent /\ Schema!Judges(p, Schema!Verdict(p, column))
  <2>1. Schema!Verdict(p, column) \in {"warned", "mismatch", "ready"}
    BY DEF Schema!Verdict
  <2>2. Schema!Verdict(p, column) = "ready" /\ Want[p] > 0 => column = Want[p]
    BY DEF Schema!Verdict
  <2> QED
    BY <1>1, <1>2, <2>1, <2>2, JudgesKeeps
<1>3. CASE Schema!Judges(p, "warned")
  BY <1>1, <1>3, JudgesKeeps
<1>4. CASE Schema!Judges(p, "failed")
  BY <1>1, <1>4, JudgesKeeps
<1>5. CASE /\ column = Schema!Absent /\ Want[p] > 0
           /\ start' = [start EXCEPT ![p] = [pc |-> "add"]] /\ UNCHANGED said
  <2>1. DOMAIN start = Starts
    BY DEF Schema!SchemaInv, Schema!SchemaTypeOK
  <2>2. /\ start'[p] = [pc |-> "add"] /\ DOMAIN start' = Starts
        /\ \A q \in Starts \ {p} : start'[q] = start[q]
    BY <1>5, <2>1
  <2>3. Schema!SchemaTypeOK'
    BY <1>1, <1>5, <2>2 DEF Schema!SchemaInv, Schema!SchemaTypeOK, Schema!NamesDiffer
  <2>4. Schema!ReadyIndexesServe'
    BY <1>1, <1>5, StandsOn DEF Schema!SchemaInv, Schema!ReadyIndexesServe
  <2>5. Schema!ReadyColumnFits'
    BY <1>1, <1>5 DEF Schema!SchemaInv, Schema!ReadyColumnFits
  <2>6. ASSUME NEW q \in Starts PROVE Schema!Reading(q)'
    <3>1. CASE q = p
      BY <1>1, <1>5, <2>2, <3>1 DEF Schema!Reading
    <3>2. CASE q # p
      <4>1. Schema!Reading(q) /\ start'[q] = start[q]
        BY <2>2, <3>2 DEF Schema!SchemaInv
      <4> QED
        BY <1>1, <4>1 DEF Schema!Reading
    <3> QED
      BY <3>1, <3>2
  <2> QED
    BY <2>3, <2>4, <2>5, <2>6 DEF Schema!SchemaInv
<1> QED
  BY <1>2, <1>3, <1>4, <1>5 DEF Schema!ReadColumn

LEMMA AddColumnKeeps ==
  ASSUME Schema!SchemaInv, NEW p \in Starts, Schema!AddColumn(p)
  PROVE  Schema!SchemaInv'
<1>1. start[p].pc = "add" /\ UNCHANGED indexes
  BY DEF Schema!AddColumn
<1>2. Want[p] > 0 /\ column \in {Schema!Absent} \cup {Want[q] : q \in Starts}
  BY <1>1 DEF Schema!SchemaInv, Schema!Reading
<1>3. CASE /\ column' = (IF column = Schema!Absent THEN Want[p] ELSE column)
           /\ Schema!Judges(p, "added")
  <2>1. column' = column \/ (column = Schema!Absent /\ column' = Want[p])
    BY <1>3
  <2>2. column' \in {Want[q] : q \in Starts}
    BY <1>2, <1>3
  <2> QED
    BY <1>1, <1>2, <1>3, <2>1, <2>2, JudgesKeeps
<1>4. CASE Schema!Judges(p, "failed") /\ UNCHANGED column
  BY <1>1, <1>4, JudgesKeeps
<1> QED
  BY <1>3, <1>4 DEF Schema!AddColumn

LEMMA SchemaStays == Schema!SchemaInv /\ [Schema!SchemaNext]_schemaVars => Schema!SchemaInv'
<1> SUFFICES ASSUME Schema!SchemaInv, [Schema!SchemaNext]_schemaVars PROVE Schema!SchemaInv'
  OBVIOUS
<1>1. CASE UNCHANGED schemaVars
  BY <1>1 DEF schemaVars, Schema!SchemaInv, Schema!SchemaTypeOK, Schema!NamesDiffer, Schema!IsIndex,
              Schema!ReadyIndexesServe, Schema!ReadyColumnFits, Schema!Reading, Schema!Stands
<1>2. ASSUME NEW p \in Starts, Schema!ListIndexes(p) PROVE Schema!SchemaInv'
  BY <1>2, ListIndexesKeeps
<1>3. ASSUME NEW p \in Starts, Schema!Decide(p) PROVE Schema!SchemaInv'
  BY <1>3, DecideKeeps
<1>4. ASSUME NEW p \in Starts, Schema!ReadColumn(p) PROVE Schema!SchemaInv'
  BY <1>4, ReadColumnKeeps
<1>5. ASSUME NEW p \in Starts, Schema!AddColumn(p) PROVE Schema!SchemaInv'
  BY <1>5, AddColumnKeeps
<1> QED
  BY <1>1, <1>2, <1>3, <1>4, <1>5 DEF Schema!SchemaNext

\* A start makes an index only if none it saw is taken for it; the others it did
\* not see are declared, and of those none serves another.
LEMMA NextAddsNoSecond ==
  Schema!SchemaInv /\ [Schema!SchemaNext]_schemaVars => Schema!NoSecondIndex
<1> SUFFICES ASSUME Schema!SchemaInv, [Schema!SchemaNext]_schemaVars PROVE Schema!NoSecondIndex
  OBVIOUS
<1>1. CASE UNCHANGED indexes
  BY <1>1 DEF Schema!NoSecondIndex
<1>2. ASSUME NEW p \in Starts, Schema!Decide(p) PROVE Schema!NoSecondIndex
  <2> PICK d : d = Declared[start[p].next]
    OBVIOUS
  <2> DEFINE Cover(is) == \E i \in is : Schema!Covers(Schema!Definition(i), Schema!Definition(d))
  <2>1. /\ start[p].pc = "decide"
        /\ \/ UNCHANGED indexes
           \/ Schema!Create(p, d) /\ ~Cover(start[p].seen)
    BY <1>2 DEF Schema!Decide
  <2>2. /\ d \in Schema!ToSet(Declared)
        /\ \A i \in indexes \ start[p].seen : i.table = d.table => i \in Schema!ToSet(Declared)
    BY <2>1, SeenIndexes
  <2>3. \A i \in indexes : Schema!IsIndex(i)
    BY DEF Schema!SchemaInv, Schema!SchemaTypeOK
  <2>4. ASSUME ~Cover(start[p].seen), NEW i \in indexes, Schema!Serves(i, d) PROVE d \in indexes
    <3>1. i.table = d.table /\ Schema!Covers(Schema!Definition(i), Schema!Definition(d))
      BY <2>2, <2>3, <2>4, ServingCovers
    <3>2. i \in Schema!ToSet(Declared)
      BY <2>2, <2>4, <3>1
    <3> QED
      BY <2>2, <2>4, <3>2, DeclaredIndex
  <2>5. indexes' \ indexes \subseteq {d} \ indexes
    BY <2>1 DEF Schema!Create
  <2> QED
    BY <1>1, <2>1, <2>4, <2>5 DEF Schema!NoSecondIndex
<1> QED
  BY <1>1, <1>2 DEF Schema!SchemaNext, Schema!ListIndexes, Schema!ReadColumn, Schema!AddColumn, schemaVars

-----------------------------------------------------------------------------
(* DeployedTemplate.                                                       *)

LEMMA PresetStarts == Presets!PresetInit => Presets!PresetInv
<1> SUFFICES ASSUME Presets!PresetInit PROVE Presets!PresetInv
  OBVIOUS
<1> USE DEF Presets!PresetInit
<1>1. ~Presets!Exists
  BY DEF Presets!Exists
<1>2. Presets!PresetTypeOK /\ Presets!TemplateStands
  BY <1>1 DEF Presets!PresetTypeOK, Presets!TemplateStands
<1>3. Presets!FormsAreDated /\ Presets!PromisesAreKept
  BY <1>1 DEF Presets!FormsAreDated, Presets!PromisesAreKept
<1> QED
  BY <1>2, <1>3 DEF Presets!PresetInv

\* A start keeps the limits and the switch of an administrator, and makes the
\* forms that were read before it too old to be saved.
LEMMA LoadTemplateKeeps ==
  ASSUME Presets!PresetInv, preset.version < MaxWrites, NEW p \in Starts, Presets!LoadTemplate(p)
  PROVE  Presets!PresetInv'
<1> USE StartAssumption DEF Presets!PresetInv
<1>1. up' = [up EXCEPT ![p] = TRUE] /\ UNCHANGED form /\ up' \in [Starts -> BOOLEAN] /\ DOMAIN up' = Starts
  BY DEF Presets!LoadTemplate, Presets!PromisesAreKept
<1>2. CASE UNCHANGED <<preset, promised>>
  <2>1. Presets!PresetTypeOK' /\ Presets!TemplateStands'
    BY <1>1, <1>2 DEF Presets!PresetTypeOK, Presets!TemplateStands, Presets!Exists
  <2>2. Presets!FormsAreDated'
    BY <1>1, <1>2 DEF Presets!FormsAreDated, Presets!Exists, Presets!PresetRow, Presets!SameVersion
  <2>3. Presets!PromisesAreKept'
    BY <1>1, <1>2 DEF Presets!PromisesAreKept, Presets!Exists
  <2> QED
    BY <2>1, <2>2, <2>3
<1>3. CASE ~UNCHANGED <<preset, promised>>
  <2> DEFINE keeps == Presets!Exists /\ preset.admin
             o == Presets!Exists => preset.on
  <2>1. /\ preset' = [url |-> InFile[p].url, limit |-> IF keeps THEN preset.limit ELSE InFile[p].limit,
                      admin |-> keeps, on |-> o, version |-> preset.version + 1]
        /\ promised' = [promised EXCEPT !.url = InFile[p].url]
    BY <1>3 DEF Presets!LoadTemplate, Presets!Connection
  <2>2. /\ preset.version \in 0 .. MaxWrites - 1
        /\ Presets!Exists => preset.on = promised.on /\ preset.on \in BOOLEAN /\ preset.admin \in BOOLEAN
        /\ ~Presets!Exists => promised.on
        /\ promised.limit # Presets!Unset => keeps /\ preset.limit = promised.limit
        /\ promised = [url |-> promised.url, limit |-> promised.limit, on |-> promised.on]
    BY DEF Presets!PresetTypeOK, Presets!TemplateStands, Presets!FormsAreDated, Presets!PromisesAreKept,
           Presets!Exists, Presets!NoRow
  <2>3. o = promised'.on /\ o \in BOOLEAN /\ keeps \in BOOLEAN
    BY <2>1, <2>2
  <2>4. /\ preset'.url = promised'.url /\ preset'.on = promised'.on /\ preset'.on \in BOOLEAN
        /\ preset'.version = preset.version + 1 /\ preset'.version \in 1 .. MaxWrites
        /\ preset'.admin = keeps /\ promised'.limit = promised.limit
        /\ promised.limit # Presets!Unset => preset'.limit = promised'.limit
        /\ promised' = [url |-> promised'.url, limit |-> promised'.limit, on |-> promised'.on]
        /\ preset' # Presets!NoRow
    BY <2>1, <2>2, <2>3 DEF Presets!NoRow
  <2>5. (Presets!Exists)'
    BY <2>4 DEF Presets!Exists
  <2>6. Presets!PresetTypeOK' /\ Presets!TemplateStands' /\ Presets!PromisesAreKept'
    BY <1>1, <2>2, <2>4, <2>5
       DEF Presets!PresetTypeOK, Presets!TemplateStands, Presets!PromisesAreKept
  <2>7. Presets!PresetRow(preset)' /\ preset'.admin \in BOOLEAN
    BY <2>1, <2>3, <2>4 DEF Presets!PresetRow
  <2>8. ASSUME NEW f \in Forms, form'[f] # Presets!NoForm
        PROVE  LET read == form'[f].row IN
               /\ form'[f] = [pc |-> "save", row |-> read] /\ Presets!PresetRow(read)
               /\ read.on \in BOOLEAN /\ read.admin \in BOOLEAN
               /\ read.version \in 1 .. MaxWrites - 1 /\ read.version <= preset'.version
               /\ preset'.version # read.version
    BY <1>1, <2>2, <2>4, <2>8 DEF Presets!FormsAreDated
  <2>9. Presets!FormsAreDated'
    BY <1>1, <2>4, <2>5, <2>7, <2>8 DEF Presets!FormsAreDated, Presets!SameVersion
  <2> QED
    BY <2>6, <2>9
<1> QED
  BY <1>2, <1>3

LEMMA StartAgainKeeps ==
  ASSUME Presets!PresetInv, NEW p \in Starts, Presets!StartAgain(p)
  PROVE  Presets!PresetInv'
<1> USE DEF Presets!PresetInv, Presets!StartAgain
<1>1. Presets!PresetTypeOK' /\ Presets!TemplateStands'
  BY DEF Presets!PresetTypeOK, Presets!TemplateStands, Presets!Exists
<1>2. Presets!FormsAreDated'
  BY DEF Presets!FormsAreDated, Presets!Exists, Presets!PresetRow, Presets!SameVersion
<1>3. Presets!PromisesAreKept'
  BY DEF Presets!PromisesAreKept, Presets!Exists
<1> QED
  BY <1>1, <1>2, <1>3

\* A form shows the row as it is now.
LEMMA OpenFormKeeps ==
  ASSUME Presets!PresetInv, preset.version < MaxWrites, NEW f \in Forms, Presets!OpenForm(f)
  PROVE  Presets!PresetInv'
<1> USE StartAssumption DEF Presets!PresetInv
<1>1. PICK new : /\ form' = [form EXCEPT ![f] = [pc |-> "save", row |-> new]]
                 /\ \/ \E l \in Limits : new = [preset EXCEPT !.limit = l, !.admin = TRUE]
                    \/ new = [preset EXCEPT !.on = ~@]
  BY DEF Presets!OpenForm
<1>2. Presets!Exists /\ UNCHANGED <<preset, up, promised>>
  BY DEF Presets!OpenForm
<1>3. /\ preset = [url |-> preset.url, limit |-> preset.limit, admin |-> preset.admin,
                   on |-> preset.on, version |-> preset.version]
      /\ preset.version \in 1 .. MaxWrites - 1 /\ preset.admin \in BOOLEAN /\ preset.on \in BOOLEAN
  <2>1. Presets!PresetRow(preset) /\ preset.version \in 1 .. MaxWrites /\ preset.admin \in BOOLEAN
    BY <1>2 DEF Presets!FormsAreDated
  <2>2. preset.on \in BOOLEAN
    BY <1>2 DEF Presets!PresetTypeOK
  <2>3. preset.version \in 1 .. MaxWrites - 1
    <3>1. \A v \in 1 .. MaxWrites : v < MaxWrites => v \in 1 .. MaxWrites - 1
      OBVIOUS
    <3> QED
      BY <2>1, <3>1
  <2> QED
    BY <2>1, <2>2, <2>3 DEF Presets!PresetRow
<1>4. /\ Presets!PresetRow(new) /\ new.url = preset.url /\ new.version = preset.version
      /\ new.admin \in BOOLEAN /\ new.on \in BOOLEAN
      /\ ~new.admin => ~preset.admin /\ new.limit = preset.limit
  <2>1. CASE new = [preset EXCEPT !.on = ~@]
    <3>1. new = [url |-> preset.url, limit |-> preset.limit, admin |-> preset.admin,
                 on |-> ~preset.on, version |-> preset.version]
      BY <1>3, <2>1
    <3> QED
      BY <1>3, <3>1 DEF Presets!PresetRow
  <2>2. ASSUME NEW l \in Limits, new = [preset EXCEPT !.limit = l, !.admin = TRUE]
        PROVE  new = [url |-> preset.url, limit |-> l, admin |-> TRUE,
                      on |-> preset.on, version |-> preset.version]
    BY <1>3, <2>2
  <2> QED
    BY <1>1, <1>3, <2>1, <2>2 DEF Presets!PresetRow
<1>5. Presets!PresetTypeOK' /\ Presets!TemplateStands' /\ Presets!PromisesAreKept'
  BY <1>2 DEF Presets!PresetTypeOK, Presets!TemplateStands, Presets!PromisesAreKept, Presets!Exists
<1>6. ASSUME NEW g \in Forms, form'[g] # Presets!NoForm
      PROVE  LET read == form'[g].row IN
             /\ form'[g] = [pc |-> "save", row |-> read] /\ Presets!PresetRow(read)
             /\ read.on \in BOOLEAN /\ read.admin \in BOOLEAN
             /\ read.version \in 1 .. MaxWrites - 1 /\ read.version <= preset.version
             /\ preset.version = read.version => read.url = preset.url /\ (~read.admin => ~preset.admin)
             /\ preset.version = read.version /\ promised.limit # Presets!Unset /\ ~read.admin
                   => read.limit = preset.limit
  <2>1. CASE g = f
    <3>1. form'[g] = [pc |-> "save", row |-> new]
      BY <1>1, <2>1 DEF Presets!FormsAreDated
    <3>2. form'[g].row = new
      BY <3>1
    <3>3. new.version <= preset.version
      BY <1>3, <1>4
    <3> QED
      BY <1>3, <1>4, <3>1, <3>2, <3>3
  <2>2. CASE g # f
    <3>1. form'[g] = form[g] /\ form[g] # Presets!NoForm
      BY <1>1, <1>6, <2>2 DEF Presets!FormsAreDated
    <3> QED
      BY <3>1 DEF Presets!FormsAreDated, Presets!SameVersion
  <2> QED
    BY <2>1, <2>2
<1>7. Presets!FormsAreDated'
  BY <1>1, <1>2, <1>3, <1>6 DEF Presets!FormsAreDated, Presets!SameVersion, Presets!PresetRow, Presets!Exists
<1> QED
  BY <1>5, <1>7

\* A form is saved only onto the row it shows.
LEMMA SaveFormKeeps ==
  ASSUME Presets!PresetInv, NEW f \in Forms, Presets!SaveForm(f)
  PROVE  Presets!PresetInv'
<1> USE StartAssumption DEF Presets!PresetInv
<1> DEFINE read == form[f].row
           limit == IF read.admin THEN read.limit ELSE promised.limit
<1>1. form' = [form EXCEPT ![f] = Presets!NoForm] /\ UNCHANGED up /\ form[f] # Presets!NoForm
  BY DEF Presets!SaveForm, Presets!NoForm
<1>2. DOMAIN form' = Forms /\ \A g \in Forms : form'[g] = IF g = f THEN Presets!NoForm ELSE form[g]
  BY <1>1 DEF Presets!FormsAreDated
<1>3. CASE ~Presets!SameVersion(read)
  <2>1. UNCHANGED <<preset, promised>>
    BY <1>3 DEF Presets!SaveForm
  <2>2. Presets!PresetTypeOK' /\ Presets!TemplateStands' /\ Presets!PromisesAreKept'
    BY <1>1, <2>1 DEF Presets!PresetTypeOK, Presets!TemplateStands, Presets!PromisesAreKept, Presets!Exists
  <2>3. Presets!FormsAreDated'
    BY <1>1, <1>2, <2>1 DEF Presets!FormsAreDated, Presets!Exists, Presets!PresetRow, Presets!SameVersion
  <2> QED
    BY <2>2, <2>3
<1>4. CASE Presets!SameVersion(read)
  <2>1. /\ preset' = [read EXCEPT !.version = preset.version + 1]
        /\ promised' = [promised EXCEPT !.limit = limit, !.on = read.on]
    BY <1>4 DEF Presets!SaveForm
  <2>2. /\ Presets!Exists /\ read.on \in BOOLEAN /\ read.admin \in BOOLEAN
        /\ read.version \in 1 .. MaxWrites - 1 /\ read.version = preset.version
        /\ read.url = preset.url
        /\ promised.limit # Presets!Unset /\ ~read.admin => FALSE
        /\ read = [url |-> read.url, limit |-> read.limit, admin |-> read.admin,
                  on |-> read.on, version |-> read.version]
        /\ preset.url = promised.url
        /\ promised = [url |-> promised.url, limit |-> promised.limit, on |-> promised.on]
    BY <1>1, <1>4 DEF Presets!FormsAreDated, Presets!SameVersion, Presets!PresetRow, Presets!PromisesAreKept,
                      Presets!TemplateStands
  <2>3. /\ preset' = [url |-> read.url, limit |-> read.limit, admin |-> read.admin,
                      on |-> read.on, version |-> preset.version + 1]
        /\ promised' = [url |-> promised.url, limit |-> limit, on |-> read.on]
    BY <2>1, <2>2
  <2>4. /\ preset' # Presets!NoRow /\ preset'.version \in 1 .. MaxWrites /\ preset'.version > preset.version
        /\ limit # Presets!Unset => read.admin /\ read.limit = limit
    BY <2>2, <2>3 DEF Presets!NoRow
  <2>5. Presets!PresetTypeOK' /\ Presets!TemplateStands' /\ Presets!PromisesAreKept'
    BY <1>1, <2>2, <2>3, <2>4
       DEF Presets!PresetTypeOK, Presets!TemplateStands, Presets!PromisesAreKept, Presets!Exists
  <2>6. ASSUME NEW g \in Forms, form'[g] # Presets!NoForm
        PROVE  LET r == form'[g].row IN
               /\ form'[g] = [pc |-> "save", row |-> r] /\ Presets!PresetRow(r)
               /\ r.on \in BOOLEAN /\ r.admin \in BOOLEAN
               /\ r.version \in 1 .. MaxWrites - 1 /\ r.version <= preset'.version
               /\ preset'.version # r.version
    BY <1>2, <2>2, <2>4, <2>6 DEF Presets!FormsAreDated
  <2>7. Presets!PresetRow(preset)' /\ preset'.admin \in BOOLEAN
    BY <2>2, <2>3 DEF Presets!PresetRow
  <2>8. Presets!FormsAreDated'
    BY <1>1, <1>2, <2>4, <2>6, <2>7 DEF Presets!FormsAreDated, Presets!SameVersion, Presets!Exists
  <2> QED
    BY <2>5, <2>8
<1> QED
  BY <1>3, <1>4

LEMMA PresetStays == Presets!PresetInv /\ [Presets!PresetNext]_presetVars => Presets!PresetInv'
<1> SUFFICES ASSUME Presets!PresetInv, [Presets!PresetNext]_presetVars PROVE Presets!PresetInv'
  OBVIOUS
<1>1. CASE UNCHANGED presetVars
  <2> USE <1>1 DEF presetVars, Presets!PresetInv
  <2>1. Presets!PresetTypeOK' /\ Presets!TemplateStands'
    BY DEF Presets!PresetTypeOK, Presets!TemplateStands, Presets!Exists
  <2>2. Presets!FormsAreDated'
    BY DEF Presets!FormsAreDated, Presets!Exists, Presets!PresetRow, Presets!SameVersion
  <2>3. Presets!PromisesAreKept'
    BY DEF Presets!PromisesAreKept, Presets!Exists
  <2> QED
    BY <2>1, <2>2, <2>3
<1> QED
  BY <1>1, LoadTemplateKeeps, StartAgainKeeps, OpenFormKeeps, SaveFormKeeps DEF Presets!PresetNext

-----------------------------------------------------------------------------
(* AppLifecycle.                                                           *)

LEMMA InitDatabaseKeeps ==
  ASSUME Process!AppInv, Process!InitDatabase
  PROVE  Process!AppInv'
<1> USE DEF Process!AppInv, Process!InitDatabase, Process!Starting
<1>1. Process!AppTypeOK'
  BY StartAssumption DEF Process!AppTypeOK, Process!StepsFit, Process!Stores
<1>2. Process!NoUseAfterClose'
  BY DEF Process!NoUseAfterClose, Process!StepsFit, Process!AppTypeOK, Process!BeforeServing, Process!TakenDownInOrder
<1>3. Process!NothingLeftBehind'
  BY DEF Process!NothingLeftBehind, Process!AppTypeOK, Process!StepsFit, Process!TakenDownInOrder
<1>4. Process!StepsFit'
  BY DEF Process!StepsFit, Process!BeforeServing, Process!AppTypeOK, Process!Stores, Process!TakenDownInOrder
<1>5. Process!TakenDownInOrder'
  BY DEF Process!TakenDownInOrder, Process!Alive, Process!AppTypeOK, Process!StepsFit, Process!Stores, Process!BeforeServing
<1> QED
  BY <1>1, <1>2, <1>3, <1>4, <1>5

LEMMA InitDependenciesKeeps ==
  ASSUME Process!AppInv, Process!InitDependencies
  PROVE  Process!AppInv'
<1> USE DEF Process!AppInv, Process!InitDependencies, Process!Starting
<1>1. Process!AppTypeOK'
  BY StartAssumption DEF Process!AppTypeOK, Process!StepsFit, Process!Stores
<1>2. Process!NoUseAfterClose'
  BY DEF Process!NoUseAfterClose, Process!StepsFit, Process!AppTypeOK, Process!BeforeServing, Process!TakenDownInOrder
<1>3. Process!NothingLeftBehind'
  BY DEF Process!NothingLeftBehind, Process!AppTypeOK, Process!StepsFit, Process!TakenDownInOrder
<1>4. Process!StepsFit'
  BY DEF Process!StepsFit, Process!BeforeServing, Process!AppTypeOK, Process!Stores, Process!TakenDownInOrder
<1>5. Process!TakenDownInOrder'
  BY DEF Process!TakenDownInOrder, Process!Alive, Process!AppTypeOK, Process!StepsFit, Process!Stores, Process!BeforeServing
<1> QED
  BY <1>1, <1>2, <1>3, <1>4, <1>5

LEMMA StartWorkerKeeps ==
  ASSUME Process!AppInv, Process!StartWorker
  PROVE  Process!AppInv'
<1> USE DEF Process!AppInv, Process!StartWorker, Process!Starting
<1>1. Process!AppTypeOK'
  BY StartAssumption DEF Process!AppTypeOK, Process!StepsFit, Process!Stores
<1>2. Process!NoUseAfterClose'
  BY DEF Process!NoUseAfterClose, Process!StepsFit, Process!AppTypeOK, Process!BeforeServing, Process!TakenDownInOrder
<1>3. Process!NothingLeftBehind'
  BY DEF Process!NothingLeftBehind, Process!AppTypeOK, Process!StepsFit, Process!TakenDownInOrder
<1>4. Process!StepsFit'
  BY DEF Process!StepsFit, Process!BeforeServing, Process!AppTypeOK, Process!Stores, Process!TakenDownInOrder
<1>5. Process!TakenDownInOrder'
  BY DEF Process!TakenDownInOrder, Process!Alive, Process!AppTypeOK, Process!StepsFit, Process!Stores, Process!BeforeServing
<1> QED
  BY <1>1, <1>2, <1>3, <1>4, <1>5

LEMMA FailStartKeeps ==
  ASSUME Process!AppInv, Process!FailStart
  PROVE  Process!AppInv'
<1> USE DEF Process!AppInv, Process!FailStart, Process!Starting, Process!FailedStartOrder, Process!Loops
<1>1. Process!AppTypeOK'
  BY StartAssumption DEF Process!AppTypeOK, Process!StepsFit, Process!Stores
<1>2. Process!NoUseAfterClose'
  BY DEF Process!NoUseAfterClose, Process!StepsFit, Process!AppTypeOK, Process!BeforeServing, Process!TakenDownInOrder
<1>3. Process!NothingLeftBehind'
  BY DEF Process!NothingLeftBehind, Process!AppTypeOK, Process!StepsFit, Process!TakenDownInOrder
<1>4. Process!StepsFit'
  BY DEF Process!StepsFit, Process!BeforeServing, Process!AppTypeOK, Process!Stores, Process!TakenDownInOrder
<1>5. Process!TakenDownInOrder'
  BY DEF Process!TakenDownInOrder, Process!Alive, Process!AppTypeOK, Process!StepsFit, Process!Stores, Process!BeforeServing
<1> QED
  BY <1>1, <1>2, <1>3, <1>4, <1>5

LEMMA ListenFailsKeeps ==
  ASSUME Process!AppInv, Process!ListenFails
  PROVE  Process!AppInv'
<1> USE DEF Process!AppInv, Process!ListenFails
<1>1. Process!AppTypeOK'
  BY StartAssumption DEF Process!AppTypeOK, Process!StepsFit, Process!Stores
<1>2. Process!NoUseAfterClose'
  BY DEF Process!NoUseAfterClose, Process!StepsFit, Process!AppTypeOK, Process!BeforeServing, Process!TakenDownInOrder
<1>3. Process!NothingLeftBehind'
  BY DEF Process!NothingLeftBehind, Process!AppTypeOK, Process!StepsFit, Process!TakenDownInOrder
<1>4. Process!StepsFit'
  BY DEF Process!StepsFit, Process!BeforeServing, Process!AppTypeOK, Process!Stores, Process!TakenDownInOrder
<1>5. Process!TakenDownInOrder'
  BY DEF Process!TakenDownInOrder, Process!Alive, Process!AppTypeOK, Process!StepsFit, Process!Stores, Process!BeforeServing
<1> QED
  BY <1>1, <1>2, <1>3, <1>4, <1>5

LEMMA AcceptKeeps ==
  ASSUME Process!AppInv, Process!Accept
  PROVE  Process!AppInv'
<1> USE DEF Process!AppInv, Process!Accept, Process!Alive
<1>1. Process!AppTypeOK'
  BY StartAssumption DEF Process!AppTypeOK, Process!StepsFit, Process!Stores
<1>2. Process!NoUseAfterClose'
  BY DEF Process!NoUseAfterClose, Process!StepsFit, Process!AppTypeOK, Process!BeforeServing, Process!TakenDownInOrder
<1>3. Process!NothingLeftBehind'
  BY DEF Process!NothingLeftBehind, Process!AppTypeOK, Process!StepsFit, Process!TakenDownInOrder
<1>4. Process!StepsFit'
  BY DEF Process!StepsFit, Process!BeforeServing, Process!AppTypeOK, Process!Stores, Process!TakenDownInOrder
<1>5. Process!TakenDownInOrder'
  BY DEF Process!TakenDownInOrder, Process!Alive, Process!AppTypeOK, Process!StepsFit, Process!Stores, Process!BeforeServing
<1> QED
  BY <1>1, <1>2, <1>3, <1>4, <1>5

LEMMA HandlerEndsKeeps ==
  ASSUME Process!AppInv, Process!HandlerEnds
  PROVE  Process!AppInv'
<1> USE DEF Process!AppInv, Process!HandlerEnds, Process!Use, Process!Alive
<1>1. Process!AppTypeOK'
  BY StartAssumption DEF Process!AppTypeOK, Process!StepsFit, Process!Stores
<1>2. Process!NoUseAfterClose'
  BY DEF Process!NoUseAfterClose, Process!StepsFit, Process!AppTypeOK, Process!BeforeServing, Process!TakenDownInOrder
<1>3. Process!NothingLeftBehind'
  BY DEF Process!NothingLeftBehind, Process!AppTypeOK, Process!StepsFit, Process!TakenDownInOrder
<1>4. Process!StepsFit'
  BY DEF Process!StepsFit, Process!BeforeServing, Process!AppTypeOK, Process!Stores, Process!TakenDownInOrder
<1>5. Process!TakenDownInOrder'
  BY DEF Process!TakenDownInOrder, Process!Alive, Process!AppTypeOK, Process!StepsFit, Process!Stores, Process!BeforeServing
<1> QED
  BY <1>1, <1>2, <1>3, <1>4, <1>5

LEMMA DetachedEndsKeeps ==
  ASSUME Process!AppInv, Process!DetachedEnds
  PROVE  Process!AppInv'
<1> USE DEF Process!AppInv, Process!DetachedEnds, Process!Use, Process!Alive
<1>1. Process!AppTypeOK'
  BY StartAssumption DEF Process!AppTypeOK, Process!StepsFit, Process!Stores
<1>2. Process!NoUseAfterClose'
  BY DEF Process!NoUseAfterClose, Process!StepsFit, Process!AppTypeOK, Process!BeforeServing, Process!TakenDownInOrder
<1>3. Process!NothingLeftBehind'
  BY DEF Process!NothingLeftBehind, Process!AppTypeOK, Process!StepsFit, Process!TakenDownInOrder
<1>4. Process!StepsFit'
  BY DEF Process!StepsFit, Process!BeforeServing, Process!AppTypeOK, Process!Stores, Process!TakenDownInOrder
<1>5. Process!TakenDownInOrder'
  BY DEF Process!TakenDownInOrder, Process!Alive, Process!AppTypeOK, Process!StepsFit, Process!Stores, Process!BeforeServing
<1> QED
  BY <1>1, <1>2, <1>3, <1>4, <1>5

LEMMA RoundBeginsKeeps ==
  ASSUME Process!AppInv, NEW b \in Process!Loops, Process!RoundBegins(b)
  PROVE  Process!AppInv'
<1> USE DEF Process!AppInv, Process!RoundBegins, Process!Alive
<1>1. Process!AppTypeOK'
  BY StartAssumption DEF Process!AppTypeOK, Process!StepsFit, Process!Stores
<1>2. Process!NoUseAfterClose'
  BY DEF Process!NoUseAfterClose, Process!StepsFit, Process!AppTypeOK, Process!BeforeServing, Process!TakenDownInOrder
<1>3. Process!NothingLeftBehind'
  BY DEF Process!NothingLeftBehind, Process!AppTypeOK, Process!StepsFit, Process!TakenDownInOrder
<1>4. Process!StepsFit'
  BY DEF Process!StepsFit, Process!BeforeServing, Process!AppTypeOK, Process!Stores, Process!TakenDownInOrder
<1>5. Process!TakenDownInOrder'
  BY DEF Process!TakenDownInOrder, Process!Alive, Process!AppTypeOK, Process!StepsFit, Process!Stores, Process!BeforeServing
<1> QED
  BY <1>1, <1>2, <1>3, <1>4, <1>5

LEMMA RoundEndsKeeps ==
  ASSUME Process!AppInv, NEW b \in Process!Loops, Process!RoundEnds(b)
  PROVE  Process!AppInv'
<1> USE DEF Process!AppInv, Process!RoundEnds, Process!Alive
<1>1. Process!AppTypeOK'
  BY StartAssumption DEF Process!AppTypeOK, Process!StepsFit, Process!Stores
<1>2. Process!NoUseAfterClose'
  BY DEF Process!NoUseAfterClose, Process!StepsFit, Process!AppTypeOK, Process!BeforeServing, Process!TakenDownInOrder
<1>3. Process!NothingLeftBehind'
  BY DEF Process!NothingLeftBehind, Process!AppTypeOK, Process!StepsFit, Process!TakenDownInOrder
<1>4. Process!StepsFit'
  BY DEF Process!StepsFit, Process!BeforeServing, Process!AppTypeOK, Process!Stores, Process!TakenDownInOrder
<1>5. Process!TakenDownInOrder'
  BY DEF Process!TakenDownInOrder, Process!Alive, Process!AppTypeOK, Process!StepsFit, Process!Stores, Process!BeforeServing
<1> QED
  BY <1>1, <1>2, <1>3, <1>4, <1>5

LEMMA TaskEndsKeeps ==
  ASSUME Process!AppInv, NEW b \in Process!Loops, Process!TaskEnds(b)
  PROVE  Process!AppInv'
<1> USE DEF Process!AppInv, Process!TaskEnds, Process!Alive
<1>1. Process!AppTypeOK'
  BY StartAssumption DEF Process!AppTypeOK, Process!StepsFit, Process!Stores
<1>2. Process!NoUseAfterClose'
  BY DEF Process!NoUseAfterClose, Process!StepsFit, Process!AppTypeOK, Process!BeforeServing, Process!TakenDownInOrder
<1>3. Process!NothingLeftBehind'
  BY DEF Process!NothingLeftBehind, Process!AppTypeOK, Process!StepsFit, Process!TakenDownInOrder
<1>4. Process!StepsFit'
  BY DEF Process!StepsFit, Process!BeforeServing, Process!AppTypeOK, Process!Stores, Process!TakenDownInOrder
<1>5. Process!TakenDownInOrder'
  BY DEF Process!TakenDownInOrder, Process!Alive, Process!AppTypeOK, Process!StepsFit, Process!Stores, Process!BeforeServing
<1> QED
  BY <1>1, <1>2, <1>3, <1>4, <1>5

LEMMA SignalKeeps ==
  ASSUME Process!AppInv, Process!Signal
  PROVE  Process!AppInv'
<1> USE DEF Process!AppInv, Process!Signal
<1>1. Process!AppTypeOK'
  BY StartAssumption DEF Process!AppTypeOK, Process!StepsFit, Process!Stores
<1>2. Process!NoUseAfterClose'
  BY DEF Process!NoUseAfterClose, Process!StepsFit, Process!AppTypeOK, Process!BeforeServing, Process!TakenDownInOrder
<1>3. Process!NothingLeftBehind'
  BY DEF Process!NothingLeftBehind, Process!AppTypeOK, Process!StepsFit, Process!TakenDownInOrder
<1>4. Process!StepsFit'
  BY DEF Process!StepsFit, Process!BeforeServing, Process!AppTypeOK, Process!Stores, Process!TakenDownInOrder
<1>5. Process!TakenDownInOrder'
  BY DEF Process!TakenDownInOrder, Process!Alive, Process!AppTypeOK, Process!StepsFit, Process!Stores, Process!BeforeServing
<1> QED
  BY <1>1, <1>2, <1>3, <1>4, <1>5

LEMMA DrainedKeeps ==
  ASSUME Process!AppInv, Process!Drained
  PROVE  Process!AppInv'
<1> USE DEF Process!AppInv, Process!Drained, Process!ShutdownOrder, Process!Loops
<1>1. Process!AppTypeOK'
  BY StartAssumption DEF Process!AppTypeOK, Process!StepsFit, Process!Stores
<1>2. Process!NoUseAfterClose'
  BY DEF Process!NoUseAfterClose, Process!StepsFit, Process!AppTypeOK, Process!BeforeServing, Process!TakenDownInOrder
<1>3. Process!NothingLeftBehind'
  BY DEF Process!NothingLeftBehind, Process!AppTypeOK, Process!StepsFit, Process!TakenDownInOrder
<1>4. Process!StepsFit'
  BY DEF Process!StepsFit, Process!BeforeServing, Process!AppTypeOK, Process!Stores, Process!TakenDownInOrder
<1>5. Process!TakenDownInOrder'
  BY DEF Process!TakenDownInOrder, Process!Alive, Process!AppTypeOK, Process!StepsFit, Process!Stores, Process!BeforeServing
<1> QED
  BY <1>1, <1>2, <1>3, <1>4, <1>5

\* What is taken down next is the first of the list; the rest stays in order.
LEMMA ListGoesOn ==
  ASSUME NEW S, NEW list \in Seq(S), list # <<>>
  PROVE  /\ Tail(list) \in Seq(S) /\ Head(list) = list[1] /\ Head(list) \in S
         /\ DOMAIN Tail(list) = 1 .. Len(list) - 1 /\ DOMAIN list = 1 .. Len(list) /\ Len(list) \in Nat \ {0}
         /\ \A i \in 1 .. Len(list) - 1 : Tail(list)[i] = list[i + 1]
         /\ \A i \in DOMAIN list : i # 1 =>
               i - 1 \in DOMAIN Tail(list) /\ Tail(list)[i - 1] = list[i]
<1>1. Tail(list) \in Seq(S) /\ Head(list) = list[1] /\ Head(list) \in S /\ Len(list) \in Nat \ {0}
  BY EmptySeq, HeadTailProperties
<1>2. Len(Tail(list)) = Len(list) - 1 /\ \A i \in 1 .. Len(list) - 1 : Tail(list)[i] = list[i + 1]
  BY HeadTailProperties
<1>3. DOMAIN Tail(list) = 1 .. Len(list) - 1 /\ DOMAIN list = 1 .. Len(list)
  BY <1>1, <1>2
<1> QED
  BY <1>1, <1>2, <1>3

LEMMA ReleaseKeeps ==
  ASSUME Process!AppInv, Process!Release
  PROVE  Process!AppInv'
<1> USE DEF Process!AppInv
<1> DEFINE r == Head(releases)
           names == Process!Stores \cup Process!Loops \cup {"tracer"}
           runs == r \in Process!Loops /\ background[r] \in {"idle", "busy"}
<1>1. /\ at \in {"failing", "closing"} /\ releases # <<>> /\ releases \in Seq(names)
      /\ UNCHANGED <<at, background, roundsLeft, handlers, detached, accepted, timedOut, misused>>
  BY DEF Process!Release, Process!AppTypeOK
<1>2. CASE runs
  <2>1. cancelled' = cancelled \cup {r} /\ UNCHANGED <<releases, opened>>
    BY <1>2 DEF Process!Release
  <2>2. Process!AppTypeOK' /\ Process!NoUseAfterClose' /\ Process!NothingLeftBehind'
    BY <1>1, <2>1 DEF Process!AppTypeOK, Process!NoUseAfterClose, Process!NothingLeftBehind
  <2>3. Process!StepsFit'
    BY <1>1, <2>1 DEF Process!StepsFit, Process!BeforeServing
  <2>4. Process!TakenDownInOrder'
    BY <1>1, <2>1 DEF Process!TakenDownInOrder, Process!Alive
  <2> QED
    BY <2>2, <2>3, <2>4
<1>3. CASE ~runs
  <2>1. releases' = Tail(releases) /\ opened' = opened \ {r} /\ UNCHANGED cancelled
    BY <1>3 DEF Process!Release
  <2>2. /\ Tail(releases) \in Seq(names) /\ r = releases[1]
        /\ DOMAIN Tail(releases) = 1 .. Len(releases) - 1 /\ DOMAIN releases = 1 .. Len(releases)
        /\ Len(releases) \in Nat \ {0}
        /\ \A i \in 1 .. Len(releases) - 1 : Tail(releases)[i] = releases[i + 1]
        /\ \A i \in DOMAIN releases : i # 1 =>
              i - 1 \in DOMAIN Tail(releases) /\ Tail(releases)[i - 1] = releases[i]
    BY <1>1, ListGoesOn
  <2>3. Process!AppTypeOK' /\ Process!NoUseAfterClose' /\ Process!NothingLeftBehind'
    BY <1>1, <2>1, <2>2 DEF Process!AppTypeOK, Process!NoUseAfterClose, Process!NothingLeftBehind
  <2>4. Process!StepsFit'
    BY <1>1, <2>1 DEF Process!StepsFit, Process!BeforeServing
  <2>5. \A s \in opened' : \E i \in DOMAIN releases' : releases'[i] = s
    <3>1. ASSUME NEW s \in opened' PROVE \E i \in DOMAIN releases' : releases'[i] = s
      <4>1. s \in opened /\ s # r
        BY <2>1
      <4>2. PICK i \in DOMAIN releases : releases[i] = s
        BY <4>1, <1>1 DEF Process!TakenDownInOrder
      <4>3. i # 1
        BY <4>1, <4>2, <2>2
      <4> QED
        BY <4>2, <4>3, <2>1, <2>2
    <3> QED
      BY <3>1
  <2>6. \A b \in Process!Loops : background'[b] \in {"idle", "busy"} =>
            \E i \in DOMAIN releases' : releases'[i] = b
    <3>1. ASSUME NEW b \in Process!Loops, background[b] \in {"idle", "busy"}
          PROVE  \E i \in DOMAIN releases' : releases'[i] = b
      <4>1. b # r
        BY <1>3, <3>1
      <4>2. PICK i \in DOMAIN releases : releases[i] = b
        BY <3>1, <1>1 DEF Process!TakenDownInOrder
      <4>3. i # 1
        BY <4>1, <4>2, <2>2
      <4> QED
        BY <4>2, <4>3, <2>1, <2>2
    <3> QED
      BY <3>1, <1>1
  <2>7. ASSUME NEW i \in DOMAIN releases', NEW j \in DOMAIN releases',
               releases'[i] = "postgres", releases'[j] \in Process!Loops
        PROVE  j < i
    <3>1. /\ i + 1 \in DOMAIN releases /\ releases[i + 1] = "postgres"
          /\ j + 1 \in DOMAIN releases /\ releases[j + 1] \in Process!Loops
          /\ i \in Nat /\ j \in Nat
      BY <2>1, <2>2, <2>7
    <3>2. j + 1 < i + 1
      BY <3>1, <1>1 DEF Process!TakenDownInOrder
    <3> QED
      BY <3>1, <3>2
  <2>8. ASSUME NEW b \in Process!Loops, background[b] \in {"idle", "busy"}
        PROVE  "postgres" \in opened'
    <3>1. "postgres" \in opened
      BY <2>8, <1>1 DEF Process!TakenDownInOrder, Process!Alive
    <3>2. PICK i \in DOMAIN releases : releases[i] = b
      BY <2>8, <1>1 DEF Process!TakenDownInOrder
    <3>3. r # "postgres"
      <4>1. SUFFICES ASSUME releases[1] = "postgres" PROVE FALSE
        BY <2>2
      <4>2. i < 1
        BY <4>1, <3>2, <2>2, <1>1 DEF Process!TakenDownInOrder
      <4> QED
        BY <4>2, <3>2, <2>2
    <3> QED
      BY <3>1, <3>3, <2>1
  <2>9. Process!TakenDownInOrder'
    BY <2>5, <2>6, <2>7, <2>8, <1>1 DEF Process!TakenDownInOrder
  <2> QED
    BY <2>3, <2>4, <2>9
<1> QED
  BY <1>2, <1>3

LEMMA EndKeeps ==
  ASSUME Process!AppInv, Process!End
  PROVE  Process!AppInv'
<1> USE DEF Process!AppInv, Process!End
<1>1. Process!AppTypeOK'
  BY StartAssumption DEF Process!AppTypeOK, Process!StepsFit, Process!Stores
<1>2. Process!NoUseAfterClose'
  BY DEF Process!NoUseAfterClose, Process!StepsFit, Process!AppTypeOK, Process!BeforeServing, Process!TakenDownInOrder
<1>3. Process!NothingLeftBehind'
  BY DEF Process!NothingLeftBehind, Process!AppTypeOK, Process!StepsFit, Process!TakenDownInOrder
<1>4. Process!StepsFit'
  BY DEF Process!StepsFit, Process!BeforeServing, Process!AppTypeOK, Process!Stores, Process!TakenDownInOrder
<1>5. Process!TakenDownInOrder'
  BY DEF Process!TakenDownInOrder, Process!Alive, Process!AppTypeOK, Process!StepsFit, Process!Stores, Process!BeforeServing
<1> QED
  BY <1>1, <1>2, <1>3, <1>4, <1>5

\* A process that has not begun.
LEMMA ProcessStarts == Process!AppInit => Process!AppInv
<1> SUFFICES ASSUME Process!AppInit PROVE Process!AppInv
  OBVIOUS
<1> USE StartAssumption DEF Process!AppInit
<1>1. Process!AppTypeOK
  BY EmptySeq DEF Process!AppTypeOK, Process!Loops, Process!Stores
<1>2. Process!NoUseAfterClose /\ Process!NothingLeftBehind
  BY DEF Process!NoUseAfterClose, Process!NothingLeftBehind
<1>3. Process!StepsFit
  BY DEF Process!StepsFit, Process!BeforeServing
<1>4. Process!TakenDownInOrder
  BY DEF Process!TakenDownInOrder
<1> QED
  BY <1>1, <1>2, <1>3, <1>4 DEF Process!AppInv

LEMMA ProcessStays == Process!AppInv /\ [Process!AppNext]_appVars => Process!AppInv'
<1> SUFFICES ASSUME Process!AppInv, [Process!AppNext]_appVars PROVE Process!AppInv'
  OBVIOUS
<1>1. CASE UNCHANGED appVars
  <2> USE <1>1 DEF appVars, Process!AppInv
  <2>1. Process!AppTypeOK' /\ Process!NoUseAfterClose' /\ Process!NothingLeftBehind'
    BY DEF Process!AppTypeOK, Process!NoUseAfterClose, Process!NothingLeftBehind
  <2>2. Process!StepsFit'
    BY DEF Process!StepsFit
  <2>3. Process!TakenDownInOrder'
    BY DEF Process!TakenDownInOrder, Process!Alive
  <2> QED
    BY <2>1, <2>2, <2>3
<1>2. CASE Process!InitDatabase \/ Process!InitDependencies \/ Process!StartWorker \/ Process!FailStart
  BY <1>2, InitDatabaseKeeps, InitDependenciesKeeps, StartWorkerKeeps, FailStartKeeps
<1>3. CASE Process!ListenFails \/ Process!Accept \/ Process!HandlerEnds \/ Process!DetachedEnds
  BY <1>3, ListenFailsKeeps, AcceptKeeps, HandlerEndsKeeps, DetachedEndsKeeps
<1>4. ASSUME NEW b \in Process!Loops, Process!RoundBegins(b) \/ Process!RoundEnds(b) \/ Process!TaskEnds(b)
      PROVE  Process!AppInv'
  BY <1>4, RoundBeginsKeeps, RoundEndsKeeps, TaskEndsKeeps
<1>5. CASE Process!Signal \/ Process!Drained \/ Process!Release \/ Process!End
  BY <1>5, SignalKeeps, DrainedKeeps, ReleaseKeeps, EndKeeps
<1> QED
  BY <1>1, <1>2, <1>3, <1>4, <1>5 DEF Process!AppNext

-----------------------------------------------------------------------------
(* The run Records: a behaviour of it is a behaviour of one part.          *)

RecordsInv ==
    /\ part \in {"sync", "files", "binding", "models", "links", "schema", "presets", "process"}
    /\ part = "sync" => SyncInv
    /\ part = "files" => FilesInv
    /\ part = "binding" => BindingInv
    /\ part = "models" => ModelInv
    /\ part = "links" => McpInv
    /\ part = "schema" => Schema!SchemaInv
    /\ part = "presets" => Presets!PresetInv
    /\ part = "process" => Process!AppInv

LEMMA RecordsStart == Init => RecordsInv
<1> SUFFICES ASSUME Init PROVE RecordsInv
  OBVIOUS
<1>1. part \in {"sync", "files", "binding", "models", "links", "schema", "presets", "process"}
  BY DEF Init
<1>2. part = "sync" => SyncInv
  BY SyncStarts DEF Init
<1>3. part = "binding" => BindingInv
  BY BindingStarts DEF Init
<1>4. part = "models" => ModelInv
  BY ModelStarts DEF Init
<1>5. part = "links" => McpInv
  BY McpStarts DEF Init
<1>6. part = "files" => FilesInv
  BY FilesStart DEF Init
<1>7. part = "schema" => Schema!SchemaInv
  BY SchemaStarts DEF Init
<1>8. part = "presets" => Presets!PresetInv
  BY PresetStarts DEF Init
<1>9. part = "process" => Process!AppInv
  BY ProcessStarts DEF Init
<1> QED
  BY <1>1, <1>2, <1>3, <1>4, <1>5, <1>6, <1>7, <1>8, <1>9 DEF RecordsInv

\* A step of one part is a step of its component.
LEMMA StepOfARecord ==
  ASSUME [Next]_<<part, recordVars, startVars>>
  PROVE  /\ UNCHANGED part
         /\ part = "sync" => [SyncNext]_syncVars
         /\ part = "files" => [FilesNext]_filesVars
         /\ part = "binding" => [BindingNext]_bindingVars
         /\ part = "models" => [ModelNext]_modelVars
         /\ part = "links" => [McpNext]_mcpVars
         /\ part = "schema" => [Schema!SchemaNext]_schemaVars
         /\ part = "presets" => [Presets!PresetNext]_presetVars
         /\ part = "process" => [Process!AppNext]_appVars
<1>1. CASE UNCHANGED <<part, recordVars, startVars>>
  BY <1>1 DEF recordVars, startVars
<1>2. CASE Next
  BY <1>2 DEF Next
<1> QED
  BY <1>1, <1>2

LEMMA RecordsStay == RecordsInv /\ [Next]_<<part, recordVars, startVars>> => RecordsInv'
<1> SUFFICES ASSUME RecordsInv, [Next]_<<part, recordVars, startVars>> PROVE RecordsInv'
  OBVIOUS
<1>1. UNCHANGED part
  BY StepOfARecord
<1>2. part = "sync" => SyncInv'
  BY StepOfARecord, SyncStays DEF RecordsInv
<1>3. part = "binding" => BindingInv'
  BY StepOfARecord, BindingStays DEF RecordsInv
<1>4. part = "models" => ModelInv'
  BY StepOfARecord, ModelStays DEF RecordsInv
<1>5. part = "links" => McpInv'
  BY StepOfARecord, McpStays DEF RecordsInv
<1>6. part = "files" => FilesInv'
  BY StepOfARecord, FilesStay DEF RecordsInv
<1>7. part = "schema" => Schema!SchemaInv'
  BY StepOfARecord, SchemaStays DEF RecordsInv
<1>8. part = "presets" => Presets!PresetInv'
  BY StepOfARecord, PresetStays DEF RecordsInv
<1>9. part = "process" => Process!AppInv'
  BY StepOfARecord, ProcessStays DEF RecordsInv
<1> QED
  BY <1>1, <1>2, <1>3, <1>4, <1>5, <1>6, <1>7, <1>8, <1>9 DEF RecordsInv

LEMMA RecordsAreSound == Spec => []RecordsInv
BY RecordsStart, RecordsStay, PTL DEF Spec

-----------------------------------------------------------------------------
\* Imports that overlap make one document of an item, unless both looked for it
\* before either had saved one, however many there are.
THEOREM AlwaysImportedOnce == Spec => []ImportedOnce
<1>1. RecordsInv => ImportedOnce
  BY DEF RecordsInv, ImportedOnce
<1> QED
  BY <1>1, RecordsAreSound, PTL

\* A document's file is on the disk unless an upload of the same content took it
\* back, and the quota is charged for every document uploaded and for no other.
THEOREM FilesAreAlwaysAccounted == Spec => []FilesAreAccounted
<1>1. RecordsInv => FilesAreAccounted
  BY DEF RecordsInv, FilesAreAccounted
<1> QED
  BY <1>1, RecordsAreSound, PTL

\* An authorisation and a DingTalk account are used by one user each.
THEOREM BindingIsAlwaysExclusive == Spec => []BindingIsExclusive
<1>1. RecordsInv => BindingIsExclusive
  BY DEF RecordsInv, BindingIsExclusive
<1> QED
  BY <1>1, RecordsAreSound, PTL

\* What is stored was tried out as it is, and a client is one of the
\* configuration its request resolved.
THEOREM ModelsAreAlwaysVerified == Spec => []ModelsAreVerified
<1>1. ModelInv => StoredWasVerified
  BY DEF ModelInv, RowsAreSound, Sound, StoredWasVerified
<1>2. RecordsInv => ModelsAreVerified
  BY <1>1 DEF RecordsInv, ModelsAreVerified
<1> QED
  BY <1>2, RecordsAreSound, PTL

\* What a user switched off stays off, and no call of a tool starts after its
\* tool, its connection or the template was switched off.
THEOREM SwitchesAlwaysHold == Spec => SwitchesHold
<1>1. RecordsInv => (part = "links" => McpInv)
  BY DEF RecordsInv
<1>2. ASSUME RecordsInv, [Next]_<<part, recordVars, startVars>>, part = "links"
      PROVE  PermittedCall
  BY <1>2, StepOfARecord, CallsArePermitted DEF RecordsInv
<1>3. RecordsInv /\ [Next]_<<part, recordVars, startVars>> => [part = "links" => PermittedCall]_mcpVars
  BY <1>2
<1> QED
  BY <1>1, <1>3, RecordsAreSound, PTL DEF Spec, SwitchesHold

\* A start that is ready has what it needs and makes no index that another serves;
\* no deployment takes back what an administrator set; and in whatever order a
\* start fails or the process stops, nothing is used after it was closed.
THEOREM StartIsAlwaysSound == Spec => StartIsSound
<1>1. RecordsInv => /\ part = "schema" => Schema!SchemaInv
                    /\ part = "presets" => Presets!PresetInv
                    /\ part = "process" => Process!AppInv
  BY DEF RecordsInv
<1>2. ASSUME RecordsInv, [Next]_<<part, recordVars, startVars>>, part = "schema"
      PROVE  Schema!NoSecondIndex
  BY <1>2, StepOfARecord, NextAddsNoSecond DEF RecordsInv
<1>3. RecordsInv /\ [Next]_<<part, recordVars, startVars>>
         => [part = "schema" => Schema!NoSecondIndex]_schemaVars
  BY <1>2
<1> QED
  BY <1>1, <1>3, RecordsAreSound, PTL DEF Spec, StartIsSound

=============================================================================
