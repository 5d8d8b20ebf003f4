--------------------------- MODULE ChatTurnProofs ---------------------------
(***************************************************************************)
(* Proofs about the turns of a session: the inductive invariant ChatInv,   *)
(* and from it that the card tells the truth, that a call runs once and    *)
(* for the approval of its own card, and that no message loses a question. *)
(***************************************************************************)
EXTENDS ChatTurn, TLAPS

-----------------------------------------------------------------------------
(* The parts of the invariant.                                             *)

\* The states of one turn, and what the invariant says of one alone.
TurnSet == [pc : ServicePhases, engine : EnginePhases,
            event : {"none", "interrupt", "error", "done"},
            approves : BOOLEAN, shown : Cards \cup {None},
            target : Cards \cup {None}, ckpt : Turns \cup {None},
            plan : BOOLEAN, call : Cards \cup {None},
            asked : Cards \cup {None}, cancelled : BOOLEAN,
            rivals : SUBSET Turns]

Shaped(t, w) ==
    /\ w.pc \in {"unsent", "sent", "expired", "over"} =>
          /\ w.engine = "off" /\ w.event = "none"
          /\ w.ckpt = None /\ w.target = None /\ w.call = None
    /\ w.pc \in {"streaming", "released", "draining"} => w.engine # "off" /\ w.ckpt # None
    /\ w.pc \in {"released", "draining"} => w.event = "error"
    /\ w.event # "none" => w.engine \in {"cleanup", "closed"}
    /\ w.asked # None <=> w.event = "interrupt"
    /\ w.event = "interrupt" => w.engine = "closed" /\ w.call # None
    /\ w.engine \in {"restore", "resume", "approved"} => w.target # None
    /\ w.engine \in {"restore", "resume"} => w.call = None
    /\ w.engine = "approved" => w.approves /\ w.call # None
    /\ w.target = None => w.ckpt \in {None, t}

LEMMA ShapeOfEach == TurnsAreShaped <=> \A t \in Turns : Shaped(t, turn[t])
BY DEF TurnsAreShaped, Shaped

LEMMA ShapeOfEachNext == TurnsAreShaped' <=> \A t \in Turns : Shaped(t, turn'[t])
BY DEF TurnsAreShaped, Shaped

LEMMA TypeByParts ==
  TypeOK <=> /\ turn \in [Turns -> TurnSet]
             /\ pending \in Card \cup {NoCard} /\ store \in [Turns -> Row \cup {NoRow, AgedRow}]
             /\ cards \in 0 .. MaxCards /\ executed \subseteq Turns \X Cards
             /\ spoiled \subseteq Turns /\ faults \in 0 .. MaxFaults
BY DEF TypeOK, TurnSet

LEMMA TypeByPartsNext ==
  TypeOK' <=> /\ turn' \in [Turns -> TurnSet]
              /\ pending' \in Card \cup {NoCard} /\ store' \in [Turns -> Row \cup {NoRow, AgedRow}]
              /\ cards' \in 0 .. MaxCards /\ executed' \subseteq Turns \X Cards
              /\ spoiled' \subseteq Turns /\ faults' \in 0 .. MaxFaults
BY DEF TypeOK, TurnSet

LEMMA NewTurnFits == NewTurn \in TurnSet /\ Over \in TurnSet
BY DEF NewTurn, Over, TurnSet, ServicePhases, EnginePhases, None

\* A question never has the number of none; a row that is gone is not one that is old.
LEMMA NumbersAreNot ==
  /\ None \notin Cards /\ None \notin Turns
  /\ \A c \in Card : c # NoCard /\ c.card # None
  /\ NoRow.card = None /\ AgedRow.card = None /\ NoCard.card = None
  /\ \A r \in Row : r # NoRow /\ r.card # None /\ r # AgedRow
  /\ AgedRow # NoRow
<1>1. None \notin Cards /\ None \notin Turns
  BY ChatAssumption DEF None, Cards, Turns
<1>2. \A c \in Card : c.card # None
  BY <1>1 DEF Card
<1>3. \A r \in Row : r.card # None
  BY <1>1 DEF Row
<1>4. NoRow.card = None /\ AgedRow.card = None /\ NoCard.card = None
  BY DEF NoRow, AgedRow, NoCard
<1>5. AgedRow # NoRow
  <2>1. "aged" \in DOMAIN AgedRow
    BY DEF AgedRow
  <2>2. "aged" \notin DOMAIN NoRow
    BY DEF NoRow
  <2>. QED  BY <2>1, <2>2
<1>. QED  BY <1>1, <1>2, <1>3, <1>4, <1>5

LEMMA ChatStarts == Init => ChatInv
<1>. SUFFICES ASSUME Init PROVE ChatInv
  OBVIOUS
<1>1. turn \in [Turns -> TurnSet] /\ \A t \in Turns : turn[t] = NewTurn
  BY NewTurnFits DEF Init
<1>2. pending = NoCard /\ cards = 0 /\ executed = {} /\ spoiled = {} /\ faults = 0
      /\ store = [t \in Turns |-> NoRow]
  BY DEF Init
<1>3. TypeOK
  BY <1>1, <1>2, TypeByParts, ChatAssumption
<1>4. /\ NewTurn.pc = "unsent" /\ NewTurn.engine = "off" /\ NewTurn.event = "none" /\ NewTurn.target = None
      /\ NewTurn.ckpt = None /\ NewTurn.call = None /\ NewTurn.asked = None /\ NewTurn.rivals = {}
  BY DEF NewTurn
<1>5. TurnsAreShaped
  BY <1>1, <1>4, ShapeOfEach DEF Shaped
<1>6. RivalsAreKnown
  BY <1>1, <1>4 DEF RivalsAreKnown, Active
<1>7. NamesAreFresh
  BY <1>1, <1>2, <1>4, NumbersAreNot DEF NamesAreFresh
<1>8. NumbersAreUsed /\ CallsHaveOneRun
  BY <1>1, <1>2, <1>4, NumbersAreNot DEF NumbersAreUsed, CallsHaveOneRun, None
<1>9. QuestionsAreOfOneCall /\ AloneIsTold
  BY <1>1, <1>2, <1>4, NumbersAreNot DEF QuestionsAreOfOneCall, AloneIsTold
<1>10. CardIsBacked /\ DoneIsNotOffered
  BY <1>1, <1>2, <1>4, NumbersAreNot DEF CardIsBacked, DoneIsNotOffered
<1>. QED  BY <1>3, <1>5, <1>6, <1>7, <1>8, <1>9, <1>10 DEF ChatInv

-----------------------------------------------------------------------------
(* One turn goes on, ends or starts; what each does to the invariant.      *)

\* One turn changes.
LEMMA OneTurn ==
  ASSUME TypeOK, NEW t \in Turns, NEW w \in TurnSet, turn' = [turn EXCEPT ![t] = w]
  PROVE  /\ turn' \in [Turns -> TurnSet] /\ turn'[t] = w
         /\ \A u \in Turns : u # t => turn'[u] = turn[u]
<1>1. turn \in [Turns -> TurnSet]
  BY TypeByParts
<1>. QED  BY <1>1

\* A turn goes on, and no more than its phase, its engine and its event change.
LEMMA GoesOn ==
  ASSUME ChatInv, NEW t \in Turns, NEW w \in TurnSet, turn' = [turn EXCEPT ![t] = w],
         UNCHANGED <<pending, store, cards, executed, spoiled, faults>>,
         Shaped(t, w), Active(t), w.pc \notin {"unsent", "over"},
         w.ckpt = turn[t].ckpt, w.target = turn[t].target, w.call = turn[t].call,
         w.asked = turn[t].asked, w.shown = turn[t].shown, w.rivals = turn[t].rivals,
         w.pc = "sent" => turn[t].pc = "sent",
         w.pc = "expired" => turn[t].pc = "expired" \/ (pending # NoCard /\ pending.expired),
         w.pc \in {"released", "draining"} => turn[t].pc \in {"released", "draining"},
         w.engine \in {"restore", "resume"} => turn[t].engine \in {"restore", "resume"},
         w.engine = "approved" => turn[t].engine = "approved",
         \A c \in Turns : Holds(t, c) => w.pc = "streaming"
  PROVE  ChatInv'
<1>1. /\ turn' \in [Turns -> TurnSet] /\ turn'[t] = w
      /\ \A u \in Turns : u # t => turn'[u] = turn[u]
  BY OneTurn DEF ChatInv
<1>2. /\ TypeOK /\ TurnsAreShaped /\ RivalsAreKnown /\ NamesAreFresh /\ NumbersAreUsed /\ CallsHaveOneRun
      /\ QuestionsAreOfOneCall /\ AloneIsTold /\ CardIsBacked /\ DoneIsNotOffered
  BY DEF ChatInv
<1>3. Shaped(t, turn[t])
  BY <1>2, ShapeOfEach
<1>4. w.event = "interrupt" <=> turn[t].event = "interrupt"
  BY <1>3 DEF Shaped
<1>5. turn[t].pc \notin {"unsent", "over"}
  BY DEF Active
<1>6. TypeOK'
  BY <1>1, <1>2, TypeByParts, TypeByPartsNext
<1>7. TurnsAreShaped'
  BY <1>1, <1>2, ShapeOfEach, ShapeOfEachNext
<1>8. RivalsAreKnown'
  BY <1>1, <1>2 DEF RivalsAreKnown, Active, Spoiled
<1>9. NamesAreFresh'
  BY <1>1, <1>2, <1>5 DEF NamesAreFresh
<1>10. NumbersAreUsed'
  BY <1>1, <1>2 DEF NumbersAreUsed
<1>11. CallsHaveOneRun'
  BY <1>1, <1>2 DEF CallsHaveOneRun
<1>12. QuestionsAreOfOneCall'
  BY <1>1, <1>2 DEF QuestionsAreOfOneCall
<1>13. AloneIsTold'
  BY <1>1, <1>2 DEF AloneIsTold
<1>14. \A u \in Turns, c \in Turns : Holds(u, c) => Holds(u, c)'
  BY <1>1, <1>4 DEF Holds
<1>15. CardIsBacked'
  <2>1. pending # NoCard => pending.ckpt \in Turns
    BY <1>2, TypeByParts DEF Card
  <2>2. pending # NoCard /\ ~Spoiled(pending.ckpt) /\ store[pending.ckpt] = NoRow =>
           \E u \in Turns : Holds(u, pending.ckpt)'
    BY <1>2, <1>14, <2>1 DEF CardIsBacked
  <2>3. \A u \in Turns : turn'[u].ckpt # None /\ ~Spoiled(turn'[u].ckpt) =>
          /\ turn'[u].event = "interrupt" => store[turn'[u].ckpt] # NoRow
          /\ turn'[u].pc \in {"released", "draining"} /\ turn'[u].target # None =>
                pending = NoCard \/ pending.ckpt # turn'[u].ckpt
    BY <1>1, <1>2, <1>4 DEF CardIsBacked
  <2>. QED  BY <2>2, <2>3 DEF CardIsBacked, Holds, Spoiled
<1>16. DoneIsNotOffered'
  <2>1. \A u \in Turns : turn'[u].call # None /\ ~Spoiled(turn'[u].ckpt) => ~Done(turn'[u].call)
    BY <1>1, <1>2 DEF DoneIsNotOffered
  <2>2. \A c \in Turns : store[c].card # None /\ ~Spoiled(c) /\ Done(store[c].call) =>
          /\ pending # NoCard /\ pending.ckpt = c => \E u \in Turns : Holds(u, c)'
          /\ \A u \in Turns : turn'[u].ckpt = c =>
                turn'[u].engine \notin {"restore", "resume"} /\ turn'[u].event # "interrupt"
    BY <1>1, <1>2, <1>4, <1>14 DEF DoneIsNotOffered
  <2>. QED  BY <2>1, <2>2 DEF DoneIsNotOffered, Done, Spoiled, Holds
<1>. QED  BY <1>6, <1>7, <1>8, <1>9, <1>10, <1>11, <1>12, <1>13, <1>15, <1>16 DEF ChatInv

\* Holds, of the state of a turn.
Holding(w, c) ==
    /\ w.ckpt = c /\ w.target # None
    /\ w.pc = "streaming" /\ w.event # "interrupt"

\* The card is taken away, or the turn that should do so fails to and spoils its
\* checkpoint, or there is no card of that turn.
Cleared(t) ==
    \/ pending' = NoCard /\ spoiled' = spoiled
    \/ pending' = pending /\ spoiled' = spoiled \cup ({turn[t].ckpt} \ {None})
    \/ pending' = pending /\ spoiled' = spoiled /\ \A c \in Turns : ~Holds(t, c)

\* A turn ends, or tells of its error, when it has let go of its card.
LEMMA LetsGo ==
  ASSUME ChatInv, NEW t \in Turns, NEW w \in TurnSet, turn' = [turn EXCEPT ![t] = w],
         UNCHANGED <<store, cards, executed>>, faults' \in 0 .. MaxFaults, Cleared(t), Active(t),
         \/ w = Over
         \/ /\ w.pc = "released" /\ turn[t].pc = "streaming" /\ turn[t].event = "error"
            /\ w.engine = turn[t].engine /\ w.event = turn[t].event /\ w.approves = turn[t].approves
            /\ w.ckpt = turn[t].ckpt /\ w.target = turn[t].target /\ w.call = turn[t].call
            /\ w.asked = turn[t].asked /\ w.shown = turn[t].shown /\ w.rivals = turn[t].rivals
  PROVE  ChatInv'
<1>1. /\ turn' \in [Turns -> TurnSet] /\ turn'[t] = w
      /\ \A u \in Turns : u # t => turn'[u] = turn[u]
  BY OneTurn DEF ChatInv
<1>2. /\ TypeOK /\ TurnsAreShaped /\ RivalsAreKnown /\ NamesAreFresh /\ NumbersAreUsed /\ CallsHaveOneRun
      /\ QuestionsAreOfOneCall /\ AloneIsTold /\ CardIsBacked /\ DoneIsNotOffered
  BY DEF ChatInv
<1>3. Shaped(t, turn[t]) /\ turn[t] \in TurnSet
  BY <1>2, ShapeOfEach, TypeByParts
<1>4. \/ /\ w.pc = "over" /\ w.engine = "off" /\ w.event = "none" /\ w.ckpt = None /\ w.target = None
         /\ w.call = None /\ w.asked = None /\ w.rivals = {}
      \/ /\ w.pc = "released" /\ turn[t].pc = "streaming"
         /\ w.engine = turn[t].engine /\ w.engine \in {"cleanup", "closed"}
         /\ w.event = "error" /\ turn[t].event = "error" /\ w.approves = turn[t].approves
         /\ w.ckpt = turn[t].ckpt /\ w.target = turn[t].target /\ w.call = turn[t].call
         /\ w.asked = turn[t].asked /\ w.shown = turn[t].shown /\ w.rivals = turn[t].rivals
  <2>1. /\ Over.pc = "over" /\ Over.engine = "off" /\ Over.event = "none" /\ Over.ckpt = None
        /\ Over.target = None /\ Over.call = None /\ Over.asked = None /\ Over.rivals = {}
    BY DEF Over, NewTurn
  <2>. QED  BY <1>3, <2>1 DEF Shaped
<1>5. turn[t].pc \notin {"unsent", "over"}
  BY DEF Active
<1>6. /\ pending' \in {pending, NoCard}
      /\ spoiled \subseteq spoiled' /\ spoiled' \subseteq spoiled \cup {turn[t].ckpt} /\ spoiled' \subseteq Turns
      /\ \A c \in Turns : Holds(t, c) => pending' = NoCard \/ c \in spoiled'
  <2>1. \A c \in Turns : Holds(t, c) => c = turn[t].ckpt /\ c # None
    BY NumbersAreNot DEF Holds
  <2>2. spoiled \subseteq Turns /\ turn[t].ckpt \in Turns \cup {None}
    BY <1>2, <1>3, TypeByParts DEF TurnSet
  <2>. QED  BY <2>1, <2>2 DEF Cleared, Spoiled
<1>7. TypeOK'
  BY <1>1, <1>2, <1>6, TypeByParts, TypeByPartsNext
<1>8. TurnsAreShaped'
  <2>1. Shaped(t, w)
    BY <1>3, <1>4, NumbersAreNot DEF Shaped
  <2>. QED  BY <1>1, <1>2, <2>1, ShapeOfEach, ShapeOfEachNext
<1>9. RivalsAreKnown'
  BY <1>1, <1>2, <1>4, <1>5, <1>6 DEF RivalsAreKnown, Active, Spoiled
<1>10. NamesAreFresh'
  <2>1. \A u \in Turns : turn'[u].pc # "over" => turn[u].pc # "over" /\ turn'[u].target = turn[u].target
                                                 /\ turn'[u].ckpt = turn[u].ckpt
    BY <1>1, <1>4, <1>5
  <2>2. \A u \in Turns : turn'[u].ckpt \in {turn[u].ckpt, None}
    BY <1>1, <1>4
  <2>. QED  BY <1>2, <1>6, <2>1, <2>2, NumbersAreNot DEF NamesAreFresh
<1>11. NumbersAreUsed'
  <2>1. cards \in Nat
    BY <1>2, TypeByParts
  <2>. QED  BY <1>1, <1>2, <1>4, <1>6, <2>1 DEF NumbersAreUsed, None
<1>12. CallsHaveOneRun'
  BY <1>1, <1>2, <1>4 DEF CallsHaveOneRun
<1>13. QuestionsAreOfOneCall'
  <2>1. pending # NoCard => pending.card # None
    BY <1>2, TypeByParts, NumbersAreNot
  <2>. QED  BY <1>1, <1>2, <1>4, <1>6, <2>1 DEF QuestionsAreOfOneCall
<1>14. AloneIsTold'
  <2>1. \A u \in Turns : u # t /\ turn[u].rivals = {} => ~Active(u)
    BY <1>2 DEF RivalsAreKnown
  <2>2. \A u \in Turns : ~Active(u) => turn[u].pc \notin {"sent", "expired"} /\ turn[u].ckpt = None
                                       /\ turn[u].engine \notin {"restore", "resume", "approved"}
    BY <1>2, ShapeOfEach DEF Active, Shaped
  <2>. QED  BY <1>1, <1>2, <1>4, <1>6, <2>1, <2>2 DEF AloneIsTold
<1>15. \A u \in Turns, c \in Turns :
          Holds(u, c) => Holding(turn'[u], c) \/ pending' = NoCard \/ c \in spoiled'
  BY <1>1, <1>6 DEF Holds, Holding
<1>16. \A c : c \notin spoiled' => ~Spoiled(c)
  BY <1>6 DEF Spoiled
<1>17. CardIsBacked'
  <2>1. pending # NoCard => pending.ckpt \in Turns
    BY <1>2, TypeByParts DEF Card
  <2>2. pending' # NoCard /\ pending'.ckpt \notin spoiled' /\ store[pending'.ckpt] = NoRow =>
           \E u \in Turns : Holding(turn'[u], pending'.ckpt)
    BY <1>2, <1>6, <1>15, <1>16, <2>1 DEF CardIsBacked
  <2>3. ASSUME NEW u \in Turns, turn'[u].ckpt # None, turn'[u].ckpt \notin spoiled'
        PROVE  /\ turn'[u].event = "interrupt" => store[turn'[u].ckpt] # NoRow
               /\ turn'[u].pc \in {"released", "draining"} /\ turn'[u].target # None =>
                      pending' = NoCard \/ pending'.ckpt # turn'[u].ckpt
    <3>1. turn'[u].ckpt = turn[u].ckpt /\ turn[u].ckpt \in Turns
      BY <1>1, <1>2, <1>4, <2>3, TypeByParts DEF TurnSet
    <3>2. ~Spoiled(turn[u].ckpt)
      BY <1>16, <2>3, <3>1
    <3>3. CASE u # t
      BY <1>1, <1>2, <1>6, <2>3, <3>2, <3>3 DEF CardIsBacked
    <3>4. CASE u = t
      <4>1. w.event = "error" /\ turn[t].pc = "streaming" /\ turn[t].event = "error" /\ w.target = turn[t].target
        BY <1>1, <1>4, <2>3, <3>4
      <4>2. turn[t].target # None => Holds(t, turn[t].ckpt)
        BY <4>1 DEF Holds
      <4>. QED  BY <1>1, <1>6, <2>3, <3>1, <3>4, <4>1, <4>2
    <3>. QED  BY <3>3, <3>4
  <2>. QED  BY <2>2, <2>3 DEF CardIsBacked, Holds, Holding, Spoiled
<1>18. DoneIsNotOffered'
  <2>1. \A u \in Turns : turn'[u].call # None /\ turn'[u].ckpt \notin spoiled' => ~Done(turn'[u].call)
    BY <1>1, <1>2, <1>4, <1>6 DEF DoneIsNotOffered, Spoiled
  <2>2. \A c \in Turns : store[c].card # None /\ c \notin spoiled' /\ Done(store[c].call) =>
          /\ pending' # NoCard /\ pending'.ckpt = c => \E u \in Turns : Holding(turn'[u], c)
          /\ \A u \in Turns : turn'[u].ckpt = c =>
                turn'[u].engine \notin {"restore", "resume"} /\ turn'[u].event # "interrupt"
    BY <1>1, <1>2, <1>4, <1>6, <1>15, <1>16, NumbersAreNot DEF DoneIsNotOffered
  <2>. QED  BY <2>1, <2>2 DEF DoneIsNotOffered, Done, Spoiled, Holds, Holding
<1>. QED  BY <1>7, <1>8, <1>9, <1>10, <1>11, <1>12, <1>13, <1>14, <1>17, <1>18 DEF ChatInv

LEMMA HoldsIsHolding == \A t, c : Holds(t, c) <=> Holding(turn[t], c)
BY DEF Holds, Holding

LEMMA CardIsBackedNext ==
  CardIsBacked' <=>
    /\ pending' # NoCard /\ pending'.ckpt \notin spoiled' /\ store'[pending'.ckpt] = NoRow =>
          \E u \in Turns : Holding(turn'[u], pending'.ckpt)
    /\ \A u \in Turns : turn'[u].ckpt # None /\ turn'[u].ckpt \notin spoiled' =>
          /\ turn'[u].event = "interrupt" => store'[turn'[u].ckpt] # NoRow
          /\ turn'[u].pc \in {"released", "draining"} /\ turn'[u].target # None =>
                pending' = NoCard \/ pending'.ckpt # turn'[u].ckpt
BY DEF CardIsBacked, Holds, Holding, Spoiled

\* Done, of a set of executions.
DoneBy(x, call) == \E u \in Turns : <<u, call>> \in x

LEMMA DoneIsNotOfferedNext ==
  DoneIsNotOffered' <=>
    /\ \A u \in Turns : turn'[u].call # None /\ turn'[u].ckpt \notin spoiled' => ~DoneBy(executed', turn'[u].call)
    /\ \A c \in Turns : store'[c].card # None /\ c \notin spoiled' /\ DoneBy(executed', store'[c].call) =>
          /\ pending' # NoCard /\ pending'.ckpt = c => \E u \in Turns : Holding(turn'[u], c)
          /\ \A u \in Turns : turn'[u].ckpt = c =>
                turn'[u].engine \notin {"restore", "resume"} /\ turn'[u].event # "interrupt"
BY DEF DoneIsNotOffered, Done, DoneBy, Holds, Holding, Spoiled

\* Who has no rivals while another turn is active is not active.
LEMMA OthersRest ==
  ASSUME ChatInv, NEW t \in Turns, Active(t), NEW u \in Turns, u # t, turn[u].rivals = {}
  PROVE  /\ turn[u].pc \notin {"sent", "expired"} /\ turn[u].ckpt = None
         /\ turn[u].engine \notin {"restore", "resume", "approved"}
<1>1. ~Active(u)
  BY DEF ChatInv, RivalsAreKnown
<1>2. Shaped(u, turn[u])
  BY ShapeOfEach DEF ChatInv
<1>. QED  BY <1>1, <1>2 DEF Active, Shaped

\* The first run of a turn starts.
LEMMA Starts ==
  ASSUME ChatInv, NEW t \in Turns, NEW w \in TurnSet, turn' = [turn EXCEPT ![t] = w],
         UNCHANGED <<store, cards, executed, spoiled>>, faults' \in 0 .. MaxFaults,
         pending' = NoCard \/ (pending' = pending /\ (pending.expired \/ turn[t].rivals # {})),
         turn[t].pc \in {"sent", "expired"}, w.pc = "streaming", w.engine = "run", w.ckpt = t,
         w.event = turn[t].event, w.target = turn[t].target, w.call = turn[t].call,
         w.asked = turn[t].asked, w.rivals = turn[t].rivals
  PROVE  ChatInv'
<1>1. /\ turn' \in [Turns -> TurnSet] /\ turn'[t] = w
      /\ \A u \in Turns : u # t => turn'[u] = turn[u]
  BY OneTurn DEF ChatInv
<1>2. /\ TypeOK /\ TurnsAreShaped /\ RivalsAreKnown /\ NamesAreFresh /\ NumbersAreUsed /\ CallsHaveOneRun
      /\ QuestionsAreOfOneCall /\ AloneIsTold /\ CardIsBacked /\ DoneIsNotOffered
  BY DEF ChatInv
<1>3. /\ turn[t].event = "none" /\ turn[t].target = None /\ turn[t].call = None /\ turn[t].asked = None
      /\ turn[t].ckpt = None
  BY <1>2, ShapeOfEach DEF Shaped
<1>4. Active(t) /\ t # None
  BY NumbersAreNot DEF Active
<1>5. \A u \in Turns : u # t => turn[u].ckpt # t
  BY <1>2, <1>3 DEF NamesAreFresh
<1>6. TypeOK'
  BY <1>1, <1>2, TypeByParts, TypeByPartsNext
<1>7. TurnsAreShaped'
  <2>1. Shaped(t, w)
    BY <1>3, <1>4 DEF Shaped
  <2>. QED  BY <1>1, <1>2, <2>1, ShapeOfEach, ShapeOfEachNext
<1>8. RivalsAreKnown'
  BY <1>1, <1>2, <1>4, <1>5 DEF RivalsAreKnown, Active, Spoiled
<1>9. NamesAreFresh'
  BY <1>1, <1>2, <1>3, <1>4 DEF NamesAreFresh
<1>10. NumbersAreUsed'
  BY <1>1, <1>2 DEF NumbersAreUsed
<1>11. CallsHaveOneRun'
  BY <1>1, <1>2, <1>3 DEF CallsHaveOneRun
<1>12. QuestionsAreOfOneCall'
  <2>1. pending # NoCard => pending.card # None
    BY <1>2, TypeByParts, NumbersAreNot
  <2>. QED  BY <1>1, <1>2, <1>3, <2>1 DEF QuestionsAreOfOneCall
<1>13. AloneIsTold'
  BY <1>1, <1>2, <1>4, OthersRest DEF AloneIsTold
<1>14. \A u, c \in Turns : Holds(u, c) => Holding(turn'[u], c)
  BY <1>1, <1>3 DEF Holds, Holding
<1>15. CardIsBacked'
  <2>1. pending # NoCard => pending.ckpt \in Turns
    BY <1>2, TypeByParts DEF Card
  <2>. QED  BY <1>1, <1>2, <1>3, <1>14, <2>1, CardIsBackedNext DEF CardIsBacked, Spoiled
<1>16. DoneIsNotOffered'
  <2>1. \A k : DoneBy(executed', k) <=> Done(k)
    BY DEF Done, DoneBy
  <2>. QED  BY <1>1, <1>2, <1>3, <1>14, <2>1, DoneIsNotOfferedNext DEF DoneIsNotOffered, Spoiled
<1>. QED  BY <1>6, <1>7, <1>8, <1>9, <1>10, <1>11, <1>12, <1>13, <1>15, <1>16 DEF ChatInv

\* A turn resumes the run its card names.
LEMMA Resumes ==
  ASSUME ChatInv, NEW t \in Turns, NEW w \in TurnSet, turn' = [turn EXCEPT ![t] = w],
         UNCHANGED <<pending, store, cards, executed, faults>>,
         pending # NoCard, ~pending.expired,
         spoiled' = IF Rivals(t, pending.ckpt) = {} THEN spoiled ELSE spoiled \cup {pending.ckpt},
         turn[t].pc = "sent", w.pc = "streaming", w.engine = "restore",
         w.ckpt = pending.ckpt, w.target = pending.card,
         w.event = turn[t].event, w.call = turn[t].call, w.shown = turn[t].shown,
         w.asked = turn[t].asked, w.rivals = turn[t].rivals
  PROVE  ChatInv'
<1>1. /\ turn' \in [Turns -> TurnSet] /\ turn'[t] = w
      /\ \A u \in Turns : u # t => turn'[u] = turn[u]
  BY OneTurn DEF ChatInv
<1>2. /\ TypeOK /\ TurnsAreShaped /\ RivalsAreKnown /\ NamesAreFresh /\ NumbersAreUsed /\ CallsHaveOneRun
      /\ QuestionsAreOfOneCall /\ AloneIsTold /\ CardIsBacked /\ DoneIsNotOffered
  BY DEF ChatInv
<1>3. /\ turn[t].event = "none" /\ turn[t].target = None /\ turn[t].call = None /\ turn[t].asked = None
      /\ turn[t].ckpt = None
  BY <1>2, ShapeOfEach DEF Shaped
<1>4. /\ Active(t) /\ t # None
      /\ pending.ckpt \in Turns /\ pending.ckpt # None /\ pending.card \in Cards /\ pending.card # None
  BY <1>2, TypeByParts, NumbersAreNot DEF Active, Card
<1>5. /\ spoiled \subseteq spoiled' /\ spoiled' \subseteq Turns
      /\ \A u \in Turns : turn[u].ckpt = pending.ckpt => pending.ckpt \in spoiled'
  <2>1. ASSUME NEW u \in Turns, turn[u].ckpt = pending.ckpt
        PROVE  u \in Rivals(t, pending.ckpt)
    <3>1. Active(u) /\ u # t
      BY <1>2, <1>3, <1>4, <2>1, ShapeOfEach DEF Shaped, Active
    <3>. QED  BY <1>2, <1>4, <2>1, <3>1 DEF RivalsAreKnown, Rivals
  <2>2. spoiled \subseteq Turns
    BY <1>2, TypeByParts
  <2>. QED  BY <1>4, <2>1, <2>2
<1>6. TypeOK'
  BY <1>1, <1>2, <1>5, TypeByParts, TypeByPartsNext
<1>7. TurnsAreShaped'
  <2>1. Shaped(t, w)
    BY <1>3, <1>4 DEF Shaped
  <2>. QED  BY <1>1, <1>2, <2>1, ShapeOfEach, ShapeOfEachNext
<1>8. RivalsAreKnown'
  BY <1>1, <1>2, <1>4, <1>5 DEF RivalsAreKnown, Active, Spoiled
<1>9. NamesAreFresh'
  BY <1>1, <1>2, <1>3, <1>4 DEF NamesAreFresh
<1>10. NumbersAreUsed'
  BY <1>1, <1>2 DEF NumbersAreUsed
<1>11. CallsHaveOneRun'
  BY <1>1, <1>2, <1>3 DEF CallsHaveOneRun
<1>12. QuestionsAreOfOneCall'
  BY <1>1, <1>2, <1>3, <1>4 DEF QuestionsAreOfOneCall
<1>13. AloneIsTold'
  <2>1. turn[t].rivals = {} => turn[t].shown = pending.call
    BY <1>2 DEF AloneIsTold
  <2>2. store[pending.ckpt].card = pending.card => store[pending.ckpt].call = pending.call
    BY <1>2 DEF QuestionsAreOfOneCall
  <2>. QED  BY <1>1, <1>2, <1>4, <2>1, <2>2, OthersRest DEF AloneIsTold
<1>14. \A u, c \in Turns : Holds(u, c) => Holding(turn'[u], c) /\ turn[u].ckpt = c
  BY <1>1, <1>3 DEF Holds, Holding
<1>15. CardIsBacked'
  BY <1>1, <1>2, <1>3, <1>4, <1>5, <1>14, CardIsBackedNext DEF CardIsBacked, Spoiled
<1>16. DoneIsNotOffered'
  <2>1. \A k : DoneBy(executed', k) <=> Done(k)
    BY DEF Done, DoneBy
  <2>2. store[pending.ckpt].card # None /\ pending.ckpt \notin spoiled' => ~Done(store[pending.ckpt].call)
    BY <1>2, <1>4, <1>5, <1>14 DEF DoneIsNotOffered, Spoiled
  <2>3. \A u \in Turns : turn'[u].call # None /\ turn'[u].ckpt \notin spoiled' => ~Done(turn'[u].call)
    BY <1>1, <1>2, <1>3, <1>5 DEF DoneIsNotOffered, Spoiled
  <2>4. \A c \in Turns : store[c].card # None /\ c \notin spoiled' /\ Done(store[c].call) =>
          /\ pending # NoCard /\ pending.ckpt = c => \E u \in Turns : Holding(turn'[u], c)
          /\ \A u \in Turns : turn'[u].ckpt = c =>
                turn'[u].engine \notin {"restore", "resume"} /\ turn'[u].event # "interrupt"
    BY <1>1, <1>2, <1>5, <2>2 DEF DoneIsNotOffered, Spoiled
  <2>. QED  BY <2>1, <2>3, <2>4, DoneIsNotOfferedNext
<1>. QED  BY <1>6, <1>7, <1>8, <1>9, <1>10, <1>11, <1>12, <1>13, <1>15, <1>16 DEF ChatInv

\* The engine reads the row of its run: the call that waits there goes on, or not.
LEMMA Reads ==
  ASSUME ChatInv, NEW t \in Turns, NEW w \in TurnSet, turn' = [turn EXCEPT ![t] = w],
         UNCHANGED <<pending, store, cards, executed, spoiled, faults>>,
         turn[t].engine = "resume", Found(t), w.engine \in {"approved", "run"},
         w.call \in {None, store[turn[t].ckpt].call},
         w.engine = "approved" => Answers(t) /\ w.approves /\ w.call = store[turn[t].ckpt].call,
         w.pc = turn[t].pc, w.ckpt = turn[t].ckpt, w.target = turn[t].target, w.event = turn[t].event,
         w.asked = turn[t].asked, w.shown = turn[t].shown, w.rivals = turn[t].rivals
  PROVE  ChatInv'
<1>1. /\ turn' \in [Turns -> TurnSet] /\ turn'[t] = w
      /\ \A u \in Turns : u # t => turn'[u] = turn[u]
  BY OneTurn DEF ChatInv
<1>2. /\ TypeOK /\ TurnsAreShaped /\ RivalsAreKnown /\ NamesAreFresh /\ NumbersAreUsed /\ CallsHaveOneRun
      /\ QuestionsAreOfOneCall /\ AloneIsTold /\ CardIsBacked /\ DoneIsNotOffered
  BY DEF ChatInv
<1>3. Shaped(t, turn[t]) /\ turn[t] \in TurnSet
  BY <1>2, ShapeOfEach, TypeByParts
<1>4. /\ turn[t].pc = "streaming" /\ turn[t].event = "none" /\ turn[t].asked = None
      /\ turn[t].target # None /\ turn[t].call = None /\ Active(t)
      /\ turn[t].ckpt \in Turns /\ turn[t].ckpt # None
  BY <1>3, NumbersAreNot DEF Shaped, TurnSet, ServicePhases, Active
<1>5. store[turn[t].ckpt] \in Row /\ store[turn[t].ckpt].call \in Cards /\ store[turn[t].ckpt].call # None
  BY <1>2, <1>4, TypeByParts, NumbersAreNot DEF Found, Row
<1>6. TypeOK'
  BY <1>1, <1>2, TypeByParts, TypeByPartsNext
<1>7. TurnsAreShaped'
  <2>1. Shaped(t, w)
    BY <1>3, <1>4, <1>5 DEF Shaped
  <2>. QED  BY <1>1, <1>2, <2>1, ShapeOfEach, ShapeOfEachNext
<1>8. RivalsAreKnown'
  BY <1>1, <1>2 DEF RivalsAreKnown, Active, Spoiled
<1>9. NamesAreFresh'
  BY <1>1, <1>2 DEF NamesAreFresh
<1>10. NumbersAreUsed'
  BY <1>1, <1>2, <1>4, <1>5 DEF NumbersAreUsed, Found
<1>11. CallsHaveOneRun'
  <2>1. /\ \A d \in Turns : store[d].card # None /\ store[d].call = store[turn[t].ckpt].call => d = turn[t].ckpt
        /\ \A u \in Turns : turn[u].call # None /\ turn[u].call = store[turn[t].ckpt].call =>
              turn[u].ckpt = turn[t].ckpt
    BY <1>2, <1>4 DEF CallsHaveOneRun, Found
  <2>. QED  BY <1>1, <1>2, <1>4, <2>1 DEF CallsHaveOneRun
<1>12. QuestionsAreOfOneCall'
  BY <1>1, <1>2, <1>4 DEF QuestionsAreOfOneCall
<1>13. AloneIsTold'
  <2>1. turn[t].rivals = {} /\ Answers(t) => store[turn[t].ckpt].call = turn[t].shown
    BY <1>2 DEF AloneIsTold, Answers
  <2>. QED  BY <1>1, <1>2, <1>4, <2>1, OthersRest DEF AloneIsTold
<1>14. \A u, c \in Turns : Holds(u, c) => Holding(turn'[u], c)
  BY <1>1 DEF Holds, Holding
<1>15. CardIsBacked'
  <2>1. pending # NoCard => pending.ckpt \in Turns
    BY <1>2, TypeByParts DEF Card
  <2>. QED  BY <1>1, <1>2, <1>14, <2>1, CardIsBackedNext DEF CardIsBacked, Spoiled
<1>16. DoneIsNotOffered'
  <2>1. \A k : DoneBy(executed', k) <=> Done(k)
    BY DEF Done, DoneBy
  <2>2. turn[t].ckpt \notin spoiled => ~Done(store[turn[t].ckpt].call)
    BY <1>2, <1>4 DEF DoneIsNotOffered, Found, Spoiled
  <2>3. \A u \in Turns : turn'[u].call # None /\ turn'[u].ckpt \notin spoiled => ~Done(turn'[u].call)
    BY <1>1, <1>2, <2>2 DEF DoneIsNotOffered, Spoiled
  <2>4. \A c \in Turns : store[c].card # None /\ c \notin spoiled /\ Done(store[c].call) =>
          /\ pending # NoCard /\ pending.ckpt = c => \E u \in Turns : Holding(turn'[u], c)
          /\ \A u \in Turns : turn'[u].ckpt = c =>
                turn'[u].engine \notin {"restore", "resume"} /\ turn'[u].event # "interrupt"
    BY <1>1, <1>2, <1>14 DEF DoneIsNotOffered, Spoiled
  <2>. QED  BY <2>1, <2>3, <2>4, DoneIsNotOfferedNext
<1>. QED  BY <1>6, <1>7, <1>8, <1>9, <1>10, <1>11, <1>12, <1>13, <1>15, <1>16 DEF ChatInv

\* An approved call runs.
LEMMA CallRuns ==
  ASSUME ChatInv, NEW t \in Turns, NEW w \in TurnSet, turn' = [turn EXCEPT ![t] = w],
         UNCHANGED <<pending, store, cards, spoiled, faults>>,
         turn[t].engine = "approved", executed' = executed \cup {<<t, turn[t].call>>},
         w.engine = "run", w.call = None,
         w.pc = turn[t].pc, w.ckpt = turn[t].ckpt, w.target = turn[t].target, w.event = turn[t].event,
         w.asked = turn[t].asked, w.shown = turn[t].shown, w.rivals = turn[t].rivals
  PROVE  ChatInv'
<1>1. /\ turn' \in [Turns -> TurnSet] /\ turn'[t] = w
      /\ \A u \in Turns : u # t => turn'[u] = turn[u]
  BY OneTurn DEF ChatInv
<1>2. /\ TypeOK /\ TurnsAreShaped /\ RivalsAreKnown /\ NamesAreFresh /\ NumbersAreUsed /\ CallsHaveOneRun
      /\ QuestionsAreOfOneCall /\ AloneIsTold /\ CardIsBacked /\ DoneIsNotOffered
  BY DEF ChatInv
<1>3. Shaped(t, turn[t]) /\ turn[t] \in TurnSet
  BY <1>2, ShapeOfEach, TypeByParts
<1>4. /\ turn[t].pc = "streaming" /\ turn[t].event = "none" /\ turn[t].asked = None
      /\ turn[t].target # None /\ turn[t].call # None /\ turn[t].call \in Cards /\ Active(t)
      /\ turn[t].ckpt \in Turns /\ turn[t].ckpt # None
  BY <1>3, NumbersAreNot DEF Shaped, TurnSet, ServicePhases, Active
<1>6. TypeOK'
  BY <1>1, <1>2, <1>4, TypeByParts, TypeByPartsNext
<1>7. TurnsAreShaped'
  <2>1. Shaped(t, w)
    BY <1>3, <1>4 DEF Shaped
  <2>. QED  BY <1>1, <1>2, <2>1, ShapeOfEach, ShapeOfEachNext
<1>8. RivalsAreKnown'
  BY <1>1, <1>2 DEF RivalsAreKnown, Active, Spoiled
<1>9. NamesAreFresh'
  BY <1>1, <1>2 DEF NamesAreFresh
<1>10. NumbersAreUsed'
  <2>1. cards \in Nat
    BY <1>2, TypeByParts
  <2>. QED  BY <1>1, <1>2, <1>4, <2>1 DEF NumbersAreUsed, None
<1>11. CallsHaveOneRun'
  BY <1>1, <1>2, <1>4 DEF CallsHaveOneRun
<1>12. QuestionsAreOfOneCall'
  BY <1>1, <1>2, <1>4 DEF QuestionsAreOfOneCall
<1>13. AloneIsTold'
  BY <1>1, <1>2, <1>4, OthersRest DEF AloneIsTold
<1>14. \A u, c \in Turns : Holds(u, c) => Holding(turn'[u], c)
  BY <1>1 DEF Holds, Holding
<1>15. CardIsBacked'
  <2>1. pending # NoCard => pending.ckpt \in Turns
    BY <1>2, TypeByParts DEF Card
  <2>. QED  BY <1>1, <1>2, <1>14, <2>1, CardIsBackedNext DEF CardIsBacked, Spoiled
<1>16. DoneIsNotOffered'
  <2>1. \A k : DoneBy(executed', k) => Done(k) \/ k = turn[t].call
    BY DEF Done, DoneBy
  <2>2. \A u \in Turns : u # t /\ turn[u].call = turn[t].call => turn[u].ckpt \in spoiled
    BY <1>2, <1>4 DEF CallsHaveOneRun, RivalsAreKnown, Spoiled
  <2>3. \A u \in Turns : turn'[u].call # None /\ turn'[u].ckpt \notin spoiled => ~DoneBy(executed', turn'[u].call)
    BY <1>1, <1>2, <2>1, <2>2 DEF DoneIsNotOffered, Spoiled
  <2>4. \A c \in Turns : store[c].card # None /\ store[c].call = turn[t].call => c = turn[t].ckpt
    BY <1>2, <1>4 DEF CallsHaveOneRun
  <2>5. Holding(turn'[t], turn[t].ckpt)
    BY <1>1, <1>4 DEF Holding
  <2>6. \A u \in Turns : turn[t].ckpt \notin spoiled /\ turn'[u].ckpt = turn[t].ckpt => u = t
    BY <1>1, <1>2, <1>4 DEF RivalsAreKnown, Spoiled
  <2>7. ASSUME NEW c \in Turns, store[c].card # None, c \notin spoiled, DoneBy(executed', store[c].call)
        PROVE  /\ pending # NoCard /\ pending.ckpt = c => \E u \in Turns : Holding(turn'[u], c)
               /\ \A u \in Turns : turn'[u].ckpt = c =>
                     turn'[u].engine \notin {"restore", "resume"} /\ turn'[u].event # "interrupt"
    <3>1. CASE Done(store[c].call)
      BY <1>1, <1>2, <1>4, <1>14, <2>7, <3>1 DEF DoneIsNotOffered, Spoiled
    <3>2. CASE store[c].call = turn[t].call
      BY <1>1, <1>4, <2>4, <2>5, <2>6, <2>7, <3>2
    <3>. QED  BY <2>1, <2>7, <3>1, <3>2
  <2>. QED  BY <2>3, <2>7, DoneIsNotOfferedNext
<1>. QED  BY <1>6, <1>7, <1>8, <1>9, <1>10, <1>11, <1>12, <1>13, <1>15, <1>16 DEF ChatInv

\* A call asks: its row is kept under the question's number, and the call's own is that
\* of its first question.
LEMMA Asks ==
  ASSUME ChatInv, NEW t \in Turns, NEW w \in TurnSet, turn' = [turn EXCEPT ![t] = w],
         UNCHANGED <<pending, executed, spoiled, faults>>,
         turn[t].engine = "run", cards < MaxCards, cards' = cards + 1,
         w.call = IF turn[t].call = None THEN cards + 1 ELSE turn[t].call,
         store' = [store EXCEPT ![turn[t].ckpt] = [card |-> cards + 1, call |-> w.call]],
         w.engine = "closed", (w.event = "none" /\ w.asked = None) \/ (w.event = "interrupt" /\ w.asked = cards + 1),
         w.pc = turn[t].pc, w.ckpt = turn[t].ckpt, w.target = turn[t].target,
         w.shown = turn[t].shown, w.rivals = turn[t].rivals
  PROVE  ChatInv'
<1>1. /\ turn' \in [Turns -> TurnSet] /\ turn'[t] = w
      /\ \A u \in Turns : u # t => turn'[u] = turn[u]
  BY OneTurn DEF ChatInv
<1>2. /\ TypeOK /\ TurnsAreShaped /\ RivalsAreKnown /\ NamesAreFresh /\ NumbersAreUsed /\ CallsHaveOneRun
      /\ QuestionsAreOfOneCall /\ AloneIsTold /\ CardIsBacked /\ DoneIsNotOffered
  BY DEF ChatInv
<1>3. Shaped(t, turn[t]) /\ turn[t] \in TurnSet
  BY <1>2, ShapeOfEach, TypeByParts
<1>4. /\ turn[t].pc = "streaming" /\ turn[t].event = "none" /\ turn[t].asked = None /\ Active(t)
      /\ turn[t].ckpt \in Turns /\ turn[t].ckpt # None /\ turn[t].call \in Cards \cup {None}
  BY <1>3, NumbersAreNot DEF Shaped, TurnSet, ServicePhases, Active
<1>5. /\ cards \in Nat /\ cards + 1 \in Cards /\ cards + 1 # None /\ w.call \in Cards /\ w.call # None
      /\ \A x \in Nat : x <= cards => x # cards + 1
      /\ turn[t].call = None => w.call = cards + 1
      /\ turn[t].call # None => w.call = turn[t].call
  BY <1>2, <1>4, TypeByParts, ChatAssumption DEF Cards, None
<1>17. /\ store'[turn[t].ckpt] = [card |-> cards + 1, call |-> w.call]
       /\ store'[turn[t].ckpt] \in Row
       /\ store' \in [Turns -> Row \cup {NoRow, AgedRow}]
       /\ \A c \in Turns : c # turn[t].ckpt => store'[c] = store[c]
  BY <1>2, <1>4, <1>5, TypeByParts DEF Row
<1>18. store'[turn[t].ckpt].card = cards + 1 /\ store'[turn[t].ckpt].call = w.call
  BY <1>17
<1>19. Cards \subseteq Nat /\ None \in Nat
  BY DEF Cards, None
<1>20. /\ pending # NoCard => pending.card # cards + 1 /\ pending.ckpt \in Turns
       /\ \A u \in Turns : turn[u].target # cards + 1 /\ turn[u].asked # cards + 1 /\ turn[u].call # cards + 1
       /\ \A c \in Turns : store[c].card # None => store[c].card # cards + 1 /\ store[c].call # cards + 1
       /\ \A x \in executed : x[2] # cards + 1
  <2>1. pending # NoCard => pending.card \in Nat /\ pending.card <= cards /\ pending.ckpt \in Turns
    BY <1>2, <1>19, TypeByParts DEF NumbersAreUsed, Card
  <2>2. ASSUME NEW u \in Turns
        PROVE  /\ turn[u].target \in Nat /\ turn[u].asked \in Nat /\ turn[u].call \in Nat
               /\ turn[u].target <= cards /\ turn[u].asked <= cards /\ turn[u].call <= cards
    <3>1. turn[u] \in TurnSet
      BY <1>2, TypeByParts
    <3>. QED  BY <1>2, <1>19, <3>1 DEF NumbersAreUsed, TurnSet
  <2>3. ASSUME NEW c \in Turns, store[c].card # None
        PROVE  store[c].card \in Nat /\ store[c].call \in Nat /\ store[c].card <= cards /\ store[c].call <= cards
    <3>1. store[c] \in Row
      BY <1>2, <2>3, TypeByParts, NumbersAreNot
    <3>. QED  BY <1>2, <1>19, <2>3, <3>1 DEF NumbersAreUsed, Row
  <2>4. \A x \in executed : x[2] \in Nat /\ x[2] <= cards
    BY <1>2, <1>19, TypeByParts DEF NumbersAreUsed
  <2>. QED  BY <1>5, <2>1, <2>2, <2>3, <2>4
<1>6. TypeOK'
  <2>1. cards' \in 0 .. MaxCards
    BY <1>5, ChatAssumption
  <2>. QED  BY <1>1, <1>2, <1>17, <2>1, TypeByParts, TypeByPartsNext
<1>7. TurnsAreShaped'
  <2>1. Shaped(t, w)
    BY <1>3, <1>4, <1>5 DEF Shaped
  <2>. QED  BY <1>1, <1>2, <2>1, ShapeOfEach, ShapeOfEachNext
<1>8. RivalsAreKnown'
  BY <1>1, <1>2 DEF RivalsAreKnown, Active, Spoiled
<1>9. NamesAreFresh'
  BY <1>1, <1>2, <1>4, <1>17 DEF NamesAreFresh
<1>10. NumbersAreUsed'
  <2>1. \A x \in Nat : x <= cards => x <= cards'
    BY <1>5
  <2>2. pending # NoCard => pending.card \in Nat /\ pending.call \in Nat
    BY <1>2, <1>19, TypeByParts DEF Card
  <2>3. \A u \in Turns : turn[u].target \in Nat /\ turn[u].asked \in Nat /\ turn[u].call \in Nat
    <3>1. \A u \in Turns : turn[u] \in TurnSet
      BY <1>2, TypeByParts
    <3>. QED  BY <1>19, <3>1 DEF TurnSet
  <2>4. \A c \in Turns : store[c].card # None => store[c].card \in Nat /\ store[c].call \in Nat
    BY <1>2, <1>19, TypeByParts, NumbersAreNot DEF Row
  <2>5. \A x \in executed : x[2] \in Nat
    BY <1>2, <1>19, TypeByParts
  <2>6. \A u \in Turns : turn'[u].target <= cards' /\ turn'[u].asked <= cards' /\ turn'[u].call <= cards'
    <3>1. \A u \in Turns : turn[u].target <= cards' /\ turn[u].asked <= cards' /\ turn[u].call <= cards'
      BY <1>2, <2>1, <2>3 DEF NumbersAreUsed
    <3>2. cards + 1 <= cards' /\ None <= cards'
      BY <1>5 DEF None
    <3>. QED  BY <1>1, <1>5, <3>1, <3>2
  <2>7. \A c \in Turns : store'[c].card # None => store'[c].card <= cards' /\ store'[c].call <= cards'
    <3>1. w.call <= cards' /\ cards + 1 <= cards'
      BY <1>1, <1>5, <2>6
    <3>. QED  BY <1>2, <1>17, <1>18, <2>1, <2>4, <3>1 DEF NumbersAreUsed
  <2>8. pending # NoCard => pending.card <= cards' /\ pending.call <= cards'
    BY <1>2, <2>1, <2>2 DEF NumbersAreUsed
  <2>9. \A x \in executed : x[2] <= cards'
    BY <1>2, <2>1, <2>5 DEF NumbersAreUsed
  <2>. QED  BY <2>6, <2>7, <2>8, <2>9 DEF NumbersAreUsed
<1>11. CallsHaveOneRun'
  <2>1. /\ \A d \in Turns : store[d].card # None /\ store[d].call = w.call => d = turn[t].ckpt
        /\ \A u \in Turns : turn[u].call = w.call => turn[u].ckpt = turn[t].ckpt
    BY <1>2, <1>5, <1>20 DEF CallsHaveOneRun
  <2>. QED  BY <1>1, <1>2, <1>17, <1>18, <2>1 DEF CallsHaveOneRun
<1>12. QuestionsAreOfOneCall'
  <2>1. pending # NoCard /\ store'[pending.ckpt].card = pending.card => store'[pending.ckpt].call = pending.call
    BY <1>2, <1>17, <1>18, <1>20 DEF QuestionsAreOfOneCall
  <2>2. pending # NoCard => \A u \in Turns : turn'[u].target = pending.card => turn'[u].ckpt = pending.ckpt
    BY <1>1, <1>2 DEF QuestionsAreOfOneCall
  <2>3. ASSUME NEW u \in Turns, turn'[u].asked # None
        PROVE  /\ store'[turn'[u].ckpt].card = turn'[u].asked => store'[turn'[u].ckpt].call = turn'[u].call
               /\ pending # NoCard => pending.card # turn'[u].asked
               /\ \A v \in Turns : turn'[v].target # turn'[u].asked /\ (turn'[v].asked = turn'[u].asked => v = u)
    <3>1. CASE u = t
      <4>1. turn'[u].asked = cards + 1 /\ turn'[u].ckpt = turn[t].ckpt /\ turn'[u].call = w.call
        BY <1>1, <2>3, <3>1
      <4>. QED  BY <1>1, <1>18, <1>20, <3>1, <4>1
    <3>2. CASE u # t
      <4>1. turn'[u] = turn[u] /\ turn[u].asked # None /\ turn[u].asked # cards + 1
        BY <1>1, <1>20, <2>3, <3>2
      <4>2. turn[u].ckpt \in Turns
        <5>1. Shaped(u, turn[u]) /\ turn[u] \in TurnSet
          BY <1>2, ShapeOfEach, TypeByParts
        <5>. QED  BY <4>1, <5>1 DEF Shaped, TurnSet, ServicePhases
      <4>3. store'[turn[u].ckpt].card = turn[u].asked => store'[turn[u].ckpt].call = turn[u].call
        BY <1>2, <1>17, <1>18, <4>1, <4>2 DEF QuestionsAreOfOneCall
      <4>4. \A v \in Turns : turn'[v].target = turn[v].target /\ turn'[v].asked \in {turn[v].asked, None, cards + 1}
                             /\ (v # t => turn'[v].asked = turn[v].asked)
        BY <1>1
      <4>. QED  BY <1>2, <3>2, <4>1, <4>3, <4>4 DEF QuestionsAreOfOneCall
    <3>. QED  BY <3>1, <3>2
  <2>. QED  BY <2>1, <2>2, <2>3 DEF QuestionsAreOfOneCall
<1>13. AloneIsTold'
  BY <1>1, <1>2, <1>4, OthersRest DEF AloneIsTold
<1>14. \A u, c \in Turns : Holds(u, c) /\ c # turn[t].ckpt => Holding(turn'[u], c)
  BY <1>1 DEF Holds, Holding
<1>21. store'[turn[t].ckpt] # NoRow
  BY <1>17, NumbersAreNot
<1>15. CardIsBacked'
  <2>1. pending # NoCard /\ pending.ckpt \notin spoiled /\ store'[pending.ckpt] = NoRow =>
          \E u \in Turns : Holding(turn'[u], pending.ckpt)
    BY <1>2, <1>14, <1>17, <1>20, <1>21 DEF CardIsBacked, Spoiled
  <2>2. ASSUME NEW u \in Turns, turn'[u].ckpt # None, turn'[u].ckpt \notin spoiled
        PROVE  /\ turn'[u].event = "interrupt" => store'[turn'[u].ckpt] # NoRow
               /\ turn'[u].pc \in {"released", "draining"} /\ turn'[u].target # None =>
                     pending = NoCard \/ pending.ckpt # turn'[u].ckpt
    <3>1. turn'[u].ckpt = turn[u].ckpt /\ turn[u].ckpt \in Turns
      BY <1>1, <1>2, <2>2, TypeByParts DEF TurnSet
    <3>. QED  BY <1>1, <1>2, <1>4, <1>17, <1>21, <2>2, <3>1 DEF CardIsBacked, Spoiled
  <2>. QED  BY <2>1, <2>2, CardIsBackedNext
<1>16. DoneIsNotOffered'
  <2>1. \A k : DoneBy(executed', k) <=> Done(k)
    BY DEF Done, DoneBy
  <2>2. turn[t].ckpt \notin spoiled => ~Done(w.call)
    <3>1. ~Done(cards + 1)
      BY <1>20 DEF Done
    <3>. QED  BY <1>2, <1>5, <3>1 DEF DoneIsNotOffered, Spoiled
  <2>3. \A u \in Turns : turn'[u].call # None /\ turn'[u].ckpt \notin spoiled => ~Done(turn'[u].call)
    BY <1>1, <1>2, <2>2 DEF DoneIsNotOffered, Spoiled
  <2>4. \A c \in Turns : store'[c].card # None /\ c \notin spoiled /\ Done(store'[c].call) =>
          /\ pending # NoCard /\ pending.ckpt = c => \E u \in Turns : Holding(turn'[u], c)
          /\ \A u \in Turns : turn'[u].ckpt = c =>
                turn'[u].engine \notin {"restore", "resume"} /\ turn'[u].event # "interrupt"
    BY <1>1, <1>2, <1>14, <1>17, <1>18, <2>2 DEF DoneIsNotOffered, Spoiled
  <2>. QED  BY <2>1, <2>3, <2>4, DoneIsNotOfferedNext
<1>. QED  BY <1>6, <1>7, <1>8, <1>9, <1>10, <1>11, <1>12, <1>13, <1>15, <1>16 DEF ChatInv

\* A run ends and its row goes.
LEMMA RowGoes ==
  ASSUME ChatInv, NEW t \in Turns, NEW w \in TurnSet, turn' = [turn EXCEPT ![t] = w],
         UNCHANGED <<pending, cards, executed, spoiled, faults>>,
         store' = [store EXCEPT ![turn[t].ckpt] = NoRow],
         \/ turn[t].engine = "run" /\ turn[t].call = None /\ w.event = "done"
         \/ turn[t].engine = "cleanup" /\ w.event = turn[t].event,
         w.engine = "closed", w.pc = turn[t].pc, w.ckpt = turn[t].ckpt, w.target = turn[t].target,
         w.call = turn[t].call, w.asked = turn[t].asked, w.shown = turn[t].shown, w.rivals = turn[t].rivals
  PROVE  ChatInv'
<1>1. /\ turn' \in [Turns -> TurnSet] /\ turn'[t] = w
      /\ \A u \in Turns : u # t => turn'[u] = turn[u]
  BY OneTurn DEF ChatInv
<1>2. /\ TypeOK /\ TurnsAreShaped /\ RivalsAreKnown /\ NamesAreFresh /\ NumbersAreUsed /\ CallsHaveOneRun
      /\ QuestionsAreOfOneCall /\ AloneIsTold /\ CardIsBacked /\ DoneIsNotOffered
  BY DEF ChatInv
<1>3. Shaped(t, turn[t]) /\ turn[t] \in TurnSet
  BY <1>2, ShapeOfEach, TypeByParts
<1>4. /\ turn[t].pc \in {"streaming", "released", "draining"} /\ turn[t].event # "interrupt" /\ w.event # "interrupt"
      /\ turn[t].asked = None /\ Active(t) /\ turn[t].ckpt \in Turns /\ turn[t].ckpt # None
  BY <1>3, NumbersAreNot DEF Shaped, TurnSet, ServicePhases, Active
<1>5. /\ store'[turn[t].ckpt] = NoRow /\ store' \in [Turns -> Row \cup {NoRow, AgedRow}]
      /\ \A c \in Turns : c # turn[t].ckpt => store'[c] = store[c]
  BY <1>2, <1>4, TypeByParts
<1>17. \A c \in Turns : store'[c].card # None => c # turn[t].ckpt /\ store'[c] = store[c]
  BY <1>5, NumbersAreNot
<1>18. pending # NoCard => pending.ckpt \in Turns /\ pending.card # None
  BY <1>2, TypeByParts, NumbersAreNot DEF Card
<1>6. TypeOK'
  BY <1>1, <1>2, <1>5, TypeByParts, TypeByPartsNext
<1>7. TurnsAreShaped'
  <2>1. Shaped(t, w)
    BY <1>3, <1>4 DEF Shaped
  <2>. QED  BY <1>1, <1>2, <2>1, ShapeOfEach, ShapeOfEachNext
<1>8. RivalsAreKnown'
  BY <1>1, <1>2 DEF RivalsAreKnown, Active, Spoiled
<1>9. NamesAreFresh'
  BY <1>1, <1>2, <1>5 DEF NamesAreFresh
<1>10. NumbersAreUsed'
  BY <1>1, <1>2, <1>17 DEF NumbersAreUsed
<1>11. CallsHaveOneRun'
  BY <1>1, <1>2, <1>17 DEF CallsHaveOneRun
<1>12. QuestionsAreOfOneCall'
  <2>1. \A u \in Turns : turn[u].asked # None => turn[u].ckpt \in Turns
    <3>1. \A u \in Turns : Shaped(u, turn[u]) /\ turn[u] \in TurnSet
      BY <1>2, ShapeOfEach, TypeByParts
    <3>. QED  BY <3>1 DEF Shaped, TurnSet, ServicePhases
  <2>. QED  BY <1>1, <1>2, <1>17, <1>18, <2>1 DEF QuestionsAreOfOneCall
<1>13. AloneIsTold'
  BY <1>1, <1>2, <1>4, OthersRest DEF AloneIsTold
<1>14. \A u, c \in Turns : Holds(u, c) => (u = t /\ c = turn[t].ckpt) \/ Holding(turn'[u], c)
  BY <1>1 DEF Holds, Holding
<1>15. CardIsBacked'
  <2>1. ASSUME pending # NoCard, pending.ckpt \notin spoiled, store'[pending.ckpt] = NoRow
        PROVE  \E u \in Turns : Holding(turn'[u], pending.ckpt)
    <3>1. CASE pending.ckpt = turn[t].ckpt
      <4>1. turn[t].target # None
        BY <1>2, <1>3, <1>4, <2>1, <3>1 DEF NamesAreFresh, Shaped
      <4>2. turn[t].pc = "streaming"
        BY <1>2, <1>4, <2>1, <3>1, <4>1 DEF CardIsBacked, Spoiled
      <4>. QED  BY <1>1, <1>4, <3>1, <4>1, <4>2 DEF Holding
    <3>2. CASE pending.ckpt # turn[t].ckpt
      BY <1>2, <1>5, <1>14, <1>18, <2>1, <3>2 DEF CardIsBacked, Spoiled
    <3>. QED  BY <3>1, <3>2
  <2>2. ASSUME NEW u \in Turns, turn'[u].ckpt # None, turn'[u].ckpt \notin spoiled
        PROVE  /\ turn'[u].event = "interrupt" => store'[turn'[u].ckpt] # NoRow
               /\ turn'[u].pc \in {"released", "draining"} /\ turn'[u].target # None =>
                     pending = NoCard \/ pending.ckpt # turn'[u].ckpt
    <3>1. turn'[u].ckpt = turn[u].ckpt /\ turn[u].ckpt \in Turns
      BY <1>1, <1>2, <2>2, TypeByParts DEF TurnSet
    <3>2. CASE u = t
      BY <1>1, <1>2, <1>4, <2>2, <3>1, <3>2 DEF CardIsBacked, Spoiled
    <3>3. CASE u # t
      <4>1. turn[u].ckpt # turn[t].ckpt
        BY <1>2, <1>4, <2>2, <3>1, <3>3 DEF RivalsAreKnown, Spoiled
      <4>. QED  BY <1>1, <1>2, <1>5, <2>2, <3>1, <3>3, <4>1 DEF CardIsBacked, Spoiled
    <3>. QED  BY <3>2, <3>3
  <2>. QED  BY <2>1, <2>2, CardIsBackedNext
<1>16. DoneIsNotOffered'
  <2>1. \A k : DoneBy(executed', k) <=> Done(k)
    BY DEF Done, DoneBy
  <2>3. \A u \in Turns : turn'[u].call # None /\ turn'[u].ckpt \notin spoiled => ~Done(turn'[u].call)
    BY <1>1, <1>2 DEF DoneIsNotOffered, Spoiled
  <2>4. \A c \in Turns : store'[c].card # None /\ c \notin spoiled /\ Done(store'[c].call) =>
          /\ pending # NoCard /\ pending.ckpt = c => \E u \in Turns : Holding(turn'[u], c)
          /\ \A u \in Turns : turn'[u].ckpt = c =>
                turn'[u].engine \notin {"restore", "resume"} /\ turn'[u].event # "interrupt"
    BY <1>1, <1>2, <1>4, <1>14, <1>17 DEF DoneIsNotOffered, Spoiled
  <2>. QED  BY <2>1, <2>3, <2>4, DoneIsNotOfferedNext
<1>. QED  BY <1>6, <1>7, <1>8, <1>9, <1>10, <1>11, <1>12, <1>13, <1>15, <1>16 DEF ChatInv

\* The question of a turn becomes the session's card.
LEMMA Stores ==
  ASSUME ChatInv, NEW t \in Turns, turn' = [turn EXCEPT ![t] = Over],
         UNCHANGED <<store, cards, executed, spoiled, faults>>, Streaming(t, "interrupt"),
         pending' = [ckpt |-> turn[t].ckpt, plan |-> turn[t].plan, card |-> turn[t].asked,
                     call |-> turn[t].call, expired |-> FALSE]
  PROVE  ChatInv'
<1>. DEFINE w == Over
<1>0. /\ w \in TurnSet /\ w.pc = "over" /\ w.engine = "off" /\ w.event = "none" /\ w.ckpt = None
      /\ w.target = None /\ w.call = None /\ w.asked = None /\ w.rivals = {}
  BY NewTurnFits DEF Over, NewTurn
<1>. HIDE DEF w
<1>. USE <1>0
<1>1. /\ turn' \in [Turns -> TurnSet] /\ turn'[t] = w
      /\ \A u \in Turns : u # t => turn'[u] = turn[u]
  BY OneTurn DEF ChatInv, w
<1>2. /\ TypeOK /\ TurnsAreShaped /\ RivalsAreKnown /\ NamesAreFresh /\ NumbersAreUsed /\ CallsHaveOneRun
      /\ QuestionsAreOfOneCall /\ AloneIsTold /\ CardIsBacked /\ DoneIsNotOffered
  BY DEF ChatInv
<1>3. Shaped(t, turn[t]) /\ turn[t] \in TurnSet
  BY <1>2, ShapeOfEach, TypeByParts
<1>4. /\ turn[t].pc = "streaming" /\ turn[t].event = "interrupt" /\ turn[t].asked # None /\ turn[t].call # None
      /\ turn[t].asked \in Cards /\ turn[t].call \in Cards /\ turn[t].plan \in BOOLEAN
      /\ turn[t].ckpt \in Turns /\ turn[t].ckpt # None /\ Active(t)
  BY <1>3, NumbersAreNot DEF Shaped, TurnSet, Streaming, Active
<1>5. /\ pending' \in Card /\ pending' # NoCard /\ pending'.ckpt = turn[t].ckpt
      /\ pending'.card = turn[t].asked /\ pending'.call = turn[t].call
  <2>1. pending' \in Card
    BY <1>4 DEF Card
  <2>. QED  BY <2>1, NumbersAreNot
<1>6. TypeOK'
  BY <1>1, <1>2, <1>5, TypeByParts, TypeByPartsNext
<1>7. TurnsAreShaped'
  <2>1. Shaped(t, w)
    BY DEF Shaped
  <2>. QED  BY <1>1, <1>2, <2>1, ShapeOfEach, ShapeOfEachNext
<1>17. \A u \in Turns : turn'[u].ckpt = None \/ (u # t /\ turn'[u] = turn[u])
  BY <1>1
<1>8. RivalsAreKnown'
  BY <1>1, <1>2, <1>4 DEF RivalsAreKnown, Active, Spoiled
<1>9. NamesAreFresh'
  BY <1>1, <1>2, <1>4, <1>5, NumbersAreNot DEF NamesAreFresh
<1>10. NumbersAreUsed'
  <2>1. cards \in Nat
    BY <1>2, TypeByParts
  <2>. QED  BY <1>1, <1>2, <1>5, <2>1 DEF NumbersAreUsed, None
<1>11. CallsHaveOneRun'
  BY <1>1, <1>2, <1>4 DEF CallsHaveOneRun
<1>12. QuestionsAreOfOneCall'
  BY <1>1, <1>2, <1>4, <1>5 DEF QuestionsAreOfOneCall
<1>13. AloneIsTold'
  BY <1>1, <1>2, <1>4, OthersRest DEF AloneIsTold
<1>14. \A u \in Turns : turn[t].ckpt \notin spoiled /\ turn[u].ckpt = turn[t].ckpt => u = t
  BY <1>2, <1>4 DEF RivalsAreKnown, Spoiled
<1>18. store[turn[t].ckpt] # NoRow \/ turn[t].ckpt \in spoiled
  BY <1>2, <1>4 DEF CardIsBacked, Spoiled
<1>15. CardIsBacked'
  BY <1>1, <1>2, <1>5, <1>14, <1>18, CardIsBackedNext DEF CardIsBacked, Spoiled
<1>16. DoneIsNotOffered'
  <2>1. \A k : DoneBy(executed', k) <=> Done(k)
    BY DEF Done, DoneBy
  <2>3. \A u \in Turns : turn'[u].call # None /\ turn'[u].ckpt \notin spoiled => ~Done(turn'[u].call)
    BY <1>1, <1>2 DEF DoneIsNotOffered, Spoiled
  <2>4. \A c \in Turns : store[c].card # None /\ c \notin spoiled /\ Done(store[c].call) =>
          /\ c # turn[t].ckpt
          /\ \A u \in Turns : turn'[u].ckpt = c =>
                turn'[u].engine \notin {"restore", "resume"} /\ turn'[u].event # "interrupt"
    BY <1>1, <1>2, <1>4 DEF DoneIsNotOffered, Spoiled
  <2>. QED  BY <1>5, <2>1, <2>3, <2>4, DoneIsNotOfferedNext
<1>. QED  BY <1>6, <1>7, <1>8, <1>9, <1>10, <1>11, <1>12, <1>13, <1>15, <1>16 DEF ChatInv

-----------------------------------------------------------------------------
(* What is not one turn's own.                                             *)

\* A message is sent: its turn and those that are active know of each other.
LEMMA Sends ==
  ASSUME ChatInv, NEW t \in Turns, NEW approves \in BOOLEAN, SendMessage(t, approves)
  PROVE  ChatInv'
<1>2. /\ TypeOK /\ TurnsAreShaped /\ RivalsAreKnown /\ NamesAreFresh /\ NumbersAreUsed /\ CallsHaveOneRun
      /\ QuestionsAreOfOneCall /\ AloneIsTold /\ CardIsBacked /\ DoneIsNotOffered
  BY DEF ChatInv
<1>. DEFINE active == {u \in Turns : Active(u)}
            told == IF pending = NoCard THEN None ELSE pending.call
            w == [NewTurn EXCEPT !.pc = "sent", !.approves = approves, !.shown = told, !.rivals = active]
<1>3. /\ UNCHANGED <<pending, store, cards, executed, spoiled, faults>> /\ turn[t].pc = "unsent"
      /\ turn' = [u \in Turns |-> CASE u = t -> w
                                    [] u \in active -> [turn[u] EXCEPT !.rivals = @ \cup {t}]
                                    [] OTHER -> turn[u]]
  BY DEF SendMessage
<1>4. told \in Cards \cup {None} /\ active \subseteq Turns
  BY <1>2, TypeByParts DEF Card
<1>5. /\ w \in TurnSet /\ w.pc = "sent" /\ w.engine = "off" /\ w.event = "none" /\ w.shown = told
      /\ w.target = None /\ w.ckpt = None /\ w.call = None /\ w.asked = None /\ w.rivals = active
  <2>1. /\ NewTurn.engine = "off" /\ NewTurn.event = "none" /\ NewTurn.target = None /\ NewTurn.ckpt = None
        /\ NewTurn.call = None /\ NewTurn.asked = None /\ "sent" \in ServicePhases
    BY DEF NewTurn, ServicePhases
  <2>2. w = [NewTurn EXCEPT !.pc = "sent", !.approves = approves, !.shown = told, !.rivals = active]
    OBVIOUS
  <2>. HIDE DEF told, active, w
  <2>. QED  BY <1>4, <2>1, <2>2, NewTurnFits DEF TurnSet
<1>6. turn'[t] = w /\ t \notin active
  BY <1>3 DEF Active
<1>7. \A u \in Turns : u \in active =>
        /\ turn'[u] = [turn[u] EXCEPT !.rivals = @ \cup {t}] /\ u # t
  <2>. HIDE DEF active, w
  <2>. QED  BY <1>3, <1>6
<1>8. \A u \in Turns : u # t /\ u \notin active => turn'[u] = turn[u]
  <2>. HIDE DEF active, w
  <2>. QED  BY <1>3
<1>. HIDE DEF w, told
<1>9. \A u \in Turns : turn[u] \in TurnSet /\ Shaped(u, turn[u])
  BY <1>2, TypeByParts, ShapeOfEach
<1>10. ASSUME NEW u \in Turns, u # t
       PROVE  /\ turn'[u] \in TurnSet /\ turn'[u].pc = turn[u].pc /\ turn'[u].engine = turn[u].engine
              /\ turn'[u].event = turn[u].event /\ turn'[u].approves = turn[u].approves
              /\ turn'[u].shown = turn[u].shown /\ turn'[u].target = turn[u].target
              /\ turn'[u].ckpt = turn[u].ckpt /\ turn'[u].call = turn[u].call /\ turn'[u].asked = turn[u].asked
              /\ turn'[u].rivals = IF Active(u) THEN turn[u].rivals \cup {t} ELSE turn[u].rivals
  <2>1. turn[u] \in TurnSet
    BY <1>9
  <2>2. CASE u \in active
    <3>1. turn'[u] = [turn[u] EXCEPT !.rivals = @ \cup {t}]
      BY <1>7, <2>2
    <3>. QED  BY <2>1, <2>2, <3>1 DEF TurnSet
  <2>3. CASE u \notin active
    BY <1>8, <1>10, <2>1, <2>3
  <2>. QED  BY <2>2, <2>3
<1>11. /\ turn[t].engine = "off" /\ turn[t].event = "none" /\ turn[t].target = None /\ turn[t].ckpt = None
       /\ turn[t].call = None /\ turn[t].asked = None
  BY <1>3, <1>9 DEF Shaped
<1>12. \A u \in Turns :
         /\ turn'[u].engine = turn[u].engine /\ turn'[u].event = turn[u].event /\ turn'[u].target = turn[u].target
         /\ turn'[u].ckpt = turn[u].ckpt /\ turn'[u].call = turn[u].call /\ turn'[u].asked = turn[u].asked
         /\ turn'[u].pc = IF u = t THEN "sent" ELSE turn[u].pc
  <2>. HIDE DEF active
  <2>1. ASSUME NEW u \in Turns, u # t
        PROVE  /\ turn'[u].engine = turn[u].engine /\ turn'[u].event = turn[u].event
               /\ turn'[u].target = turn[u].target /\ turn'[u].ckpt = turn[u].ckpt
               /\ turn'[u].call = turn[u].call /\ turn'[u].asked = turn[u].asked /\ turn'[u].pc = turn[u].pc
    BY ONLY <1>10, <2>1
  <2>2. /\ turn'[t].engine = turn[t].engine /\ turn'[t].event = turn[t].event
        /\ turn'[t].target = turn[t].target /\ turn'[t].ckpt = turn[t].ckpt
        /\ turn'[t].call = turn[t].call /\ turn'[t].asked = turn[t].asked /\ turn'[t].pc = "sent"
    BY ONLY <1>5, <1>6, <1>11
  <2>. QED  BY ONLY <2>1, <2>2
<1>13. TypeOK'
  <2>1. turn' \in [Turns -> TurnSet]
    <3>1. \A u \in Turns : turn'[u] \in TurnSet
      BY <1>5, <1>6, <1>10
    <3>2. DOMAIN turn' = Turns /\ turn' = [u \in Turns |-> turn'[u]]
      BY <1>3
    <3>. QED  BY <3>1, <3>2
  <2>. QED  BY <1>2, <1>3, <2>1, TypeByParts, TypeByPartsNext
<1>14. TurnsAreShaped'
  <2>1. \A u \in Turns : u # t => Shaped(u, turn'[u])
    <3>1. ASSUME NEW u \in Turns, u # t
          PROVE  Shaped(u, turn'[u])
      <4>1. Shaped(u, turn[u])
        BY <1>9
      <4>2. /\ turn'[u].pc = turn[u].pc /\ turn'[u].engine = turn[u].engine
            /\ turn'[u].event = turn[u].event /\ turn'[u].approves = turn[u].approves
            /\ turn'[u].target = turn[u].target
            /\ turn'[u].ckpt = turn[u].ckpt /\ turn'[u].call = turn[u].call /\ turn'[u].asked = turn[u].asked
        BY ONLY <1>10, <3>1
      <4>. QED  BY ONLY <4>1, <4>2 DEF Shaped
    <3>. QED  BY ONLY <3>1
  <2>2. Shaped(t, turn'[t])
    BY <1>5, <1>6 DEF Shaped
  <2>. QED  BY <2>1, <2>2, ShapeOfEachNext
<1>15. RivalsAreKnown'
  <2>1. \A u \in Turns : Active(u)' <=> u = t \/ Active(u)
    BY <1>12 DEF Active
  <2>2. ASSUME NEW u \in Turns, NEW v \in Turns, u # v, Active(u)', Active(v)'
        PROVE  v \in turn'[u].rivals
    <3>1. CASE u = t
      <4>1. Active(v)
        BY <2>1, <2>2, <3>1
      <4>. QED  BY <1>5, <1>6, <3>1, <4>1
    <3>2. CASE u # t
      <4>1. Active(u) /\ turn'[u].rivals = turn[u].rivals \cup {t}
        BY <1>10, <2>1, <2>2, <3>2
      <4>2. v # t => v \in turn[u].rivals
        BY <1>2, <2>1, <2>2, <4>1 DEF RivalsAreKnown
      <4>. QED  BY <4>1, <4>2
    <3>. QED  BY <3>1, <3>2
  <2>3. \A u, v \in Turns :
           u # v /\ turn'[u].ckpt # None /\ turn'[u].ckpt = turn'[v].ckpt => turn'[u].ckpt \in spoiled'
    BY <1>2, <1>3, <1>12 DEF RivalsAreKnown, Spoiled
  <2>. QED  BY <2>2, <2>3 DEF RivalsAreKnown, Spoiled
<1>16. NamesAreFresh'
  <2>1. \A u \in Turns : turn'[u].pc # "over" <=> turn[u].pc # "over"
    BY <1>3, <1>12
  <2>. QED  BY <1>2, <1>3, <1>12, <2>1 DEF NamesAreFresh
<1>17. NumbersAreUsed'
  BY <1>2, <1>3, <1>12 DEF NumbersAreUsed
<1>18. CallsHaveOneRun'
  BY <1>2, <1>3, <1>12 DEF CallsHaveOneRun
<1>19. QuestionsAreOfOneCall'
  BY <1>2, <1>3, <1>12 DEF QuestionsAreOfOneCall
<1>20. AloneIsTold'
  <2>1. \A u \in Turns : u # t /\ turn'[u].rivals = {} => turn'[u] = turn[u]
    BY <1>8, <1>10
  <2>. QED  BY <1>2, <1>3, <1>5, <1>6, <2>1 DEF AloneIsTold, told
<1>21. \A u, c \in Turns : Holds(u, c) => Holding(turn'[u], c)
  BY <1>3, <1>12 DEF Holds, Holding
<1>22. CardIsBacked'
  <2>1. pending # NoCard => pending.ckpt \in Turns
    BY <1>2, TypeByParts DEF Card
  <2>2. \A u \in Turns : turn'[u].pc \in {"released", "draining"} => turn[u].pc \in {"released", "draining"}
    BY <1>12
  <2>3. pending # NoCard /\ pending.ckpt \notin spoiled /\ store[pending.ckpt] = NoRow =>
          \E u \in Turns : Holding(turn'[u], pending.ckpt)
    BY <1>2, <1>21, <2>1 DEF CardIsBacked, Spoiled
  <2>4. ASSUME NEW u \in Turns, turn'[u].ckpt # None, turn'[u].ckpt \notin spoiled
        PROVE  /\ turn'[u].event = "interrupt" => store[turn'[u].ckpt] # NoRow
               /\ turn'[u].pc \in {"released", "draining"} /\ turn'[u].target # None =>
                     pending = NoCard \/ pending.ckpt # turn'[u].ckpt
    <3>1. turn'[u].ckpt = turn[u].ckpt /\ turn'[u].event = turn[u].event /\ turn'[u].target = turn[u].target
      BY ONLY <1>12, <2>4
    <3>. QED  BY ONLY <1>2, <2>2, <2>4, <3>1 DEF CardIsBacked, Spoiled
  <2>. QED  BY ONLY <1>3, <2>3, <2>4, CardIsBackedNext
<1>23. DoneIsNotOffered'
  <2>1. \A k : DoneBy(executed', k) <=> Done(k)
    BY <1>3 DEF Done, DoneBy
  <2>2. ASSUME NEW u \in Turns, turn'[u].call # None, turn'[u].ckpt \notin spoiled
        PROVE  ~Done(turn'[u].call)
    <3>1. turn'[u].ckpt = turn[u].ckpt /\ turn'[u].call = turn[u].call
      BY ONLY <1>12, <2>2
    <3>. QED  BY ONLY <1>2, <2>2, <3>1 DEF DoneIsNotOffered, Spoiled
  <2>3. ASSUME NEW c \in Turns, store[c].card # None, c \notin spoiled, Done(store[c].call)
        PROVE  /\ pending # NoCard /\ pending.ckpt = c => \E u \in Turns : Holding(turn'[u], c)
               /\ \A u \in Turns : turn'[u].ckpt = c =>
                     turn'[u].engine \notin {"restore", "resume"} /\ turn'[u].event # "interrupt"
    <3>1. \A u \in Turns : /\ turn'[u].ckpt = turn[u].ckpt /\ turn'[u].engine = turn[u].engine
                           /\ turn'[u].event = turn[u].event
      BY ONLY <1>12
    <3>. QED  BY ONLY <1>2, <1>21, <2>3, <3>1 DEF DoneIsNotOffered, Spoiled
  <2>. QED  BY ONLY <1>3, <2>1, <2>2, <2>3, DoneIsNotOfferedNext
<1>. QED  BY <1>13, <1>14, <1>15, <1>16, <1>17, <1>18, <1>19, <1>20, <1>22, <1>23 DEF ChatInv

\* A row is too old: it is not found, and it is not a row that was deleted.
LEMMA RowAges ==
  ASSUME ChatInv, NEW c \in Turns, RowExpires(c)
  PROVE  ChatInv'
<1>2. /\ TypeOK /\ TurnsAreShaped /\ RivalsAreKnown /\ NamesAreFresh /\ NumbersAreUsed /\ CallsHaveOneRun
      /\ QuestionsAreOfOneCall /\ AloneIsTold /\ CardIsBacked /\ DoneIsNotOffered
  BY DEF ChatInv
<1>3. UNCHANGED <<turn, pending, cards, executed, spoiled, faults>> /\ store[c].card # None
  BY DEF RowExpires
<1>4. /\ store' \in [Turns -> Row \cup {NoRow, AgedRow}] /\ store'[c] = AgedRow
      /\ \A d \in Turns : d # c => store'[d] = store[d]
  BY <1>2, TypeByParts DEF RowExpires
<1>5. \A d \in Turns : store'[d].card # None => store'[d] = store[d]
  BY <1>4, NumbersAreNot
<1>6. \A d \in Turns : store'[d] = NoRow <=> store[d] = NoRow
  BY <1>3, <1>4, NumbersAreNot
<1>7. pending # NoCard => pending.ckpt \in Turns /\ pending.card # None
  BY <1>2, TypeByParts, NumbersAreNot DEF Card
<1>8. \A u \in Turns : /\ turn[u].ckpt = None \/ turn[u].ckpt \in Turns
                       /\ turn[u].asked # None \/ turn[u].engine \in {"restore", "resume"} =>
                             turn[u].ckpt \in Turns
  <2>1. \A u \in Turns : Shaped(u, turn[u]) /\ turn[u] \in TurnSet
    BY <1>2, ShapeOfEach, TypeByParts
  <2>. QED  BY <2>1 DEF Shaped, TurnSet, ServicePhases
<1>9. TypeOK'
  BY <1>2, <1>3, <1>4, TypeByParts, TypeByPartsNext
<1>10. TurnsAreShaped' /\ RivalsAreKnown'
  BY <1>2, <1>3 DEF TurnsAreShaped, RivalsAreKnown, Active, Spoiled
<1>11. NamesAreFresh'
  BY <1>2, <1>3, <1>6 DEF NamesAreFresh
<1>12. NumbersAreUsed'
  BY <1>2, <1>3, <1>5 DEF NumbersAreUsed
<1>13. CallsHaveOneRun'
  BY <1>2, <1>3, <1>5 DEF CallsHaveOneRun
<1>14. QuestionsAreOfOneCall'
  BY <1>2, <1>3, <1>5, <1>7, <1>8 DEF QuestionsAreOfOneCall
<1>15. AloneIsTold'
  <2>1. \A u \in Turns : turn[u].engine \in {"restore", "resume"} /\ store'[turn[u].ckpt].card = turn[u].target =>
            store'[turn[u].ckpt] = store[turn[u].ckpt]
    <3>1. \A u \in Turns : turn[u].engine \in {"restore", "resume"} => turn[u].target # None
      BY <1>2, ShapeOfEach DEF Shaped
    <3>. QED  BY <1>5, <1>8, <3>1
  <2>. QED  BY <1>2, <1>3, <2>1 DEF AloneIsTold
<1>16. CardIsBacked'
  BY <1>2, <1>3, <1>6, <1>7, <1>8, CardIsBackedNext, HoldsIsHolding DEF CardIsBacked, Spoiled
<1>17. DoneIsNotOffered'
  <2>1. \A k : DoneBy(executed', k) <=> Done(k)
    BY <1>3 DEF Done, DoneBy
  <2>. QED  BY <1>2, <1>3, <1>5, <2>1, DoneIsNotOfferedNext, HoldsIsHolding DEF DoneIsNotOffered, Spoiled
<1>. QED  BY <1>9, <1>10, <1>11, <1>12, <1>13, <1>14, <1>15, <1>16, <1>17 DEF ChatInv

\* The card is too old.
LEMMA CardAges ==
  ASSUME ChatInv, CardExpires
  PROVE  ChatInv'
<1>2. /\ TypeOK /\ TurnsAreShaped /\ RivalsAreKnown /\ NamesAreFresh /\ NumbersAreUsed /\ CallsHaveOneRun
      /\ QuestionsAreOfOneCall /\ AloneIsTold /\ CardIsBacked /\ DoneIsNotOffered
  BY DEF ChatInv
<1>3. UNCHANGED <<turn, store, cards, executed, spoiled, faults>> /\ pending # NoCard /\ pending \in Card
  BY <1>2, TypeByParts DEF CardExpires
<1>4. /\ pending' \in Card /\ pending' # NoCard /\ pending'.ckpt = pending.ckpt /\ pending'.card = pending.card
      /\ pending'.call = pending.call /\ pending'.expired
  <2>1. pending' = [pending EXCEPT !.expired = TRUE]
    BY DEF CardExpires
  <2>2. pending' \in Card
    BY <1>3, <2>1 DEF Card
  <2>. QED  BY <1>3, <2>1, <2>2, NumbersAreNot DEF Card
<1>9. TypeOK'
  BY <1>2, <1>3, <1>4, TypeByParts, TypeByPartsNext
<1>10. TurnsAreShaped' /\ RivalsAreKnown' /\ CallsHaveOneRun'
  BY <1>2, <1>3 DEF TurnsAreShaped, RivalsAreKnown, Active, Spoiled, CallsHaveOneRun
<1>11. NamesAreFresh'
  BY <1>2, <1>3, <1>4 DEF NamesAreFresh
<1>12. NumbersAreUsed'
  BY <1>2, <1>3, <1>4 DEF NumbersAreUsed
<1>14. QuestionsAreOfOneCall'
  BY <1>2, <1>3, <1>4 DEF QuestionsAreOfOneCall
<1>15. AloneIsTold'
  BY <1>2, <1>3, <1>4 DEF AloneIsTold
<1>16. CardIsBacked'
  BY <1>2, <1>3, <1>4, CardIsBackedNext, HoldsIsHolding DEF CardIsBacked, Spoiled
<1>17. DoneIsNotOffered'
  <2>1. \A k : DoneBy(executed', k) <=> Done(k)
    BY <1>3 DEF Done, DoneBy
  <2>. QED  BY <1>2, <1>3, <1>4, <2>1, DoneIsNotOfferedNext, HoldsIsHolding DEF DoneIsNotOffered, Spoiled
<1>. QED  BY <1>9, <1>10, <1>11, <1>12, <1>14, <1>15, <1>16, <1>17 DEF ChatInv

\* The process dies: no turn is active afterwards, and what they worked on is spoiled.
LEMMA Crashes ==
  ASSUME ChatInv, Crash
  PROVE  ChatInv'
<1>2. /\ TypeOK /\ TurnsAreShaped /\ RivalsAreKnown /\ NamesAreFresh /\ NumbersAreUsed /\ CallsHaveOneRun
      /\ QuestionsAreOfOneCall /\ AloneIsTold /\ CardIsBacked /\ DoneIsNotOffered
  BY DEF ChatInv
<1>3. /\ UNCHANGED <<pending, store, cards, executed>> /\ faults' \in 0 .. MaxFaults
      /\ turn' = [t \in Turns |-> IF Active(t) THEN Over ELSE turn[t]]
      /\ spoiled' = spoiled \cup ({turn[t].ckpt : t \in Turns} \ {None})
  <2>1. faults \in 0 .. MaxFaults
    BY <1>2, TypeByParts
  <2>. QED  BY <2>1, ChatAssumption DEF Crash
<1>4. /\ Over \in TurnSet /\ Over.pc = "over" /\ Over.engine = "off" /\ Over.event = "none" /\ Over.ckpt = None
      /\ Over.target = None /\ Over.call = None /\ Over.asked = None /\ Over.rivals = {}
  BY NewTurnFits DEF Over, NewTurn
<1>5. \A u \in Turns : turn[u] \in TurnSet /\ Shaped(u, turn[u])
  BY <1>2, TypeByParts, ShapeOfEach
<1>6. ASSUME NEW u \in Turns
      PROVE  /\ turn'[u] \in TurnSet /\ Shaped(u, turn'[u])
             /\ turn'[u].engine = "off" /\ turn'[u].event = "none" /\ turn'[u].ckpt = None
             /\ turn'[u].target = None /\ turn'[u].call = None /\ turn'[u].asked = None
             /\ turn'[u].pc \in {"unsent", "over"}
             /\ turn'[u].pc = "unsent" => turn'[u] = turn[u]
  <2>1. CASE Active(u)
    <3>1. turn'[u] = Over
      BY <1>3, <2>1
    <3>. QED  BY <1>4, <3>1 DEF Shaped
  <2>2. CASE ~Active(u)
    <3>1. turn'[u] = turn[u] /\ turn[u].pc \in {"unsent", "over"}
      BY <1>3, <2>2 DEF Active
    <3>. QED  BY <1>5, <3>1 DEF Shaped
  <2>. QED  BY <2>1, <2>2
<1>7. /\ spoiled \subseteq spoiled' /\ spoiled' \subseteq Turns
      /\ \A u, c \in Turns : turn[u].ckpt = c => c \in spoiled'
  <2>1. spoiled \subseteq Turns /\ \A u \in Turns : turn[u].ckpt \in Turns \cup {None}
    BY <1>2, <1>5, TypeByParts DEF TurnSet
  <2>. QED  BY <1>3, <2>1, NumbersAreNot
<1>9. TypeOK'
  <2>1. turn' \in [Turns -> TurnSet]
    BY <1>3, <1>4, <1>5
  <2>. QED  BY <1>2, <1>3, <1>7, <2>1, TypeByParts, TypeByPartsNext
<1>10. TurnsAreShaped' /\ RivalsAreKnown'
  BY <1>6, ShapeOfEachNext DEF RivalsAreKnown, Active
<1>11. NamesAreFresh'
  BY <1>2, <1>3, <1>6, NumbersAreNot DEF NamesAreFresh
<1>12. NumbersAreUsed'
  <2>1. cards \in Nat
    BY <1>2, TypeByParts
  <2>. QED  BY <1>2, <1>3, <1>6, <2>1 DEF NumbersAreUsed, None
<1>13. CallsHaveOneRun'
  BY <1>2, <1>3, <1>6 DEF CallsHaveOneRun
<1>14. QuestionsAreOfOneCall'
  <2>1. pending # NoCard => pending.card # None
    BY <1>2, TypeByParts, NumbersAreNot
  <2>. QED  BY <1>2, <1>3, <1>6, <2>1 DEF QuestionsAreOfOneCall
<1>15. AloneIsTold'
  BY <1>6 DEF AloneIsTold
<1>16. CardIsBacked'
  <2>1. pending # NoCard => pending.ckpt \in Turns
    BY <1>2, TypeByParts DEF Card
  <2>. QED  BY <1>2, <1>3, <1>6, <1>7, <2>1, CardIsBackedNext DEF CardIsBacked, Spoiled, Holds
<1>17. DoneIsNotOffered'
  <2>1. \A k : DoneBy(executed', k) <=> Done(k)
    BY <1>3 DEF Done, DoneBy
  <2>. QED  BY <1>2, <1>3, <1>6, <1>7, <2>1, NumbersAreNot, DoneIsNotOfferedNext DEF DoneIsNotOffered, Spoiled, Holds
<1>. QED  BY <1>9, <1>10, <1>11, <1>12, <1>13, <1>14, <1>15, <1>16, <1>17 DEF ChatInv

-----------------------------------------------------------------------------
(* The actions.                                                            *)

\* What is known of a turn that takes a step.
LEMMA OfOneTurn ==
  ASSUME ChatInv, NEW t \in Turns
  PROVE  /\ turn \in [Turns -> TurnSet] /\ turn[t] \in TurnSet /\ Shaped(t, turn[t])
         /\ faults \in 0 .. MaxFaults
BY TypeByParts, ShapeOfEach DEF ChatInv

LEMMA FieldsOfATurn ==
  \A w \in TurnSet : DOMAIN w = {"pc", "engine", "event", "approves", "shown", "target",
                                  "ckpt", "plan", "call", "asked", "cancelled", "rivals"}
BY DEF TurnSet

\* A failure of the engine is told with an event, unless the request is cancelled.
LEMMA SentIs == \A t \in Turns : \A event \in Sent(t, "error") : event \in {"error", "none"}
BY DEF Sent

\* A card that is taken away, or a fault.
LEMMA TakenAway ==
  ASSUME ChatInv, NEW t \in Turns, ClearPendingResume(t)
  PROVE  /\ faults' \in 0 .. MaxFaults
         /\ \/ pending' = NoCard /\ spoiled' = spoiled
            \/ pending' = pending /\ spoiled' = spoiled \cup ({turn[t].ckpt} \ {None})
<1>1. faults \in 0 .. MaxFaults
  BY OfOneTurn
<1>. QED  BY <1>1, ChatAssumption DEF ClearPendingResume

LEMMA TurnRefusedStays ==
  ASSUME ChatInv, NEW t \in Turns, TurnRefused(t)
  PROVE  ChatInv'
<1>1. /\ turn[t].pc = "sent" /\ turn' = [turn EXCEPT ![t] = Over] /\ faults' \in 0 .. MaxFaults
      /\ UNCHANGED <<pending, store, cards, executed, spoiled, faults>>
  BY OfOneTurn DEF TurnRefused
<1>2. Cleared(t) /\ Active(t)
  BY <1>1 DEF Cleared, Holds, Active
<1>. QED  BY <1>1, <1>2, LetsGo, NewTurnFits

\* The first run of a turn, its card being gone or too old.
LEMMA StartedStays ==
  ASSUME ChatInv, NEW t \in Turns, Started(t), turn[t].pc \in {"sent", "expired"},
         UNCHANGED <<store, cards, executed, spoiled>>, faults' \in 0 .. MaxFaults,
         pending' = NoCard \/ (pending' = pending /\ (pending.expired \/ turn[t].rivals # {}))
  PROVE  ChatInv'
<1>1. turn \in [Turns -> TurnSet] /\ turn[t] \in TurnSet
  BY OfOneTurn
<1>2. PICK plan \in BOOLEAN :
        turn' = [turn EXCEPT ![t].pc = "streaming", ![t].engine = "run",
                             ![t].approves = FALSE, ![t].shown = None,
                             ![t].ckpt = t, ![t].plan = plan]
  BY DEF Started
<1>. DEFINE w == [turn[t] EXCEPT !.pc = "streaming", !.engine = "run", !.approves = FALSE, !.shown = None,
                                 !.ckpt = t, !.plan = plan]
<1>3. turn' = [turn EXCEPT ![t] = w]
  <2>. HIDE DEF TurnSet
  <2>1. turn'[t] = w
    BY <1>1, <1>2
  <2>. QED  BY <1>1, <1>2, <2>1
<1>4. /\ w \in TurnSet /\ w.pc = "streaming" /\ w.engine = "run" /\ w.ckpt = t /\ w.event = turn[t].event
      /\ w.target = turn[t].target /\ w.call = turn[t].call /\ w.asked = turn[t].asked
      /\ w.rivals = turn[t].rivals
  BY <1>1 DEF TurnSet, EnginePhases, ServicePhases
<1>. HIDE DEF w
<1>. QED  BY <1>3, <1>4, Starts

LEMMA ApplyResumeStays ==
  ASSUME ChatInv, NEW t \in Turns, ApplyResumeParams(t)
  PROVE  ChatInv'
<1>1. /\ turn \in [Turns -> TurnSet] /\ turn[t] \in TurnSet /\ Shaped(t, turn[t]) /\ turn[t].pc = "sent"
      /\ UNCHANGED <<pending, store, cards, executed, faults>> /\ faults \in 0 .. MaxFaults
      /\ pending \in Card \cup {NoCard}
  BY OfOneTurn, TypeByParts DEF ApplyResumeParams, ChatInv
<1>2. /\ turn[t].engine = "off" /\ turn[t].event = "none" /\ turn[t].target = None /\ turn[t].asked = None
      /\ Active(t)
  BY <1>1 DEF Shaped, Active
<1>3. CASE pending = NoCard /\ Started(t) /\ UNCHANGED spoiled
  BY <1>1, <1>3, StartedStays
<1>4. CASE pending # NoCard /\ pending.expired /\ turn' = [turn EXCEPT ![t].pc = "expired"] /\ UNCHANGED spoiled
  <2>. DEFINE w == [turn[t] EXCEPT !.pc = "expired"]
  <2>1. turn' = [turn EXCEPT ![t] = w]
    BY <1>1, <1>4
  <2>2. /\ w \in TurnSet /\ w.pc = "expired" /\ w.engine = turn[t].engine
        /\ w.event = turn[t].event /\ w.approves = turn[t].approves /\ w.shown = turn[t].shown
        /\ w.target = turn[t].target /\ w.ckpt = turn[t].ckpt /\ w.call = turn[t].call
        /\ w.asked = turn[t].asked /\ w.rivals = turn[t].rivals
    <3>1. w \in TurnSet
      BY ONLY <1>1 DEF TurnSet, EnginePhases, ServicePhases
    <3>2. /\ w.pc = "expired" /\ w.engine = turn[t].engine /\ w.event = turn[t].event
          /\ w.approves = turn[t].approves /\ w.shown = turn[t].shown
      BY ONLY <1>1, FieldsOfATurn
    <3>3. /\ w.target = turn[t].target /\ w.ckpt = turn[t].ckpt /\ w.call = turn[t].call
          /\ w.asked = turn[t].asked /\ w.rivals = turn[t].rivals
      BY ONLY <1>1, FieldsOfATurn
    <3>. QED  BY ONLY <3>1, <3>2, <3>3
  <2>. HIDE DEF w
  <2>3. Shaped(t, w)
    BY <1>1, <1>2, <2>2 DEF Shaped
  <2>. QED  BY <1>1, <1>2, <1>4, <2>1, <2>2, <2>3, GoesOn DEF Holds
<1>5. CASE /\ pending # NoCard /\ ~pending.expired
           /\ turn' = [turn EXCEPT ![t].pc = "streaming", ![t].engine = "restore",
                                   ![t].target = pending.card, ![t].ckpt = pending.ckpt,
                                   ![t].plan = pending.plan]
           /\ spoiled' = IF Rivals(t, pending.ckpt) = {} THEN spoiled
                         ELSE spoiled \cup {pending.ckpt}
  <2>. DEFINE w == [turn[t] EXCEPT !.pc = "streaming", !.engine = "restore", !.target = pending.card,
                                  !.ckpt = pending.ckpt, !.plan = pending.plan]
  <2>0. pending.card \in Cards /\ pending.ckpt \in Turns /\ pending.plan \in BOOLEAN
    BY <1>1, <1>5 DEF Card
  <2>1. turn' = [turn EXCEPT ![t] = w]
    BY <1>1, <1>5
  <2>2. /\ w \in TurnSet /\ w.pc = "streaming" /\ w.engine = "restore"
        /\ w.event = turn[t].event /\ w.approves = turn[t].approves /\ w.shown = turn[t].shown
        /\ w.target = pending.card /\ w.ckpt = pending.ckpt /\ w.call = turn[t].call
        /\ w.asked = turn[t].asked /\ w.rivals = turn[t].rivals
    <3>1. w \in TurnSet
      BY ONLY <1>1, <2>0 DEF TurnSet, EnginePhases, ServicePhases
    <3>2. /\ w.pc = "streaming" /\ w.engine = "restore" /\ w.event = turn[t].event
          /\ w.approves = turn[t].approves /\ w.shown = turn[t].shown
      BY ONLY <1>1, FieldsOfATurn
    <3>3. /\ w.target = pending.card /\ w.ckpt = pending.ckpt /\ w.call = turn[t].call
          /\ w.asked = turn[t].asked /\ w.rivals = turn[t].rivals
      BY ONLY <1>1, FieldsOfATurn
    <3>. QED  BY ONLY <3>1, <3>2, <3>3
  <2>. HIDE DEF w
  <2>. QED  BY <1>1, <1>2, <1>5, <2>0, <2>1, <2>2, Resumes
<1>. QED  BY <1>3, <1>4, <1>5 DEF ApplyResumeParams

LEMMA DropExpiredStays ==
  ASSUME ChatInv, NEW t \in Turns, DropExpired(t)
  PROVE  ChatInv'
<1>1. /\ turn[t].pc = "expired" /\ Started(t) /\ UNCHANGED <<store, cards, executed>> /\ ClearPendingResume(t)
  BY DEF DropExpired
<1>2. turn[t].ckpt = None
  BY <1>1, OfOneTurn DEF Shaped
<1>3. pending # NoCard /\ turn[t].rivals = {} => pending.expired
  BY <1>1 DEF ChatInv, AloneIsTold
<1>4. /\ faults' \in 0 .. MaxFaults /\ spoiled' = spoiled
      /\ pending' = NoCard \/ (pending' = pending /\ (pending.expired \/ turn[t].rivals # {}))
  BY <1>1, <1>2, <1>3, TakenAway
<1>. QED  BY <1>1, <1>4, StartedStays

LEMMA RestoreStays ==
  ASSUME ChatInv, NEW t \in Turns, Restore(t)
  PROVE  ChatInv'
<1>1. /\ turn \in [Turns -> TurnSet] /\ turn[t] \in TurnSet /\ Shaped(t, turn[t])
      /\ faults \in 0 .. MaxFaults /\ UNCHANGED <<pending, store, cards, executed, spoiled, faults>>
      /\ turn[t].engine = "restore"
  BY OfOneTurn DEF Restore
<1>2. turn[t].pc = "streaming" /\ turn[t].event = "none" /\ turn[t].asked = None /\ Active(t)
  BY <1>1 DEF Shaped, TurnSet, ServicePhases, Active
<1>3. CASE turn' = [turn EXCEPT ![t].engine = "resume"]
  <2>. DEFINE w == [turn[t] EXCEPT !.engine = "resume"]
  <2>1. turn' = [turn EXCEPT ![t] = w]
    BY <1>1, <1>3
  <2>2. /\ w \in TurnSet /\ w.pc = turn[t].pc /\ w.engine = "resume"
        /\ w.event = turn[t].event /\ w.approves = turn[t].approves /\ w.shown = turn[t].shown
        /\ w.target = turn[t].target /\ w.ckpt = turn[t].ckpt /\ w.call = turn[t].call
        /\ w.asked = turn[t].asked /\ w.rivals = turn[t].rivals
    <3>1. w \in TurnSet
      BY ONLY <1>1 DEF TurnSet, EnginePhases, ServicePhases
    <3>2. /\ w.pc = turn[t].pc /\ w.engine = "resume" /\ w.event = turn[t].event
          /\ w.approves = turn[t].approves /\ w.shown = turn[t].shown
      BY ONLY <1>1, FieldsOfATurn
    <3>3. /\ w.target = turn[t].target /\ w.ckpt = turn[t].ckpt /\ w.call = turn[t].call
          /\ w.asked = turn[t].asked /\ w.rivals = turn[t].rivals
      BY ONLY <1>1, FieldsOfATurn
    <3>. QED  BY ONLY <3>1, <3>2, <3>3
  <2>. HIDE DEF w
  <2>3. Shaped(t, w)
    BY <1>1, <1>2, <2>2 DEF Shaped
  <2>. QED  BY <1>1, <1>2, <1>3, <2>1, <2>2, <2>3, GoesOn
<1>4. ASSUME NEW event \in Sent(t, "error"), turn' = [turn EXCEPT ![t].engine = "closed", ![t].event = event]
      PROVE  ChatInv'
  <2>. DEFINE w == [turn[t] EXCEPT !.engine = "closed", !.event = event]
  <2>0. event \in {"error", "none"}
    BY SentIs
  <2>1. turn' = [turn EXCEPT ![t] = w]
    BY <1>1, <1>4
  <2>2. /\ w \in TurnSet /\ w.pc = turn[t].pc /\ w.engine = "closed"
        /\ w.event = event /\ w.approves = turn[t].approves /\ w.shown = turn[t].shown
        /\ w.target = turn[t].target /\ w.ckpt = turn[t].ckpt /\ w.call = turn[t].call
        /\ w.asked = turn[t].asked /\ w.rivals = turn[t].rivals
    <3>1. w \in TurnSet
      BY ONLY <1>1, <2>0 DEF TurnSet, EnginePhases, ServicePhases
    <3>2. /\ w.pc = turn[t].pc /\ w.engine = "closed" /\ w.event = event
          /\ w.approves = turn[t].approves /\ w.shown = turn[t].shown
      BY ONLY <1>1, FieldsOfATurn
    <3>3. /\ w.target = turn[t].target /\ w.ckpt = turn[t].ckpt /\ w.call = turn[t].call
          /\ w.asked = turn[t].asked /\ w.rivals = turn[t].rivals
      BY ONLY <1>1, FieldsOfATurn
    <3>. QED  BY ONLY <3>1, <3>2, <3>3
  <2>. HIDE DEF w
  <2>3. Shaped(t, w)
    BY <1>1, <1>2, <2>0, <2>2 DEF Shaped
  <2>. QED  BY <1>1, <1>2, <1>4, <2>0, <2>1, <2>2, <2>3, GoesOn
<1>. QED  BY <1>3, <1>4 DEF Restore

LEMMA ResumeStays ==
  ASSUME ChatInv, NEW t \in Turns, Resume(t)
  PROVE  ChatInv'
<1>1. /\ turn \in [Turns -> TurnSet] /\ turn[t] \in TurnSet /\ Shaped(t, turn[t])
      /\ faults \in 0 .. MaxFaults /\ UNCHANGED <<pending, store, cards, executed, spoiled, faults>>
      /\ turn[t].engine = "resume"
  BY OfOneTurn DEF Resume
<1>2. turn[t].pc = "streaming" /\ turn[t].event = "none" /\ turn[t].asked = None /\ Active(t)
  BY <1>1 DEF Shaped, TurnSet, ServicePhases, Active
<1>3. CASE /\ Found(t)
           /\ turn' = [turn EXCEPT
                  ![t].engine = IF Answers(t) /\ turn[t].approves THEN "approved" ELSE "run",
                  ![t].call = IF Answers(t) /\ ~turn[t].approves THEN None
                              ELSE store[turn[t].ckpt].call]
  <2>. DEFINE engine == IF Answers(t) /\ turn[t].approves THEN "approved" ELSE "run"
              call == IF Answers(t) /\ ~turn[t].approves THEN None ELSE store[turn[t].ckpt].call
  <2>. DEFINE w == [turn[t] EXCEPT !.engine = engine, !.call = call]
  <2>0. /\ engine \in {"approved", "run"} /\ call \in {None, store[turn[t].ckpt].call} /\ call \in Cards \cup {None}
        /\ engine = "approved" => Answers(t) /\ turn[t].approves /\ call = store[turn[t].ckpt].call
    <3>1. turn[t].ckpt \in Turns
      BY <1>1, <1>2 DEF Shaped, TurnSet
    <3>2. store[turn[t].ckpt] \in Row
      BY <1>3, <3>1, TypeByParts, NumbersAreNot DEF ChatInv, Found
    <3>. QED  BY <3>2 DEF Row
  <2>1. turn' = [turn EXCEPT ![t] = w]
    BY <1>1, <1>3
  <2>. HIDE DEF engine, call
  <2>2. /\ w \in TurnSet /\ w.pc = turn[t].pc /\ w.engine = engine
        /\ w.event = turn[t].event /\ w.approves = turn[t].approves /\ w.shown = turn[t].shown
        /\ w.target = turn[t].target /\ w.ckpt = turn[t].ckpt /\ w.call = call
        /\ w.asked = turn[t].asked /\ w.rivals = turn[t].rivals
    <3>1. w \in TurnSet
      BY ONLY <1>1, <2>0 DEF TurnSet, EnginePhases
    <3>2. /\ w.pc = turn[t].pc /\ w.engine = engine /\ w.event = turn[t].event
          /\ w.approves = turn[t].approves /\ w.shown = turn[t].shown
      BY ONLY <1>1, FieldsOfATurn
    <3>3. /\ w.target = turn[t].target /\ w.ckpt = turn[t].ckpt /\ w.call = call
          /\ w.asked = turn[t].asked /\ w.rivals = turn[t].rivals
      BY ONLY <1>1, FieldsOfATurn
    <3>. QED  BY ONLY <3>1, <3>2, <3>3
  <2>. HIDE DEF w
  <2>. QED  BY <1>1, <1>2, <1>3, <2>0, <2>1, <2>2, Reads
<1>4. ASSUME NEW event \in Sent(t, "error"), turn' = [turn EXCEPT ![t].engine = Ends(t), ![t].event = event]
      PROVE  ChatInv'
  <2>. DEFINE w == [turn[t] EXCEPT !.engine = Ends(t), !.event = event]
  <2>0. event \in {"error", "none"} /\ Ends(t) \in {"cleanup", "closed"}
    BY SentIs DEF Ends
  <2>1. turn' = [turn EXCEPT ![t] = w]
    BY <1>1, <1>4
  <2>2. /\ w \in TurnSet /\ w.pc = turn[t].pc /\ w.engine = Ends(t)
        /\ w.event = event /\ w.approves = turn[t].approves /\ w.shown = turn[t].shown
        /\ w.target = turn[t].target /\ w.ckpt = turn[t].ckpt /\ w.call = turn[t].call
        /\ w.asked = turn[t].asked /\ w.rivals = turn[t].rivals
    <3>1. w \in TurnSet
      BY ONLY <1>1, <2>0 DEF TurnSet, EnginePhases, ServicePhases
    <3>2. /\ w.pc = turn[t].pc /\ w.engine = Ends(t) /\ w.event = event
          /\ w.approves = turn[t].approves /\ w.shown = turn[t].shown
      BY ONLY <1>1, FieldsOfATurn
    <3>3. /\ w.target = turn[t].target /\ w.ckpt = turn[t].ckpt /\ w.call = turn[t].call
          /\ w.asked = turn[t].asked /\ w.rivals = turn[t].rivals
      BY ONLY <1>1, FieldsOfATurn
    <3>. QED  BY ONLY <3>1, <3>2, <3>3
  <2>. HIDE DEF w
  <2>3. Shaped(t, w)
    BY <1>1, <1>2, <2>0, <2>2 DEF Shaped
  <2>. QED  BY <1>1, <1>2, <1>4, <2>0, <2>1, <2>2, <2>3, GoesOn
<1>. QED  BY <1>3, <1>4 DEF Resume

LEMMA ExecuteCallStays ==
  ASSUME ChatInv, NEW t \in Turns, ExecuteCall(t)
  PROVE  ChatInv'
<1>1. /\ turn \in [Turns -> TurnSet] /\ turn[t] \in TurnSet /\ Shaped(t, turn[t])
      /\ faults \in 0 .. MaxFaults /\ UNCHANGED <<pending, store, cards, spoiled, faults>>
      /\ turn[t].engine = "approved"
  BY OfOneTurn DEF ExecuteCall
<1>2. turn[t].pc = "streaming" /\ turn[t].event = "none" /\ turn[t].asked = None /\ Active(t)
  BY <1>1 DEF Shaped, TurnSet, ServicePhases, Active
<1>3. /\ turn' = [turn EXCEPT ![t].engine = "run", ![t].call = None, ![t].approves = FALSE]
      /\ executed' = executed \cup {<<t, turn[t].call>>}
  BY DEF ExecuteCall
<1>. DEFINE w == [turn[t] EXCEPT !.engine = "run", !.call = None, !.approves = FALSE]
<1>4. turn' = [turn EXCEPT ![t] = w]
  BY <1>1, <1>3
<1>5. /\ w \in TurnSet /\ w.pc = turn[t].pc /\ w.engine = "run"
      /\ w.event = turn[t].event /\ w.shown = turn[t].shown /\ w.target = turn[t].target
      /\ w.ckpt = turn[t].ckpt /\ w.call = None /\ w.asked = turn[t].asked
      /\ w.rivals = turn[t].rivals
  <2>1. w \in TurnSet
    BY ONLY <1>1 DEF TurnSet, EnginePhases
  <2>2. /\ w.pc = turn[t].pc /\ w.engine = "run" /\ w.event = turn[t].event
        /\ w.shown = turn[t].shown /\ w.target = turn[t].target
    BY ONLY <1>1, FieldsOfATurn
  <2>3. /\ w.ckpt = turn[t].ckpt /\ w.call = None /\ w.asked = turn[t].asked
        /\ w.rivals = turn[t].rivals
    BY ONLY <1>1, FieldsOfATurn
  <2>. QED  BY ONLY <2>1, <2>2, <2>3
<1>. HIDE DEF w
<1>. QED  BY <1>1, <1>3, <1>4, <1>5, CallRuns

LEMMA InterruptStays ==
  ASSUME ChatInv, NEW t \in Turns, Interrupt(t)
  PROVE  ChatInv'
<1>1. /\ turn \in [Turns -> TurnSet] /\ turn[t] \in TurnSet /\ Shaped(t, turn[t])
      /\ faults \in 0 .. MaxFaults /\ UNCHANGED <<pending, executed, spoiled, faults>>
      /\ turn[t].engine = "run" /\ cards < MaxCards /\ cards' = cards + 1
  BY OfOneTurn DEF Interrupt
<1>2. turn[t].pc = "streaming" /\ turn[t].event = "none" /\ turn[t].asked = None /\ Active(t)
  BY <1>1 DEF Shaped, TurnSet, ServicePhases, Active
<1>. DEFINE call == IF turn[t].call = None THEN cards + 1 ELSE turn[t].call
<1>3. PICK dropped \in BOOLEAN :
        turn' = [turn EXCEPT ![t].engine = "closed", ![t].call = call,
                             ![t].event = IF dropped THEN "none" ELSE "interrupt",
                             ![t].cancelled = dropped,
                             ![t].asked = IF dropped THEN None ELSE cards + 1]
  BY DEF Interrupt
<1>4. store' = [store EXCEPT ![turn[t].ckpt] = [card |-> cards + 1, call |-> call]]
  BY DEF Interrupt
<1>. DEFINE event == IF dropped THEN "none" ELSE "interrupt"
            asked == IF dropped THEN None ELSE cards + 1
<1>5. /\ call \in Cards /\ event \in {"none", "interrupt"} /\ asked \in Cards \cup {None}
      /\ (event = "none" /\ asked = None) \/ (event = "interrupt" /\ asked = cards + 1)
  <2>1. cards \in 0 .. MaxCards
    BY TypeByParts DEF ChatInv
  <2>2. cards + 1 \in Cards
    BY <1>1, <2>1, ChatAssumption DEF Cards
  <2>3. turn[t].call \in Cards \cup {None}
    BY <1>1 DEF TurnSet
  <2>4. call \in Cards
    <3>1. turn[t].call # None => turn[t].call \in Cards
      BY ONLY <2>3
    <3>. QED  BY ONLY <2>2, <3>1
  <2>5. (event = "none" /\ asked = None) \/ (event = "interrupt" /\ asked = cards + 1)
    OBVIOUS
  <2>. HIDE DEF event, asked
  <2>. QED  BY ONLY <2>2, <2>4, <2>5
<1>. DEFINE w == [turn[t] EXCEPT !.engine = "closed", !.call = call, !.event = event,
                                !.cancelled = dropped, !.asked = asked]
<1>6. turn' = [turn EXCEPT ![t] = w]
  BY <1>1, <1>3
<1>. HIDE DEF call, event, asked
<1>7. /\ w \in TurnSet /\ w.pc = turn[t].pc /\ w.engine = "closed"
      /\ w.event = event /\ w.approves = turn[t].approves /\ w.shown = turn[t].shown
      /\ w.target = turn[t].target /\ w.ckpt = turn[t].ckpt /\ w.call = call
      /\ w.asked = asked /\ w.rivals = turn[t].rivals
  <2>1. w \in TurnSet
    BY ONLY <1>1, <1>3, <1>5 DEF TurnSet, EnginePhases
  <2>2. /\ w.pc = turn[t].pc /\ w.engine = "closed" /\ w.event = event
        /\ w.approves = turn[t].approves /\ w.shown = turn[t].shown
    BY ONLY <1>1, FieldsOfATurn
  <2>3. /\ w.target = turn[t].target /\ w.ckpt = turn[t].ckpt /\ w.call = call
        /\ w.asked = asked /\ w.rivals = turn[t].rivals
    BY ONLY <1>1, FieldsOfATurn
  <2>. QED  BY ONLY <2>1, <2>2, <2>3
<1>. HIDE DEF w
<1>. QED
  <2>1. w.call = IF turn[t].call = None THEN cards + 1 ELSE turn[t].call
    BY <1>7 DEF call
  <2>. QED  BY <1>1, <1>4, <1>5, <1>6, <1>7, <2>1, Asks

LEMMA FinishStays ==
  ASSUME ChatInv, NEW t \in Turns, Finish(t)
  PROVE  ChatInv'
<1>1. /\ turn \in [Turns -> TurnSet] /\ turn[t] \in TurnSet /\ Shaped(t, turn[t])
      /\ faults \in 0 .. MaxFaults /\ UNCHANGED <<pending, cards, executed, spoiled, faults>>
      /\ turn[t].engine = "run" /\ turn[t].call = None
  BY OfOneTurn DEF Finish
<1>2. store' = [store EXCEPT ![turn[t].ckpt] = NoRow]
  BY DEF Finish
<1>3. turn' = [turn EXCEPT ![t].engine = "closed", ![t].event = "done"]
  BY DEF Finish
<1>. DEFINE w == [turn[t] EXCEPT !.engine = "closed", !.event = "done"]
<1>4. turn' = [turn EXCEPT ![t] = w]
  BY <1>1, <1>3
<1>5. /\ w \in TurnSet /\ w.pc = turn[t].pc /\ w.engine = "closed"
      /\ w.event = "done" /\ w.approves = turn[t].approves /\ w.shown = turn[t].shown
      /\ w.target = turn[t].target /\ w.ckpt = turn[t].ckpt /\ w.call = turn[t].call
      /\ w.asked = turn[t].asked /\ w.rivals = turn[t].rivals
  <2>1. w \in TurnSet
    <3>1. "closed" \in EnginePhases
      BY DEF EnginePhases
    <3>2. turn[t] \in TurnSet
      BY <1>1
    <3>. QED  BY ONLY <3>1, <3>2 DEF TurnSet
  <2>2. /\ w.pc = turn[t].pc /\ w.engine = "closed" /\ w.event = "done"
        /\ w.approves = turn[t].approves /\ w.shown = turn[t].shown
    BY ONLY <1>1, FieldsOfATurn
  <2>3. /\ w.target = turn[t].target /\ w.ckpt = turn[t].ckpt /\ w.call = turn[t].call
        /\ w.asked = turn[t].asked /\ w.rivals = turn[t].rivals
    BY ONLY <1>1, FieldsOfATurn
  <2>. QED  BY ONLY <2>1, <2>2, <2>3
<1>. HIDE DEF w
<1>. QED  BY <1>1, <1>2, <1>3, <1>4, <1>5, RowGoes

LEMMA CleanupStays ==
  ASSUME ChatInv, NEW t \in Turns, Cleanup(t)
  PROVE  ChatInv'
<1>1. /\ turn \in [Turns -> TurnSet] /\ turn[t] \in TurnSet /\ Shaped(t, turn[t])
      /\ faults \in 0 .. MaxFaults /\ UNCHANGED <<pending, cards, executed, spoiled, faults>>
      /\ turn[t].engine = "cleanup"
  BY OfOneTurn DEF Cleanup
<1>2. store' = [store EXCEPT ![turn[t].ckpt] = NoRow]
  BY DEF Cleanup
<1>3. turn' = [turn EXCEPT ![t].engine = "closed"]
  BY DEF Cleanup
<1>. DEFINE w == [turn[t] EXCEPT !.engine = "closed"]
<1>4. turn' = [turn EXCEPT ![t] = w]
  BY <1>1, <1>3
<1>5. /\ w \in TurnSet /\ w.pc = turn[t].pc /\ w.engine = "closed"
      /\ w.event = turn[t].event /\ w.approves = turn[t].approves /\ w.shown = turn[t].shown
      /\ w.target = turn[t].target /\ w.ckpt = turn[t].ckpt /\ w.call = turn[t].call
      /\ w.asked = turn[t].asked /\ w.rivals = turn[t].rivals
  <2>1. w \in TurnSet
    BY ONLY <1>1 DEF TurnSet, EnginePhases
  <2>2. /\ w.pc = turn[t].pc /\ w.engine = "closed" /\ w.event = turn[t].event
        /\ w.approves = turn[t].approves /\ w.shown = turn[t].shown
    BY ONLY <1>1, FieldsOfATurn
  <2>3. /\ w.target = turn[t].target /\ w.ckpt = turn[t].ckpt /\ w.call = turn[t].call
        /\ w.asked = turn[t].asked /\ w.rivals = turn[t].rivals
    BY ONLY <1>1, FieldsOfATurn
  <2>. QED  BY ONLY <2>1, <2>2, <2>3
<1>. HIDE DEF w
<1>. QED  BY <1>1, <1>2, <1>3, <1>4, <1>5, RowGoes

LEMMA FailStays ==
  ASSUME ChatInv, NEW t \in Turns, Fail(t)
  PROVE  ChatInv'
<1>1. /\ turn \in [Turns -> TurnSet] /\ turn[t] \in TurnSet /\ Shaped(t, turn[t])
      /\ faults \in 0 .. MaxFaults /\ UNCHANGED <<pending, store, cards, executed, spoiled, faults>>
      /\ turn[t].engine \in {"approved", "run"}
  BY OfOneTurn DEF Fail
<1>2. turn[t].pc = "streaming" /\ turn[t].event = "none" /\ turn[t].asked = None /\ Active(t)
  BY <1>1 DEF Shaped, TurnSet, ServicePhases, Active
<1>3. PICK event \in Sent(t, "error") : turn' = [turn EXCEPT ![t].engine = Ends(t), ![t].event = event]
  BY DEF Fail
<1>. DEFINE w == [turn[t] EXCEPT !.engine = Ends(t), !.event = event]
<1>4. event \in {"error", "none"} /\ Ends(t) \in {"cleanup", "closed"}
  BY SentIs DEF Ends
<1>5. turn' = [turn EXCEPT ![t] = w]
  BY <1>1, <1>3
<1>6. /\ w \in TurnSet /\ w.pc = turn[t].pc /\ w.engine = Ends(t)
      /\ w.event = event /\ w.approves = turn[t].approves /\ w.shown = turn[t].shown
      /\ w.target = turn[t].target /\ w.ckpt = turn[t].ckpt /\ w.call = turn[t].call
      /\ w.asked = turn[t].asked /\ w.rivals = turn[t].rivals
  <2>1. w \in TurnSet
    BY ONLY <1>1, <1>4 DEF TurnSet, EnginePhases
  <2>2. /\ w.pc = turn[t].pc /\ w.engine = Ends(t) /\ w.event = event
        /\ w.approves = turn[t].approves /\ w.shown = turn[t].shown
    BY ONLY <1>1, FieldsOfATurn
  <2>3. /\ w.target = turn[t].target /\ w.ckpt = turn[t].ckpt /\ w.call = turn[t].call
        /\ w.asked = turn[t].asked /\ w.rivals = turn[t].rivals
    BY ONLY <1>1, FieldsOfATurn
  <2>. QED  BY ONLY <2>1, <2>2, <2>3
<1>. HIDE DEF w
<1>7. Shaped(t, w)
  BY <1>1, <1>2, <1>4, <1>6 DEF Shaped
<1>. QED  BY <1>1, <1>2, <1>3, <1>4, <1>5, <1>6, <1>7, GoesOn

LEMMA StoreQuestionStays ==
  ASSUME ChatInv, NEW t \in Turns, StoreQuestion(t)
  PROVE  ChatInv'
<1>1. /\ Streaming(t, "interrupt") /\ turn' = [turn EXCEPT ![t] = Over] /\ faults' \in 0 .. MaxFaults
      /\ UNCHANGED <<store, cards, executed, spoiled>>
  BY OfOneTurn, ChatAssumption DEF StoreQuestion
<1>2. CASE /\ pending' = [ckpt |-> turn[t].ckpt, plan |-> turn[t].plan, card |-> turn[t].asked,
                         call |-> turn[t].call, expired |-> FALSE]
           /\ UNCHANGED faults
  BY <1>1, <1>2, Stores
<1>3. CASE UNCHANGED pending
  <2>1. Cleared(t) /\ Active(t)
    BY <1>1, <1>3 DEF Cleared, Holds, Active, Streaming
  <2>. QED  BY <1>1, <2>1, LetsGo, NewTurnFits
<1>. QED  BY <1>2, <1>3 DEF StoreQuestion

LEMMA ReleaseOnErrorStays ==
  ASSUME ChatInv, NEW t \in Turns, ReleaseOnError(t)
  PROVE  ChatInv'
<1>1. /\ turn \in [Turns -> TurnSet] /\ turn[t] \in TurnSet /\ Shaped(t, turn[t]) /\ faults \in 0 .. MaxFaults
      /\ UNCHANGED <<store, cards, executed>> /\ turn[t].pc = "streaming" /\ turn[t].event = "error"
      /\ turn' = [turn EXCEPT ![t].pc = "released"]
  BY OfOneTurn DEF ReleaseOnError, Streaming
<1>2. faults' \in 0 .. MaxFaults /\ Cleared(t) /\ Active(t)
  BY <1>1, TakenAway DEF ReleaseOnError, Cleared, Holds, Resumed, Active
<1>. DEFINE w == [turn[t] EXCEPT !.pc = "released"]
<1>3. turn' = [turn EXCEPT ![t] = w]
  BY <1>1, <1>1
<1>4. /\ w \in TurnSet /\ w.pc = "released" /\ w.engine = turn[t].engine
      /\ w.event = turn[t].event /\ w.approves = turn[t].approves /\ w.shown = turn[t].shown
      /\ w.target = turn[t].target /\ w.ckpt = turn[t].ckpt /\ w.call = turn[t].call
      /\ w.asked = turn[t].asked /\ w.rivals = turn[t].rivals
  <2>1. w \in TurnSet
    BY ONLY <1>1 DEF TurnSet, ServicePhases
  <2>2. /\ w.pc = "released" /\ w.engine = turn[t].engine /\ w.event = turn[t].event
        /\ w.approves = turn[t].approves /\ w.shown = turn[t].shown
    BY ONLY <1>1, FieldsOfATurn
  <2>3. /\ w.target = turn[t].target /\ w.ckpt = turn[t].ckpt /\ w.call = turn[t].call
        /\ w.asked = turn[t].asked /\ w.rivals = turn[t].rivals
    BY ONLY <1>1, FieldsOfATurn
  <2>. QED  BY ONLY <2>1, <2>2, <2>3
<1>. HIDE DEF w
<1>. QED  BY <1>1, <1>2, <1>1, <1>3, <1>4, LetsGo

LEMMA ForwardErrorStays ==
  ASSUME ChatInv, NEW t \in Turns, ForwardError(t)
  PROVE  ChatInv'
<1>1. /\ turn \in [Turns -> TurnSet] /\ turn[t] \in TurnSet /\ Shaped(t, turn[t])
      /\ faults \in 0 .. MaxFaults /\ UNCHANGED <<pending, store, cards, executed, spoiled, faults>>
      /\ turn[t].pc = "released"
  BY OfOneTurn DEF ForwardError
<1>2. turn[t].event = "error" /\ Active(t)
  BY <1>1 DEF Shaped, Active
<1>3. turn' = [turn EXCEPT ![t].pc = "draining"]
  BY DEF ForwardError
<1>. DEFINE w == [turn[t] EXCEPT !.pc = "draining"]
<1>5. turn' = [turn EXCEPT ![t] = w]
  BY <1>1, <1>3
<1>6. /\ w \in TurnSet /\ w.pc = "draining" /\ w.engine = turn[t].engine
      /\ w.event = turn[t].event /\ w.approves = turn[t].approves /\ w.shown = turn[t].shown
      /\ w.target = turn[t].target /\ w.ckpt = turn[t].ckpt /\ w.call = turn[t].call
      /\ w.asked = turn[t].asked /\ w.rivals = turn[t].rivals
  <2>1. w \in TurnSet
    BY ONLY <1>1 DEF TurnSet, ServicePhases
  <2>2. /\ w.pc = "draining" /\ w.engine = turn[t].engine /\ w.event = turn[t].event
        /\ w.approves = turn[t].approves /\ w.shown = turn[t].shown
    BY ONLY <1>1, FieldsOfATurn
  <2>3. /\ w.target = turn[t].target /\ w.ckpt = turn[t].ckpt /\ w.call = turn[t].call
        /\ w.asked = turn[t].asked /\ w.rivals = turn[t].rivals
    BY ONLY <1>1, FieldsOfATurn
  <2>. QED  BY ONLY <2>1, <2>2, <2>3
<1>. HIDE DEF w
<1>7. Shaped(t, w)
  BY <1>1, <1>2, <1>6 DEF Shaped
<1>. QED  BY <1>1, <1>2, <1>3, <1>5, <1>6, <1>7, GoesOn DEF Holds

LEMMA EndOfStreamStays ==
  ASSUME ChatInv, NEW t \in Turns, EndOfStream(t)
  PROVE  ChatInv'
<1>1. /\ turn' = [turn EXCEPT ![t] = Over] /\ UNCHANGED <<store, cards, executed>> /\ Active(t)
      /\ faults \in 0 .. MaxFaults
  BY OfOneTurn DEF EndOfStream, Active
<1>2. faults' \in 0 .. MaxFaults /\ Cleared(t)
  BY <1>1, TakenAway DEF EndOfStream, Cleared, Holds, Resumed
<1>. QED  BY <1>1, <1>2, LetsGo, NewTurnFits

LEMMA DisconnectStays ==
  ASSUME ChatInv, NEW t \in Turns, Disconnect(t)
  PROVE  ChatInv'
<1>1. /\ turn \in [Turns -> TurnSet] /\ turn[t] \in TurnSet /\ Shaped(t, turn[t])
      /\ faults \in 0 .. MaxFaults /\ UNCHANGED <<pending, store, cards, executed, spoiled, faults>>
      /\ Active(t)
  BY OfOneTurn DEF Disconnect
<1>3. turn' = [turn EXCEPT ![t].cancelled = TRUE]
  BY DEF Disconnect
<1>. DEFINE w == [turn[t] EXCEPT !.cancelled = TRUE]
<1>5. turn' = [turn EXCEPT ![t] = w]
  BY <1>1, <1>3
<1>6. /\ w \in TurnSet /\ w.pc = turn[t].pc /\ w.engine = turn[t].engine
      /\ w.event = turn[t].event /\ w.approves = turn[t].approves /\ w.shown = turn[t].shown
      /\ w.target = turn[t].target /\ w.ckpt = turn[t].ckpt /\ w.call = turn[t].call
      /\ w.asked = turn[t].asked /\ w.rivals = turn[t].rivals
  <2>1. w \in TurnSet
    BY ONLY <1>1 DEF TurnSet, EnginePhases
  <2>2. /\ w.pc = turn[t].pc /\ w.engine = turn[t].engine /\ w.event = turn[t].event
        /\ w.approves = turn[t].approves /\ w.shown = turn[t].shown
    BY ONLY <1>1, FieldsOfATurn
  <2>3. /\ w.target = turn[t].target /\ w.ckpt = turn[t].ckpt /\ w.call = turn[t].call
        /\ w.asked = turn[t].asked /\ w.rivals = turn[t].rivals
    BY ONLY <1>1, FieldsOfATurn
  <2>. QED  BY ONLY <2>1, <2>2, <2>3
<1>. HIDE DEF w
<1>7. Shaped(t, w)
  BY <1>1, <1>6 DEF Shaped
<1>8. Active(t) /\ turn[t].pc \notin {"unsent", "over"} /\ \A c \in Turns : Holds(t, c) => w.pc = "streaming"
  BY <1>1, <1>6 DEF Holds, Active
<1>. QED  BY <1>1, <1>5, <1>6, <1>7, <1>8, GoesOn

-----------------------------------------------------------------------------
(* The theorems.                                                           *)

LEMMA ChatStays == ChatInv /\ [Next]_vars => ChatInv'
<1>. SUFFICES ASSUME ChatInv, [Next]_vars PROVE ChatInv'
  OBVIOUS
<1>1. CASE UNCHANGED vars
  <2>1. TypeOK' /\ TurnsAreShaped' /\ RivalsAreKnown'
    BY <1>1 DEF vars, ChatInv, TypeOK, TurnsAreShaped, RivalsAreKnown, Active, Spoiled
  <2>2. NamesAreFresh' /\ NumbersAreUsed' /\ CallsHaveOneRun'
    BY <1>1 DEF vars, ChatInv, NamesAreFresh, NumbersAreUsed, CallsHaveOneRun
  <2>3. QuestionsAreOfOneCall' /\ AloneIsTold'
    BY <1>1 DEF vars, ChatInv, QuestionsAreOfOneCall, AloneIsTold
  <2>4. CardIsBacked' /\ DoneIsNotOffered'
    BY <1>1, HoldsIsHolding DEF vars, ChatInv, CardIsBacked, DoneIsNotOffered, Spoiled, Holds, Done
  <2>. QED  BY <2>1, <2>2, <2>3, <2>4 DEF ChatInv
<1>2. ASSUME NEW t \in Turns, TurnStep(t) PROVE ChatInv'
  BY <1>2, TurnRefusedStays, ApplyResumeStays, DropExpiredStays, RestoreStays, ResumeStays,
     ExecuteCallStays, InterruptStays, FinishStays, FailStays, CleanupStays, StoreQuestionStays,
     ReleaseOnErrorStays, ForwardErrorStays, EndOfStreamStays DEF TurnStep
<1>. QED  BY <1>1, <1>2, DisconnectStays, Sends, RowAges, CardAges, Crashes DEF Next

LEMMA ChatAlways == Spec => []ChatInv
BY ChatStarts, ChatStays, PTL DEF Spec

\* Where the client hears of an error the card it used up is gone, and a card that is
\* shown between turns can be answered, whatever the order of the two goroutines of
\* a turn, of the turns, of disconnections, expiries and restarts.
THEOREM CardsAreAlwaysTrue == Spec => []CardsAreTrue
<1>1. ChatInv => ErrorAfterClear
  <2>. SUFFICES ASSUME ChatInv, NEW t \in Turns, turn[t].pc = "draining", Resumed(t), ~Spoiled(turn[t].ckpt),
                       pending # NoCard
                PROVE  pending.card # turn[t].target
    BY DEF ErrorAfterClear
  <2>1. turn[t].ckpt # None
    BY OfOneTurn DEF Shaped
  <2>2. pending.ckpt # turn[t].ckpt
    BY <2>1 DEF ChatInv, CardIsBacked, Resumed
  <2>. QED  BY <2>2 DEF ChatInv, QuestionsAreOfOneCall
<1>2. ChatInv => CardHasCheckpoint
  <2>. SUFFICES ASSUME ChatInv, \A t \in Turns : ~Active(t), pending # NoCard, ~Spoiled(pending.ckpt)
                PROVE  store[pending.ckpt] # NoRow
    BY DEF CardHasCheckpoint
  <2>. QED  BY DEF ChatInv, CardIsBacked, Holds, Active
<1>. QED  BY <1>1, <1>2, ChatAlways, PTL DEF CardsAreTrue

\* Who executes a call is about to: the approval of a run that is resumed let it through.
LEMMA WhoExecutes ==
  ASSUME ChatInv, [Next]_vars, NEW t \in Turns, NEW call \in Cards, Executes(t, call)
  PROVE  turn[t].engine = "approved" /\ turn[t].call = call
<1>1. executed' # executed
  BY DEF Executes
<1>2. PICK u \in Turns : ExecuteCall(u)
  <2>1. ASSUME NEW u \in Turns, TurnStep(u) PROVE ExecuteCall(u)
    BY <1>1, <2>1 DEF TurnStep, TurnRefused, ApplyResumeParams, DropExpired, Restore, Resume,
       Interrupt, Finish, Fail, Cleanup, StoreQuestion, ReleaseOnError, ForwardError, EndOfStream
  <2>2. \A u \in Turns : ~Disconnect(u) /\ ~RowExpires(u) /\ \A b \in BOOLEAN : ~SendMessage(u, b)
    BY <1>1 DEF Disconnect, SendMessage, RowExpires
  <2>3. ~CardExpires /\ ~Crash /\ ~UNCHANGED vars
    BY <1>1 DEF CardExpires, Crash, vars
  <2>. QED  BY <2>1, <2>2, <2>3 DEF Next
<1>. QED  BY <1>2 DEF ExecuteCall, Executes

\* A call is executed again only where turns overlapped or one of them was killed.
THEOREM CallsRunOnce == Spec => NoRepeat
<1>1. ChatInv /\ [Next]_vars =>
        [\A t \in Turns, call \in Cards :
            Executes(t, call) =>
                Spoiled(turn[t].ckpt) \/ \A u \in Turns : <<u, call>> \notin executed]_vars
  <2>. SUFFICES ASSUME ChatInv, [Next]_vars, NEW t \in Turns, NEW call \in Cards, Executes(t, call)
                PROVE  Spoiled(turn[t].ckpt) \/ \A u \in Turns : <<u, call>> \notin executed
    OBVIOUS
  <2>1. turn[t].engine = "approved" /\ turn[t].call = call
    BY WhoExecutes
  <2>2. turn[t].call # None
    BY <2>1, OfOneTurn DEF Shaped
  <2>. QED  BY <2>1, <2>2 DEF ChatInv, DoneIsNotOffered, Done
<1>. QED  BY <1>1, ChatAlways, PTL DEF Spec, NoRepeat

\* A call is executed for an approval that was given with its card on the screen, unless
\* another turn was active meanwhile.
THEOREM ApprovalsAreOfTheirCard == Spec => ApprovalMatchesCard
<1>1. ChatInv /\ [Next]_vars =>
        [\A t \in Turns, call \in Cards :
            Executes(t, call) =>
                /\ turn[t].approves
                /\ turn[t].shown = call \/ turn[t].rivals # {}]_vars
  <2>. SUFFICES ASSUME ChatInv, [Next]_vars, NEW t \in Turns, NEW call \in Cards, Executes(t, call)
                PROVE  turn[t].approves /\ (turn[t].shown = call \/ turn[t].rivals # {})
    OBVIOUS
  <2>1. turn[t].engine = "approved" /\ turn[t].call = call
    BY WhoExecutes
  <2>2. turn[t].approves
    BY <2>1, OfOneTurn DEF Shaped
  <2>. QED  BY <2>1, <2>2 DEF ChatInv, AloneIsTold
<1>. QED  BY <1>1, ChatAlways, PTL DEF Spec, ApprovalMatchesCard

\* No message loses the user's question.
THEOREM QuestionsAreKept == Spec => QuestionIsKept
<1>1. ChatInv /\ [Next]_vars =>
        [pending # NoCard /\ (pending' = NoCard \/ pending'.card # pending.card) =>
            \E t \in Turns :
                /\ Active(t)
                /\ \/ turn[t].target = pending.card \/ pending.expired
                   \/ turn[t].rivals # {}]_vars
  <2>. SUFFICES ASSUME ChatInv, [Next]_vars, pending # NoCard,
                       pending' = NoCard \/ pending'.card # pending.card
                PROVE  \E t \in Turns :
                          /\ Active(t)
                          /\ \/ turn[t].target = pending.card \/ pending.expired
                             \/ turn[t].rivals # {}
    OBVIOUS
  <2>1. pending' # pending
    OBVIOUS
  <2>2. ~CardExpires
    <3>1. pending \in Card
      BY TypeByParts DEF ChatInv
    <3>2. CardExpires => pending' = [pending EXCEPT !.expired = TRUE] /\ pending' \in Card
      BY <3>1 DEF CardExpires, Card
    <3>3. CardExpires => pending'.card = pending.card
      BY <3>1, <3>2 DEF Card
    <3>. QED  BY <3>2, <3>3, NumbersAreNot
  <2>3. PICK t \in Turns : DropExpired(t) \/ StoreQuestion(t) \/ ReleaseOnError(t) \/ EndOfStream(t)
    <3>1. ASSUME NEW u \in Turns, TurnStep(u)
          PROVE  DropExpired(u) \/ StoreQuestion(u) \/ ReleaseOnError(u) \/ EndOfStream(u)
      BY <2>1, <3>1 DEF TurnStep, TurnRefused, ApplyResumeParams, Restore, Resume, ExecuteCall,
         Interrupt, Finish, Fail, Cleanup, ForwardError
    <3>2. \A u \in Turns : ~Disconnect(u) /\ ~RowExpires(u) /\ \A b \in BOOLEAN : ~SendMessage(u, b)
      BY <2>1 DEF Disconnect, SendMessage, RowExpires
    <3>3. ~Crash /\ ~UNCHANGED vars
      BY <2>1 DEF Crash, vars
    <3>. QED  BY <2>2, <3>1, <3>2, <3>3 DEF Next
  <2>4. Active(t) /\ turn[t].pc \in {"expired", "streaming", "released", "draining"}
    BY <2>3 DEF Active, DropExpired, StoreQuestion, ReleaseOnError, EndOfStream, Streaming
  <2>5. turn[t].rivals = {} => pending.expired \/ turn[t].target = pending.card
    <3>1. turn[t].pc = "expired" \/ turn[t].ckpt # None
      BY <2>4, OfOneTurn DEF Shaped
    <3>. QED  BY <3>1 DEF ChatInv, AloneIsTold
  <2>. QED  BY <2>4, <2>5
<1>. QED  BY <1>1, ChatAlways, PTL DEF Spec, QuestionIsKept

=============================================================================
