---------------------------- MODULE RateCardsProofs ----------------------------
(***************************************************************************)
(* What holds of RateCards for any handlers, columns, values and number of *)
(* requests.  UnracedUpdateIsInForce is not inductive: it needs to know    *)
(* that an update that nobody overtook still holds the card as it is       *)
(* stored (FreshBase), for then the UPDATE of the changed columns leaves   *)
(* exactly what was sent.                                                  *)
(***************************************************************************)
EXTENDS RateCards, TLAPS

(* What a request holds that has not been overtaken is what is stored. *)
FreshBase == exists => \A h \in Busy : h \notin raced => base[h] = card

InForce == FreshBase /\ UnracedUpdateIsInForce

-----------------------------------------------------------------------------
LEMMA NewCardType == NewCard \in Card
BY ValuesAssumption DEF NewCard, Card

(* An UPDATE computed from what is stored stores what was sent. *)
LEMMA ChangedFromStored ==
  ASSUME NEW now \in Card, NEW to \in Card
  PROVE  Changed(now, now, to) = to
BY DEF Changed, Card

LEMMA ChangedType ==
  ASSUME NEW now \in Card, NEW from \in Card, NEW to \in Card
  PROVE  Changed(now, from, to) \in Card
BY DEF Changed, Card

(* A busy request holds a card; what it was sent is one, too. *)
Whole == \A h \in Handlers : base[h] # NoCard => payload[h] \in Card

LEMMA InitTypes == Init => TypeOK /\ Whole
<1> SUFFICES ASSUME Init PROVE TypeOK /\ Whole
  OBVIOUS
<1>1. card \in Card
  BY NewCardType DEF Init
<1>2. history \in Seq(Card) /\ requests \in 0 .. MaxRequests
  BY ValuesAssumption DEF Init
<1> QED BY <1>1, <1>2 DEF Init, TypeOK, Whole

LEMMA NextTypes == TypeOK /\ Whole /\ [Next]_vars => TypeOK' /\ Whole'
<1> SUFFICES ASSUME TypeOK, Whole, [Next]_vars PROVE TypeOK' /\ Whole'
  OBVIOUS
<1>1. ASSUME NEW h \in Handlers, StartUpdate(h) PROVE TypeOK' /\ Whole'
  <2>1. requests' \in 0 .. MaxRequests
    BY <1>1, ValuesAssumption DEF StartUpdate, Begin, TypeOK
  <2>2. PICK c \in Card : payload' = [payload EXCEPT ![h] = c]
    BY <1>1 DEF StartUpdate
  <2> QED BY <1>1, <2>1, <2>2 DEF StartUpdate, TypeOK, Whole
<1>2. ASSUME NEW h \in Handlers, CommitUpdate(h) PROVE TypeOK' /\ Whole'
  <2>1. base[h] \in Card /\ payload[h] \in Card
    BY <1>2 DEF CommitUpdate, Busy, TypeOK, Whole
  <2>2. card' \in Card
    BY <1>2, <2>1, ChangedType DEF CommitUpdate, TypeOK
  <2>3. history' \in Seq(Card)
    BY <1>2, <2>1 DEF CommitUpdate, Audit, TypeOK
  <2>4. raced' \subseteq Handlers /\ mixed' \in BOOLEAN
    BY <1>2 DEF CommitUpdate, Busy, TypeOK
  <2> QED BY <1>2, <2>2, <2>3, <2>4 DEF CommitUpdate, EndUpdate, TypeOK, Whole
<1>3. ASSUME NEW h \in Handlers, UpdateFails(h) PROVE TypeOK' /\ Whole'
  BY <1>3 DEF UpdateFails, EndUpdate, TypeOK, Whole
<1>4. ASSUME NEW h \in Handlers, StartDelete(h) PROVE TypeOK' /\ Whole'
  <2>1. requests' \in 0 .. MaxRequests
    BY <1>4, ValuesAssumption DEF StartDelete, Begin, TypeOK
  <2>2. Len(history) \in Nat
    BY DEF TypeOK
  <2> QED BY <1>4, <2>1, <2>2 DEF StartDelete, TypeOK, Whole
<1>5. ASSUME NEW h \in Handlers, CommitDelete(h) PROVE TypeOK' /\ Whole'
  <2>1. card' \in Card
    BY <1>5, NewCardType DEF CommitDelete
  <2>2. exists' \in BOOLEAN /\ mixed' \in BOOLEAN
    BY <1>5, Zenon DEF CommitDelete
  <2>3. loaded' \in [Handlers -> Nat \cup {None}]
    BY <1>5 DEF CommitDelete, EndDelete, TypeOK
  <2>4. history' = <<>> /\ UNCHANGED <<base, payload, requests, raced>>
    BY <1>5 DEF CommitDelete, EndDelete
  <2>5. history' \in Seq(Card)
    BY <2>4
  <2> QED BY <2>1, <2>2, <2>3, <2>4, <2>5 DEF TypeOK, Whole
<1>6. ASSUME NEW h \in Handlers, DeleteFails(h) PROVE TypeOK' /\ Whole'
  BY <1>6 DEF DeleteFails, EndDelete, TypeOK, Whole
<1>7. CASE UNCHANGED vars
  BY <1>7 DEF vars, TypeOK, Whole
<1> QED BY <1>1, <1>2, <1>3, <1>4, <1>5, <1>6, <1>7 DEF Next

(* Types; and no audit row outlives its project. *)
THEOREM TypeCorrect == Spec => []TypeOK
<1>1. Spec => [](TypeOK /\ Whole)
  BY InitTypes, NextTypes, PTL DEF Spec
<1> QED BY <1>1, PTL

-----------------------------------------------------------------------------
LEMMA InitInForce == Init => InForce
BY DEF Init, InForce, FreshBase, UnracedUpdateIsInForce, Busy

LEMMA NextInForce == TypeOK /\ Whole /\ InForce /\ [Next]_vars => InForce'
<1> SUFFICES ASSUME TypeOK, Whole, InForce, [Next]_vars PROVE InForce'
  OBVIOUS
<1> USE DEF InForce
<1>1. ASSUME NEW h \in Handlers, StartUpdate(h) PROVE InForce'
  BY <1>1 DEF StartUpdate, FreshBase, UnracedUpdateIsInForce, Busy, TypeOK
<1>2. ASSUME NEW h \in Handlers, CommitUpdate(h) PROVE InForce'
  <2>1. FreshBase'
    BY <1>2 DEF CommitUpdate, EndUpdate, FreshBase, Busy, TypeOK
  <2>2. ASSUME h \notin raced PROVE card' = history'[Len(history')]
    <3>1. card' = payload[h]
      BY <1>2, <2>2, ChangedFromStored DEF CommitUpdate, FreshBase, Busy, TypeOK, Whole
    <3>2. payload[h] \in Card /\ history' = Append(history, payload[h])
      BY <1>2 DEF CommitUpdate, Audit, Busy, Whole
    <3> QED BY <3>1, <3>2 DEF TypeOK
  <2>3. UnracedUpdateIsInForce'
    BY <1>2, <2>2 DEF CommitUpdate, UnracedUpdateIsInForce
  <2> QED BY <2>1, <2>3
<1>3. ASSUME NEW h \in Handlers, UpdateFails(h) PROVE InForce'
  BY <1>3 DEF UpdateFails, FreshBase, UnracedUpdateIsInForce
<1>4. ASSUME NEW h \in Handlers, StartDelete(h) PROVE InForce'
  BY <1>4 DEF StartDelete, FreshBase, UnracedUpdateIsInForce, Busy
<1>5. ASSUME NEW h \in Handlers, CommitDelete(h) PROVE InForce'
  BY <1>5 DEF CommitDelete, FreshBase, UnracedUpdateIsInForce
<1>6. ASSUME NEW h \in Handlers, DeleteFails(h) PROVE InForce'
  BY <1>6 DEF DeleteFails, EndDelete, FreshBase, UnracedUpdateIsInForce, Busy
<1>7. CASE UNCHANGED vars
  BY <1>7 DEF vars, FreshBase, UnracedUpdateIsInForce, Busy
<1> QED BY <1>1, <1>2, <1>3, <1>4, <1>5, <1>6, <1>7 DEF Next

(* The last audit row is what is billed, unless the last update to commit    *)
(* had been overtaken by another.                                            *)
THEOREM LastAuditIsInForce == Spec => []UnracedUpdateIsInForce
<1>1. Spec => [](TypeOK /\ Whole /\ InForce)
  BY InitTypes, NextTypes, InitInForce, NextInForce, PTL DEF Spec
<1>2. InForce => UnracedUpdateIsInForce
  BY DEF InForce
<1> QED BY <1>1, <1>2, PTL

-----------------------------------------------------------------------------
(* Overtaken or not, every column of the card was audited. *)
THEOREM RatesWereAsked == Spec => []NoRateUnasked
<1>1. Init => NoRateUnasked
  BY DEF Init, NoRateUnasked, NewCard
<1>2. TypeOK /\ Whole /\ NoRateUnasked /\ [Next]_vars => NoRateUnasked'
  <2> SUFFICES ASSUME TypeOK, Whole, NoRateUnasked, [Next]_vars PROVE NoRateUnasked'
    OBVIOUS
  <2>1. ASSUME NEW h \in Handlers, CommitUpdate(h) PROVE NoRateUnasked'
    <3>1. payload[h] \in Card /\ history' = Append(history, payload[h])
      BY <2>1 DEF CommitUpdate, Audit, Busy, Whole
    <3>2. /\ Len(history') = Len(history) + 1 /\ Len(history) \in Nat
          /\ history'[Len(history')] = payload[h]
          /\ \A i \in 1 .. Len(history) : history'[i] = history[i]
      BY <3>1 DEF TypeOK
    <3>3. SUFFICES ASSUME NEW c \in Columns
                   PROVE  \/ card'[c] = Default
                          \/ \E i \in 1 .. Len(history') : history'[i][c] = card'[c]
      BY DEF NoRateUnasked
    <3>4. card'[c] = payload[h][c] \/ card'[c] = card[c]
      BY <2>1 DEF CommitUpdate, Changed
    <3>5. CASE card'[c] = payload[h][c]
      BY <3>2, <3>5
    <3>6. CASE card'[c] = card[c]
      BY <3>2, <3>6 DEF NoRateUnasked
    <3> QED BY <3>4, <3>5, <3>6
  <2>2. ASSUME NEW h \in Handlers, CommitDelete(h) PROVE NoRateUnasked'
    BY <2>2 DEF CommitDelete, NoRateUnasked, NewCard
  <2>3. ASSUME UNCHANGED <<card, history>> PROVE NoRateUnasked'
    BY <2>3 DEF NoRateUnasked
  <2>4. ASSUME NEW h \in Handlers, StartUpdate(h) \/ UpdateFails(h) \/ StartDelete(h) \/ DeleteFails(h)
        PROVE  NoRateUnasked'
    BY <2>3, <2>4 DEF StartUpdate, UpdateFails, StartDelete, DeleteFails
  <2>5. CASE UNCHANGED vars
    BY <2>3, <2>5 DEF vars
  <2> QED BY <2>1, <2>2, <2>4, <2>5 DEF Next
<1> QED BY <1>1, <1>2, InitTypes, NextTypes, PTL DEF Spec
=============================================================================
