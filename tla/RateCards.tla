------------------------------- MODULE RateCards -------------------------------
(***************************************************************************)
(* The rate card of a project, changed by update_rates, and its audit      *)
(* trail.  A request reads the card, assigns what the administrator sent   *)
(* and commits: an UPDATE of the columns whose value it changed, and an    *)
(* INSERT of everything that was sent into rate_card_history.  A request   *)
(* that deletes the project loads card and audit rows, to delete them with *)
(* it.  All of them overlap.                                               *)
(***************************************************************************)
EXTENDS Integers, Sequences, FiniteSets

CONSTANTS
  Handlers,      \* API worker threads
  Columns,       \* the columns of a card that can be set
  Values,        \* what they can be set to
  Default,       \* what a new project's card holds
  NoCard,
  MaxRequests    \* bound: updates and deletions

ASSUME ValuesAssumption == Default \in Values /\ MaxRequests \in Nat

VARIABLES
  exists,          \* the project
  card, history,   \* its rate card and the audit rows, oldest first
  base, payload,   \* of an update: the card it has read, what it was sent
  loaded,          \* of a deletion: how many audit rows it has loaded
  requests,
  raced, mixed     \* history, read by no action

vars == <<exists, card, history, base, payload, loaded, requests, raced, mixed>>

None == -1

Card == [Columns -> Values]

TypeOK ==
  /\ exists \in BOOLEAN /\ mixed \in BOOLEAN
  /\ card \in Card /\ history \in Seq(Card)
  /\ base \in [Handlers -> Card \cup {NoCard}]
  /\ payload \in [Handlers -> Card \cup {NoCard}]
  /\ loaded \in [Handlers -> Nat \cup {None}]
  /\ requests \in 0 .. MaxRequests /\ raced \subseteq Handlers
  /\ ~ exists => history = <<>>

NewCard == [c \in Columns |-> Default]

Init ==
  /\ exists = TRUE /\ card = NewCard /\ history = <<>>
  /\ base = [h \in Handlers |-> NoCard] /\ payload = base
  /\ loaded = [h \in Handlers |-> None]
  /\ requests = 0 /\ raced = {} /\ mixed = FALSE

Busy == {h \in Handlers : base[h] # NoCard}

Begin(h) ==
  /\ h \notin Busy /\ loaded[h] = None
  /\ exists                                    \* else 404
  /\ requests < MaxRequests /\ requests' = requests + 1

StartUpdate(h) ==
  /\ Begin(h)
  /\ base' = [base EXCEPT ![h] = card]
  /\ \E c \in Card : payload' = [payload EXCEPT ![h] = c]
  /\ UNCHANGED <<exists, card, history, loaded, raced, mixed>>

EndUpdate(h) ==
  /\ base' = [base EXCEPT ![h] = NoCard]
  /\ payload' = [payload EXCEPT ![h] = NoCard]

(* Mutants: the UPDATE forgets a column; the audit row is the card as read. *)
AllButOne(now, from, to) ==
  LET d == CHOOSE c \in Columns : TRUE
  IN  [c \in Columns |-> IF to[c] # from[c] /\ c # d THEN to[c] ELSE now[c]]
AuditOfRead(h) == base[h]

(* The columns the assignments changed; the others keep what is stored. *)
Changed(now, from, to) == [c \in Columns |-> IF to[c] # from[c] THEN to[c] ELSE now[c]]

Audit(h) == payload[h]

(* raced: those whose card was changed after they had read it.  mixed: the   *)
(* last update to commit was one of them.                                    *)
CommitUpdate(h) ==
  /\ h \in Busy /\ exists
  /\ card' = Changed(card, base[h], payload[h])
  /\ history' = Append(history, Audit(h))
  /\ raced' = (raced \ {h}) \cup (Busy \ {h})
  /\ mixed' = (h \in raced)
  /\ EndUpdate(h)
  /\ UNCHANGED <<exists, loaded, requests>>

(* The project is gone when the update commits. *)
UpdateFails(h) ==
  /\ h \in Busy /\ ~ exists
  /\ EndUpdate(h)
  /\ raced' = raced \ {h}
  /\ UNCHANGED <<exists, card, history, loaded, requests, mixed>>

(* delete_tenant_project: db.delete(project) loads what depends on it ...    *)
StartDelete(h) ==
  /\ Begin(h)
  /\ loaded' = [loaded EXCEPT ![h] = Len(history)]
  /\ UNCHANGED <<exists, card, history, base, payload, raced, mixed>>

EndDelete(h) ==
  /\ loaded[h] # None
  /\ loaded' = [loaded EXCEPT ![h] = None]
  /\ UNCHANGED <<base, payload, requests, raced>>

(* Mutant: the audit rows are not deleted with their project. *)
DeleteButHistory(h) ==
  /\ EndDelete(h)
  /\ exists' = FALSE /\ card' = NewCard /\ mixed' = FALSE
  /\ UNCHANGED history

(* ... and the commit deletes what was loaded.  To delete what another       *)
(* request has deleted is only a warning.                                    *)
CommitDelete(h) ==
  /\ EndDelete(h)
  /\ exists => Len(history) = loaded[h]
  /\ exists' = FALSE /\ card' = NewCard /\ history' = <<>> /\ mixed' = FALSE

(* An audit row stored meanwhile still refers to the project: the DELETE     *)
(* violates the foreign key, and is rolled back.                             *)
DeleteFails(h) ==
  /\ EndDelete(h)
  /\ exists /\ Len(history) # loaded[h]
  /\ UNCHANGED <<exists, card, history, mixed>>

Next ==
  \/ \E h \in Handlers : StartUpdate(h) \/ CommitUpdate(h) \/ UpdateFails(h)
                        \/ StartDelete(h) \/ CommitDelete(h) \/ DeleteFails(h)

Spec == Init /\ [][Next]_vars

-----------------------------------------------------------------------------
(* Properties                                                               *)

(* An update that raced no other is in force as a whole once it is           *)
(* committed: the last audit row says what is billed (update_rates).         *)
UnracedUpdateIsInForce == history # <<>> /\ ~ mixed => card = history[Len(history)]

(* Whatever the interleaving, each column holds its default or a value that  *)
(* some audit row shows: no rate appears that nobody asked for.              *)
NoRateUnasked ==
  \A c \in Columns :
    card[c] = Default \/ \E i \in 1 .. Len(history) : history[i][c] = card[c]
=============================================================================
