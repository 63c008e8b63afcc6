-------------------------- MODULE ClientsPanelProofs --------------------------
(***************************************************************************)
(* Proofs about ClientsPanel for any set of clients and any number of      *)
(* mutations, however the requests and the other administrators' changes   *)
(* interleave.                                                             *)
(*                                                                         *)
(* A list can be applied without a look at what it replaces because of two *)
(* facts: the page shows no result of its own while the list is on its     *)
(* way, and a list is read no earlier than it is asked for.  The first     *)
(* holds for the button because a mutation and a refresh exclude each      *)
(* other, and for the background because its version is the newest.        *)
(***************************************************************************)
EXTENDS ClientsPanel, SequenceTheorems, FiniteSetTheorems, TLAPS

-----------------------------------------------------------------------------
State == [Client -> Status \cup {"absent"}]
TimedCall == [kind : Mutation \cup {"none"}, id : Client \cup {None},
              phase : {"none", "sent", "answered", "over"}, ok : BOOLEAN, time : Nat]
TimedList == [phase : {"none", "asked", "read"}, time : Nat]
Ack == [kind : Mutation \cup {"none"}, time : Nat]

\* The part of the domains the arguments need, without the bounds of the model.
Types ==
  /\ registry \in Seq(State) /\ Len(registry) > 0
  /\ mutationVersion \in Nat
  /\ call \in [Call -> TimedCall]
  /\ sync \in [Call -> TimedList] /\ refresh \in TimedList
  /\ listed \in Nat /\ acked \in [Client -> Ack]

\* A call that was made is of a client; one that was not has no number yet.
CallsMade ==
  \A v \in Call : /\ v > mutationVersion => call[v].phase = "none"
                  /\ call[v].phase # "none" => call[v].kind \in Mutation /\ call[v].id \in Client

\* A mutation and a refresh by the button exclude each other.
Exclusive == mutationController # 0 => refresh.phase = "none"

\* The background refresh of a mutation is asked for when the mutation is over.
SyncAfterCall == \A v \in Call : sync[v].phase # "none" => call[v].phase = "over"

\* Nothing was read or answered in the future.
TimesArePast ==
  /\ \A v \in Call : call[v].time <= Now
  /\ \A c \in Client : acked[c].time <= Now

\* A list on its way to the screen is no older than what the page was told.
ListsAreFresh ==
  /\ \A v \in Call : sync[v].phase = "read" /\ v = mutationVersion =>
       \A c \in Client : acked[c].time <= sync[v].time
  /\ refresh.phase = "read" => \A c \in Client : acked[c].time <= refresh.time

\* An error of a mutation stands when the newest one is over and was not accepted.
ErrorStands ==
  error.by = "mutation" =>
    /\ error.call = mutationVersion /\ error.call \in Call
    /\ call[error.call].phase = "over" /\ ~call[error.call].ok

IInv ==
  /\ Types /\ CallsMade /\ Exclusive /\ SyncAfterCall /\ TimesArePast /\ ListsAreFresh
  /\ ErrorStands /\ ControlsFollowCalls /\ OutcomeOfNewest /\ OwnResultStays

-----------------------------------------------------------------------------
LEMMA AfterStatus ==
    ASSUME NEW kind \in Mutation, NEW s \in Status \cup {"absent"}
    PROVE  After(kind, s) \in Status \cup {"absent"}
  BY DEF After, Status

\* The registry grows by one state.
LEMMA Grows ==
    ASSUME Types, NEW c \in Client, NEW s \in Status \cup {"absent"},
           registry' = Append(registry, [registry[Now] EXCEPT ![c] = s])
    PROVE  /\ registry' \in Seq(State) /\ Len(registry') > 0
           /\ Now' = Now + 1 /\ Now \in Nat
  <1>1. registry[Now] \in State
    BY DEF Types, Now
  <1>2. [registry[Now] EXCEPT ![c] = s] \in State
    BY <1>1 DEF State
  <1>3. registry' \in Seq(State) /\ Len(registry') = Len(registry) + 1
    BY <1>2, AppendProperties DEF Types
  <1>4. Len(registry) \in Nat
    BY DEF Types
  <1>. QED  BY <1>3, <1>4 DEF Now

LEMMA InitIInv == Init => IInv
  <1>. SUFFICES ASSUME Init PROVE IInv
    OBVIOUS
  <1>1. PICK r \in State : registry = <<r>>
    BY DEF Init, State
  <1>2. registry \in Seq(State) /\ Len(registry) = 1
    BY <1>1
  <1>3. NoCall \in TimedCall /\ NoList \in TimedList
    BY DEF NoCall, NoList, TimedCall, TimedList
  <1>4. Types
    <2>1. call \in [Call -> TimedCall] /\ sync \in [Call -> TimedList] /\ refresh \in TimedList
      BY <1>3 DEF Init
    <2>2. acked \in [Client -> Ack]
      BY DEF Init, Ack
    <2>. QED  BY <1>2, <2>1, <2>2 DEF Init, Types
  <1>5. CallsMade /\ SyncAfterCall /\ Exclusive
    BY DEF Init, CallsMade, SyncAfterCall, Exclusive, NoCall, NoList
  <1>6. TimesArePast
    BY <1>2 DEF Init, TimesArePast, NoCall, Now
  <1>7. ListsAreFresh /\ ErrorStands
    BY DEF Init, ListsAreFresh, ErrorStands, NoList, NoError
  <1>8. ControlsFollowCalls /\ OutcomeOfNewest /\ OwnResultStays
    BY DEF Init, ControlsFollowCalls, OutcomeOfNewest, OwnResultStays, NoList, NoError
  <1>. QED  BY <1>4, <1>5, <1>6, <1>7, <1>8 DEF IInv

\* A new mutation makes every list on its way, and every older call, obsolete.
LEMMA BeginIInv ==
    ASSUME IInv, NEW kind \in Mutation, NEW c \in Client, Begin(kind, c)
    PROVE  IInv'
  <1>. DEFINE n == mutationVersion + 1
              new == [kind |-> kind, id |-> c, phase |-> "sent", ok |-> FALSE, time |-> 0]
  <1>1. n \in Call /\ mutationVersion \in Nat
    BY ClientsPanelAssumption DEF Begin, IInv, Types, Call
  <1>2. new \in TimedCall /\ call' = [call EXCEPT ![n] = new]
    BY DEF Begin, TimedCall
  <1>3. /\ call' \in [Call -> TimedCall] /\ call'[n] = new
        /\ \A v \in Call \ {n} : call'[v] = call[v]
    BY <1>1, <1>2 DEF IInv, Types
  <1>. HIDE DEF new
  <1>4. new.kind = kind /\ new.id = c /\ new.phase = "sent" /\ ~new.ok /\ new.time = 0
    BY DEF new
  <1>5. /\ mutationVersion' = n /\ mutationController' = n /\ clientsBusy' = TRUE
        /\ error' = NoError
        /\ UNCHANGED <<registry, sync, refresh, clients, listed, issuedToken,
                       editingClientId, acked>>
    BY DEF Begin, lists, rows
  <1>6. Types'
    BY <1>1, <1>3, <1>5 DEF IInv, Types
  <1>7. CallsMade'
    BY <1>1, <1>3, <1>4, <1>5 DEF IInv, CallsMade, Call
  <1>8. refresh.phase = "none"
    BY DEF Begin, IInv, ControlsFollowCalls, Exclusive
  <1>9. Exclusive' /\ ControlsFollowCalls'
    BY <1>1, <1>5, <1>8 DEF Exclusive, ControlsFollowCalls, Call
  <1>10. call[n].phase = "none" /\ sync[n].phase = "none"
    BY <1>1 DEF IInv, CallsMade, SyncAfterCall
  <1>11. SyncAfterCall'
    BY <1>3, <1>5, <1>10 DEF IInv, SyncAfterCall
  <1>12. TimesArePast'
    <2>1. Now' = Now /\ Now \in Nat
      BY <1>5 DEF Now, IInv, Types
    <2>. QED  BY <1>3, <1>4, <1>5, <2>1 DEF IInv, TimesArePast
  <1>13. ListsAreFresh'
    BY <1>5, <1>8, <1>10 DEF ListsAreFresh
  <1>14. ErrorStands'
    BY <1>5 DEF ErrorStands, NoError
  <1>15. OutcomeOfNewest'
    BY <1>3, <1>4, <1>5 DEF IInv, OutcomeOfNewest, NoError
  <1>16. OwnResultStays'
    BY <1>5 DEF IInv, OwnResultStays, Shown
  <1>. QED  BY <1>6, <1>7, <1>9, <1>11, <1>12, <1>13, <1>14, <1>15, <1>16 DEF IInv

\* The server or the network ends a request: its answer is in, nothing is shown.
LEMMA AnswerIInv ==
    ASSUME IInv, NEW v \in Call, Serve(v) \/ Lose(v)
    PROVE  IInv'
  <1>1. call[v].phase = "sent" /\ call[v] \in TimedCall /\ call[v].id \in Client
        /\ call[v].kind \in Mutation
    BY DEF Serve, Lose, IInv, Types, CallsMade
  <1>2. /\ registry' \in Seq(State) /\ Len(registry') > 0
        /\ Now \in Nat /\ Now' \in Nat /\ Now <= Now'
    <2>1. Now \in Nat
      BY DEF IInv, Types, Now
    <2>2. CASE registry' = registry
      BY <2>1, <2>2 DEF IInv, Types, Now
    <2>3. CASE registry' # registry
      <3>. DEFINE c == call[v].id
                  s == registry[Now][c]
                  n == After(call[v].kind, s)
      <3>1. registry' = Append(registry, [registry[Now] EXCEPT ![c] = n])
        BY <2>3 DEF Serve, Lose
      <3>2. registry[Now] \in State
        BY DEF IInv, Types, Now
      <3>3. n \in Status \cup {"absent"}
        BY <1>1, <3>2, AfterStatus DEF State
      <3>. HIDE DEF c, n
      <3>4. c \in Client
        BY <1>1 DEF c
      <3>5. /\ registry' \in Seq(State) /\ Len(registry') > 0
            /\ Now' = Now + 1 /\ Now \in Nat
        BY <3>1, <3>3, <3>4, Grows DEF IInv
      <3>. QED  BY <3>5
    <2>. QED  BY <2>2, <2>3
  <1>3. PICK ok \in BOOLEAN, t \in Nat :
          /\ call' = [call EXCEPT ![v] = [call[v] EXCEPT !.phase = "answered", !.ok = ok, !.time = t]]
          /\ t <= Now'
    <2>1. CASE Serve(v)
      <3>1. PICK ok \in {FALSE, Accepts(call[v].kind, registry[Now][call[v].id])} :
              call' = [call EXCEPT ![v].phase = "answered", ![v].ok = ok,
                                   ![v].time = IF ok THEN Len(registry') ELSE 0]
        BY <2>1 DEF Serve
      <3>2. ok \in BOOLEAN
        BY <3>1, Zenon DEF Accepts
      <3>. DEFINE t == IF ok THEN Len(registry') ELSE 0
      <3>3. t \in Nat /\ t <= Now'
        BY <1>2 DEF Now
      <3>. HIDE DEF t
      <3>4. call' = [call EXCEPT ![v] = [call[v] EXCEPT !.phase = "answered", !.ok = ok, !.time = t]]
        BY <3>1 DEF t
      <3>. QED  BY <3>2, <3>3, <3>4
    <2>2. CASE Lose(v)
      <3>1. [call[v] EXCEPT !.phase = "answered"]
              = [call[v] EXCEPT !.phase = "answered", !.ok = call[v].ok, !.time = call[v].time]
        BY <1>1 DEF TimedCall
      <3>2. call[v].time <= Now' /\ call[v].time \in Nat /\ call[v].ok \in BOOLEAN
        BY <1>1, <1>2 DEF IInv, TimesArePast, TimedCall
      <3>3. call' = [call EXCEPT ![v] = [call[v] EXCEPT !.phase = "answered"]]
        BY <2>2 DEF Lose
      <3>. QED  BY <3>1, <3>2, <3>3
    <2>. QED  BY <2>1, <2>2
  <1>. DEFINE new == [call[v] EXCEPT !.phase = "answered", !.ok = ok, !.time = t]
  <1>4. /\ new \in TimedCall /\ new.phase = "answered" /\ new.kind = call[v].kind
        /\ new.id = call[v].id /\ new.time = t
    BY <1>1 DEF TimedCall
  <1>5. call' = [call EXCEPT ![v] = new]
    BY <1>3
  <1>. HIDE DEF new
  <1>6. /\ call' \in [Call -> TimedCall] /\ call'[v] = new
        /\ \A w \in Call \ {v} : call'[w] = call[w]
    BY <1>4, <1>5 DEF IInv, Types
  <1>7. UNCHANGED <<mutationVersion, mutationController, sync, refresh, clients, listed,
                    clientsBusy, error, issuedToken, editingClientId, acked>>
    BY DEF Serve, Lose, lists, rows, page
  <1>8. Types' /\ CallsMade' /\ SyncAfterCall'
    BY <1>1, <1>2, <1>4, <1>6, <1>7 DEF IInv, Types, CallsMade, SyncAfterCall
  <1>9. Exclusive' /\ ControlsFollowCalls' /\ ListsAreFresh' /\ OwnResultStays'
    BY <1>7 DEF IInv, Exclusive, ControlsFollowCalls, ListsAreFresh, OwnResultStays, Shown
  <1>10. TimesArePast'
    <2>1. \A w \in Call : call'[w].time <= Now'
      BY <1>2, <1>3, <1>4, <1>6 DEF IInv, Types, TimedCall, TimesArePast
    <2>2. \A c \in Client : acked'[c].time <= Now'
      BY <1>2, <1>7 DEF IInv, Types, Ack, TimesArePast
    <2>. QED  BY <2>1, <2>2 DEF TimesArePast
  <1>11. ErrorStands'
    BY <1>1, <1>6, <1>7 DEF IInv, ErrorStands
  <1>12. OutcomeOfNewest'
    BY <1>4, <1>6, <1>7, <1>11 DEF IInv, OutcomeOfNewest, ErrorStands
  <1>. QED  BY <1>8, <1>9, <1>10, <1>11, <1>12 DEF IInv

-----------------------------------------------------------------------------
\* The end of the newest mutation, accepted or not.
LEMMA OverIInv ==
    ASSUME IInv, NEW v \in Call, call[v].phase = "answered", Current(v), Finally(v),
           UNCHANGED <<registry, mutationVersion, refresh, listed>>
    PROVE  /\ v = mutationVersion /\ refresh.phase = "none"
           /\ call' \in [Call -> TimedCall]
           /\ call'[v].phase = "over" /\ call'[v].ok = call[v].ok
           /\ call'[v].kind = call[v].kind
           /\ \A w \in Call \ {v} : call'[w] = call[w]
           /\ sync[v].phase = "none"
           /\ \A w \in Call : w > v => call'[w].phase = "none"
           /\ \A w \in Call : call'[w].time <= Now'
           /\ CallsMade' /\ Exclusive' /\ ControlsFollowCalls'
  <1>. DEFINE new == [call[v] EXCEPT !.phase = "over"]
  <1>1. /\ v = mutationVersion /\ mutationController = v /\ v # 0
        /\ call \in [Call -> TimedCall] /\ call[v] \in TimedCall
    BY DEF Current, Call, IInv, Types
  <1>2. refresh.phase = "none"
    BY <1>1 DEF IInv, Exclusive
  <1>3. call' = [call EXCEPT ![v] = new] /\ mutationController' = 0 /\ clientsBusy' = FALSE
    BY DEF Finally
  <1>4. /\ new \in TimedCall /\ new.phase = "over" /\ new.ok = call[v].ok
        /\ new.kind = call[v].kind /\ new.id = call[v].id /\ new.time = call[v].time
    BY <1>1 DEF TimedCall
  <1>. HIDE DEF new
  <1>5. /\ call' \in [Call -> TimedCall] /\ call'[v] = new
        /\ \A w \in Call \ {v} : call'[w] = call[w]
    BY <1>1, <1>3, <1>4
  <1>6. CallsMade'
    BY <1>1, <1>4, <1>5 DEF IInv, CallsMade
  <1>7. \A w \in Call : w > v => call'[w].phase = "none"
    BY <1>1, <1>6 DEF CallsMade
  <1>8. sync[v].phase = "none"
    BY DEF IInv, SyncAfterCall
  <1>9. \A w \in Call : call'[w].time <= Now'
    BY <1>4, <1>5 DEF IInv, TimesArePast, Now
  <1>10. Exclusive' /\ ControlsFollowCalls'
    BY <1>2, <1>3 DEF Exclusive, ControlsFollowCalls
  <1>. QED  BY <1>1, <1>2, <1>4, <1>5, <1>6, <1>7, <1>8, <1>9, <1>10

\* What an accepted mutation does to the rows: its own row is as it says,
\* the others' are as they were.
LEMMA ResultRows ==
    ASSUME NEW kind \in Mutation, NEW c \in Client, NEW t \in Nat,
           clients' = Result(kind, c, t)
    PROVE  /\ \A d \in Client \ {c} : Shown(d)' = Shown(d)
           /\ kind = "delete" => Shown(c)' = {}
           /\ kind # "delete" /\ (kind = "create" \/ Shown(c) # {}) =>
                \E r \in Shown(c)' : r.asof = t /\ r.status = After(kind, "active")
           /\ kind # "create" /\ Shown(c) = {} => Shown(c)' = {}
  <1>. DEFINE row == [id |-> c, status |-> After(kind, "active"), asof |-> t]
  <1>1. row.id = c /\ row.asof = t /\ row.status = After(kind, "active")
    OBVIOUS
  <1>. HIDE DEF row
  <1>2. CASE kind = "create"
    <2>1. clients' = clients \cup {row}
      BY <1>2 DEF Result, row
    <2>. QED  BY <1>1, <1>2, <2>1 DEF Shown
  <1>3. CASE kind = "delete"
    <2>1. clients' = clients \ Shown(c)
      BY <1>3 DEF Result
    <2>. QED  BY <1>3, <2>1 DEF Shown
  <1>4. CASE kind \notin {"create", "delete"}
    <2>1. clients' = (clients \ Shown(c)) \cup (IF Shown(c) = {} THEN {} ELSE {row})
      BY <1>4 DEF Result, row
    <2>2. CASE Shown(c) = {}
      <3>1. clients' = clients
        BY <2>1, <2>2
      <3>. QED  BY <2>2, <3>1, <1>4 DEF Shown
    <2>3. CASE Shown(c) # {}
      <3>1. clients' = (clients \ Shown(c)) \cup {row}
        BY <2>1, <2>3
      <3>. QED  BY <1>1, <1>4, <2>3, <3>1 DEF Shown
    <2>. QED  BY <2>2, <2>3
  <1>. QED  BY <1>2, <1>3, <1>4

\* An accepted mutation: its result is shown, and a list is asked for.
LEMMA DoneIInv ==
    ASSUME IInv, NEW v \in Call, Done(v)
    PROVE  IInv'
  <1>0. /\ call[v].kind \in Mutation /\ call[v].id \in Client
        /\ call[v].time \in Nat /\ call[v].time <= Now
    BY DEF Done, IInv, CallsMade, Types, TimedCall, TimesArePast
  <1>. PICK kind \in Mutation, c \in Client, t \in Nat :
         kind = call[v].kind /\ c = call[v].id /\ t = call[v].time
    BY <1>0
  <1>1. /\ call[v].phase = "answered" /\ call[v].ok /\ Current(v) /\ Finally(v)
        /\ UNCHANGED <<registry, mutationVersion, refresh, listed, error>>
        /\ clients' = Result(kind, c, t)
    BY DEF Done
  <1>2. t <= Now
    BY <1>0
  <1>3. /\ v = mutationVersion /\ refresh.phase = "none"
        /\ call' \in [Call -> TimedCall]
        /\ call'[v].phase = "over" /\ call'[v].ok = call[v].ok /\ call'[v].kind = call[v].kind
        /\ \A w \in Call \ {v} : call'[w] = call[w]
        /\ sync[v].phase = "none"
        /\ \A w \in Call : w > v => call'[w].phase = "none"
        /\ \A w \in Call : call'[w].time <= Now'
        /\ CallsMade' /\ Exclusive' /\ ControlsFollowCalls'
    BY <1>1, OverIInv
  <1>4. \/ acked' = acked /\ kind \notin {"create", "delete"} /\ Shown(c) = {}
        \/ /\ acked' = [acked EXCEPT ![c] = [kind |-> kind, time |-> t]]
           /\ kind \in {"create", "delete"} \/ Shown(c) # {}
    BY DEF Done
  <1>5. acked' \in [Client -> Ack] /\ \A d \in Client : acked'[d].time <= Now
    <2>1. acked \in [Client -> Ack] /\ \A d \in Client : acked[d].time <= Now
      BY DEF IInv, Types, TimesArePast
    <2>2. [kind |-> kind, time |-> t] \in Ack
      BY <1>2 DEF Ack
    <2>. QED  BY <1>2, <1>4, <2>1, <2>2
  <1>6. /\ sync' \in [Call -> TimedList]
        /\ \A w \in Call \ {v} : sync'[w] = sync[w]
        /\ sync'[v].phase # "read"
    <2>1. sync \in [Call -> TimedList]
      BY DEF IInv, Types
    <2>2. sync' = sync \/ sync' = [sync EXCEPT ![v].phase = "asked"]
      BY DEF Done
    <2>3. [sync[v] EXCEPT !.phase = "asked"] \in TimedList
      BY <2>1 DEF TimedList
    <2>. QED  BY <1>3, <2>1, <2>2, <2>3 DEF TimedList
  <1>7. Types'
    BY <1>1, <1>3, <1>5, <1>6 DEF IInv, Types
  <1>8. SyncAfterCall'
    BY <1>3, <1>6 DEF IInv, SyncAfterCall
  <1>9. TimesArePast' /\ ListsAreFresh'
    BY <1>1, <1>3, <1>5, <1>6 DEF TimesArePast, ListsAreFresh, Now
  <1>10. error.by # "mutation"
    BY <1>1, <1>3 DEF IInv, ErrorStands
  <1>11. ErrorStands'
    BY <1>1, <1>10 DEF ErrorStands
  <1>12. OutcomeOfNewest'
    <2>1. issuedToken' = IF IssuesToken(kind) THEN v ELSE issuedToken
      BY DEF Done
    <2>2. CASE IssuesToken(kind)
      BY <1>1, <1>3, <1>10, <2>1, <2>2 DEF OutcomeOfNewest
    <2>3. CASE ~IssuesToken(kind)
      BY <1>1, <1>3, <1>10, <2>1, <2>3 DEF IInv, OutcomeOfNewest
    <2>. QED  BY <2>2, <2>3
  <1>13. OwnResultStays'
    <2>1. /\ \A d \in Client \ {c} : Shown(d)' = Shown(d)
          /\ kind = "delete" => Shown(c)' = {}
          /\ kind # "delete" /\ (kind = "create" \/ Shown(c) # {}) =>
               \E r \in Shown(c)' : r.asof = t /\ r.status = After(kind, "active")
          /\ kind # "create" /\ Shown(c) = {} => Shown(c)' = {}
      BY <1>1, <1>2, ResultRows
    <2>. SUFFICES ASSUME NEW d \in Client, acked'[d].time > listed
                  PROVE  IF acked'[d].kind = "delete" THEN Shown(d)' = {}
                         ELSE \E r \in Shown(d)' : /\ r.asof = acked'[d].time
                                                   /\ r.status = After(acked'[d].kind, "active")
      BY <1>1 DEF OwnResultStays
    <2>2. acked \in [Client -> Ack] /\ (acked[d].time > listed =>
            IF acked[d].kind = "delete" THEN Shown(d) = {}
            ELSE \E r \in Shown(d) : /\ r.asof = acked[d].time
                                     /\ r.status = After(acked[d].kind, "active"))
      BY DEF IInv, Types, OwnResultStays
    <2>3. CASE d # c
      <3>1. acked'[d] = acked[d] /\ Shown(d)' = Shown(d)
        BY <1>4, <2>1, <2>2, <2>3
      <3>. QED  BY <2>2, <3>1
    <2>4. CASE /\ d = c /\ acked' = acked
               /\ kind \notin {"create", "delete"} /\ Shown(c) = {}
      <3>1. Shown(d) = {} /\ Shown(d)' = {} /\ acked'[d] = acked[d]
        BY <2>1, <2>4
      <3>. QED  BY <2>2, <3>1
    <2>5. CASE /\ d = c /\ acked' = [acked EXCEPT ![c] = [kind |-> kind, time |-> t]]
               /\ kind \in {"create", "delete"} \/ Shown(c) # {}
      <3>1. acked'[c].kind = kind /\ acked'[c].time = t
        BY <2>2, <2>5
      <3>. QED  BY <2>1, <2>5, <3>1
    <2>. QED  BY <1>4, <2>3, <2>4, <2>5
  <1>. QED  BY <1>3, <1>7, <1>8, <1>9, <1>11, <1>12, <1>13 DEF IInv

LEMMA RefusedIInv ==
    ASSUME IInv, NEW v \in Call, Refused(v)
    PROVE  IInv'
  <1>1. /\ call[v].phase = "answered" /\ ~call[v].ok /\ Current(v) /\ Finally(v)
        /\ error' = [by |-> "mutation", call |-> v]
        /\ UNCHANGED <<registry, mutationVersion, sync, refresh, clients, listed,
                       issuedToken, acked>>
    BY DEF Refused, lists, rows
  <1>2. /\ v = mutationVersion
        /\ call' \in [Call -> TimedCall]
        /\ call'[v].phase = "over" /\ call'[v].ok = call[v].ok
        /\ \A w \in Call \ {v} : call'[w] = call[w]
        /\ sync[v].phase = "none"
        /\ \A w \in Call : call'[w].time <= Now'
        /\ CallsMade' /\ Exclusive' /\ ControlsFollowCalls'
    BY <1>1, OverIInv
  <1>3. Types' /\ SyncAfterCall' /\ ListsAreFresh' /\ OwnResultStays'
    BY <1>1, <1>2 DEF IInv, Types, SyncAfterCall, ListsAreFresh, OwnResultStays, Shown
  <1>4. TimesArePast'
    BY <1>1, <1>2 DEF IInv, TimesArePast, Now
  <1>5. ErrorStands'
    BY <1>1, <1>2 DEF ErrorStands
  <1>6. OutcomeOfNewest'
    BY <1>1, <1>2 DEF IInv, OutcomeOfNewest
  <1>. QED  BY <1>2, <1>3, <1>4, <1>5, <1>6 DEF IInv

-----------------------------------------------------------------------------
\* A list is asked for, read, applied or given up; the calls stay as they are.
LEMMA SyncIInv ==
    ASSUME IInv, NEW v \in Call, SyncRead(v) \/ SyncReturn(v) \/ SyncFail(v)
    PROVE  IInv'
  <1>1. /\ UNCHANGED <<registry, mutationVersion, mutationController, call, refresh,
                       clientsBusy, error, issuedToken, editingClientId, acked>>
        /\ Now' = Now /\ Now \in Nat
    BY DEF SyncRead, SyncReturn, SyncFail, calls, page, rows, Now, IInv, Types
  <1>2. PICK l \in TimedList : /\ sync' = [sync EXCEPT ![v] = l]
                               /\ l.phase \in {"none", "read"}
                               /\ l.phase = "read" => l.time = Now
    <2>1. [phase |-> "read", time |-> Now] \in TimedList /\ NoList \in TimedList
      BY <1>1 DEF TimedList, NoList
    <2>2. NoList.phase = "none"
      BY DEF NoList
    <2>. QED  BY <2>1, <2>2 DEF SyncRead, SyncReturn, SyncFail
  <1>3. /\ sync' \in [Call -> TimedList] /\ sync'[v] = l
        /\ \A w \in Call \ {v} : sync'[w] = sync[w]
        /\ sync[v].phase # "none" /\ sync[v] \in TimedList
    BY <1>2 DEF IInv, Types, SyncRead, SyncReturn, SyncFail
  <1>4. \/ UNCHANGED <<clients, listed>>
        \/ /\ sync[v].phase = "read" /\ v = mutationVersion
           /\ listed' = sync[v].time
    BY DEF SyncRead, SyncReturn, SyncFail, rows
  <1>5. Types'
    BY <1>1, <1>3, <1>4 DEF IInv, Types, TimedList
  <1>6. CallsMade' /\ Exclusive' /\ ErrorStands' /\ ControlsFollowCalls' /\ OutcomeOfNewest'
    BY <1>1 DEF IInv, CallsMade, Exclusive, ErrorStands, ControlsFollowCalls, OutcomeOfNewest
  <1>7. TimesArePast' /\ SyncAfterCall'
    BY <1>1, <1>3 DEF IInv, TimesArePast, SyncAfterCall
  <1>8. ListsAreFresh'
    BY <1>1, <1>2, <1>3 DEF IInv, ListsAreFresh, TimesArePast
  <1>9. OwnResultStays'
    <2>1. CASE UNCHANGED <<clients, listed>>
      BY <1>1, <2>1 DEF IInv, OwnResultStays, Shown
    <2>2. CASE sync[v].phase = "read" /\ v = mutationVersion /\ listed' = sync[v].time
      <3>1. \A c \in Client : acked'[c].time <= listed'
        BY <1>1, <2>2 DEF IInv, ListsAreFresh
      <3>2. \A c \in Client : acked'[c].time \in Nat /\ listed' \in Nat
        BY <1>5 DEF Types, Ack
      <3>. QED  BY <3>1, <3>2 DEF OwnResultStays
    <2>. QED  BY <1>4, <2>1, <2>2
  <1>. QED  BY <1>5, <1>6, <1>7, <1>8, <1>9 DEF IInv

\* The button's refresh is asked for and read.
LEMMA RefreshIInv ==
    ASSUME IInv, RefreshClients \/ RefreshRead
    PROVE  IInv'
  <1>1. /\ UNCHANGED <<registry, mutationVersion, mutationController, call, sync, clients,
                       listed, error, issuedToken, editingClientId, acked>>
        /\ Now' = Now /\ Now \in Nat
    BY DEF RefreshClients, RefreshRead, calls, page, rows, Now, IInv, Types
  <1>2. /\ clientsBusy' = TRUE /\ mutationController = 0
        /\ \/ refresh' = [phase |-> "asked", time |-> 0]
           \/ refresh' = [phase |-> "read", time |-> Now]
    BY DEF RefreshClients, RefreshRead, page, IInv, ControlsFollowCalls, Exclusive
  <1>3. Types' /\ CallsMade' /\ SyncAfterCall' /\ TimesArePast'
    BY <1>1, <1>2 DEF IInv, Types, TimedList, CallsMade, SyncAfterCall, TimesArePast
  <1>4. Exclusive' /\ ControlsFollowCalls'
    BY <1>1, <1>2 DEF Exclusive, ControlsFollowCalls
  <1>5. ListsAreFresh'
    BY <1>1, <1>2 DEF IInv, ListsAreFresh, TimesArePast
  <1>6. ErrorStands' /\ OutcomeOfNewest' /\ OwnResultStays'
    BY <1>1 DEF IInv, ErrorStands, OutcomeOfNewest, OwnResultStays, Shown
  <1>. QED  BY <1>3, <1>4, <1>5, <1>6 DEF IInv

\* No mutation runs when the button's refresh ends.
LEMMA RefreshReturnIInv ==
    ASSUME IInv, RefreshReturn
    PROVE  IInv'
  <1>1. /\ UNCHANGED <<registry, mutationVersion, mutationController, call, sync,
                       issuedToken, editingClientId, acked>>
        /\ Now' = Now /\ refresh' = NoList /\ clientsBusy' = FALSE
        /\ NoList \in TimedList /\ NoList.phase = "none"
    BY DEF RefreshReturn, calls, Now, NoList, TimedList
  <1>2. mutationController = 0
    BY DEF RefreshReturn, IInv, Exclusive
  <1>3. \/ UNCHANGED error /\ refresh.phase = "read" /\ listed' = refresh.time
        \/ UNCHANGED <<clients, listed>> /\ error'.by = "refresh"
    BY DEF RefreshReturn, rows
  <1>4. Types' /\ CallsMade' /\ SyncAfterCall' /\ TimesArePast'
    BY <1>1, <1>3 DEF IInv, Types, TimedList, CallsMade, SyncAfterCall, TimesArePast
  <1>5. Exclusive' /\ ControlsFollowCalls' /\ ListsAreFresh'
    BY <1>1, <1>2 DEF IInv, Exclusive, ControlsFollowCalls, ListsAreFresh
  <1>6. ErrorStands' /\ OutcomeOfNewest'
    BY <1>1, <1>3 DEF IInv, ErrorStands, OutcomeOfNewest
  <1>7. OwnResultStays'
    <2>1. CASE refresh.phase = "read" /\ listed' = refresh.time
      <3>1. \A c \in Client : acked'[c].time <= listed'
        BY <1>1, <2>1 DEF IInv, ListsAreFresh
      <3>2. \A c \in Client : acked'[c].time \in Nat /\ listed' \in Nat
        BY <1>4 DEF Types, Ack
      <3>. QED  BY <3>1, <3>2 DEF OwnResultStays
    <2>2. CASE UNCHANGED <<clients, listed>>
      BY <1>1, <2>2 DEF IInv, OwnResultStays, Shown
    <2>. QED  BY <1>3, <2>1, <2>2
  <1>. QED  BY <1>4, <1>5, <1>6, <1>7 DEF IInv

\* The controls that call nobody, and a step of something else.
LEMMA LocalIInv ==
    ASSUME IInv,
           \/ \E c \in Client : EditClientCapabilities(c)
           \/ CancelCapabilityEdit \/ SavedIt \/ SetView \/ UNCHANGED vars
    PROVE  IInv'
  <1>1. /\ UNCHANGED <<registry, mutationVersion, mutationController, call, sync, refresh,
                       clients, listed, clientsBusy, acked>>
        /\ Now' = Now
        /\ issuedToken' \in {0, issuedToken} /\ error' \in {NoError, error}
    BY DEF EditClientCapabilities, CancelCapabilityEdit, SavedIt, SetView, vars, calls, lists,
           rows, Now
  <1>2. NoError.by = "none"
    BY DEF NoError
  <1>3. Types' /\ CallsMade' /\ Exclusive' /\ SyncAfterCall' /\ TimesArePast' /\ ListsAreFresh'
    BY <1>1 DEF IInv, Types, CallsMade, Exclusive, SyncAfterCall, TimesArePast, ListsAreFresh
  <1>4. ErrorStands' /\ OutcomeOfNewest'
    BY <1>1, <1>2 DEF IInv, ErrorStands, OutcomeOfNewest
  <1>5. ControlsFollowCalls' /\ OwnResultStays'
    BY <1>1 DEF IInv, ControlsFollowCalls, OwnResultStays, Shown
  <1>. QED  BY <1>3, <1>4, <1>5 DEF IInv

LEMMA ForeignIInv ==
    ASSUME IInv, NEW c \in Client, ForeignChange(c)
    PROVE  IInv'
  <1>1. PICK kind \in Mutation :
          registry' = Append(registry, [registry[Now] EXCEPT ![c] = After(kind, @)])
    BY DEF ForeignChange
  <1>2. registry[Now][c] \in Status \cup {"absent"} /\ registry[Now] \in State
    BY DEF IInv, Types, Now, State
  <1>3. PICK s \in Status \cup {"absent"} : s = After(kind, registry[Now][c])
    BY <1>2, AfterStatus
  <1>4. registry' = Append(registry, [registry[Now] EXCEPT ![c] = s])
    BY <1>1, <1>2, <1>3 DEF State
  <1>5. registry' \in Seq(State) /\ Len(registry') > 0 /\ Now' = Now + 1 /\ Now \in Nat
    BY <1>4, Grows DEF IInv
  <1>6. UNCHANGED <<mutationVersion, mutationController, call, sync, refresh, clients, listed,
                    clientsBusy, error, issuedToken, editingClientId, acked>>
    BY DEF ForeignChange, calls, lists, rows, page
  <1>7. Types' /\ CallsMade' /\ Exclusive' /\ SyncAfterCall' /\ ListsAreFresh' /\ ErrorStands'
    BY <1>5, <1>6 DEF IInv, Types, CallsMade, Exclusive, SyncAfterCall, ListsAreFresh, ErrorStands
  <1>8. TimesArePast'
    BY <1>5, <1>6 DEF IInv, Types, TimedCall, Ack, TimesArePast
  <1>9. ControlsFollowCalls' /\ OutcomeOfNewest' /\ OwnResultStays'
    BY <1>6 DEF IInv, ControlsFollowCalls, OutcomeOfNewest, OwnResultStays, Shown
  <1>. QED  BY <1>7, <1>8, <1>9 DEF IInv

LEMMA StepIInv == IInv /\ [Next]_vars => IInv'
  <1>. SUFFICES ASSUME IInv, [Next]_vars PROVE IInv'
    OBVIOUS
  <1>1. CASE Control
    <2>1. ASSUME NEW c \in Client, NEW kind \in Mutation, Begin(kind, c) PROVE IInv'
      BY <2>1, BeginIInv
    <2>2. CASE RefreshClients
      BY <2>2, RefreshIInv
    <2>3. CASE \/ \E c \in Client : EditClientCapabilities(c)
               \/ CancelCapabilityEdit \/ SavedIt \/ SetView
      BY <2>3, LocalIInv
    <2>. QED  BY <1>1, <2>1, <2>2, <2>3 DEF Control
  <1>2. CASE Answer
    BY <1>2, AnswerIInv DEF Answer
  <1>3. CASE Return
    BY <1>3, DoneIInv, RefusedIInv DEF Return
  <1>4. CASE Sync
    BY <1>4, SyncIInv DEF Sync
  <1>5. CASE RefreshRead
    BY <1>5, RefreshIInv
  <1>6. CASE RefreshReturn
    BY <1>6, RefreshReturnIInv
  <1>7. ASSUME NEW c \in Client, ForeignChange(c) PROVE IInv'
    BY <1>7, ForeignIInv
  <1>8. CASE UNCHANGED vars
    BY <1>8, LocalIInv
  <1>. QED  BY <1>1, <1>2, <1>3, <1>4, <1>5, <1>6, <1>7, <1>8 DEF Next

-----------------------------------------------------------------------------
LEMMA Inductive == Spec => []IInv
  BY InitIInv, StepIInv, PTL DEF Spec

(* The controls are disabled exactly while a mutation or a refresh is on   *)
(* its way, whatever the number of mutations and however their answers are *)
(* reordered (main.ts:198-214 and 508-513).                                *)
THEOREM BusyWithACall == Spec => []ControlsFollowCalls
  <1>1. IInv => ControlsFollowCalls
    BY DEF IInv
  <1>. QED  BY Inductive, <1>1, PTL

(* The error on the screen is the newest mutation's, and the token shown   *)
(* is of the newest issue (main.ts:207-209 and 232-239).                   *)
THEOREM NewestSpeaks == Spec => []OutcomeOfNewest
  <1>1. IInv => OutcomeOfNewest
    BY DEF IInv
  <1>. QED  BY Inductive, <1>1, PTL

(* What a mutation showed is only replaced by a list read after it, for    *)
(* any number of clients and of changes by others (main.ts:216-220).       *)
THEOREM NoOldListOverAResult == Spec => []OwnResultStays
  <1>1. IInv => OwnResultStays
    BY DEF IInv
  <1>. QED  BY Inductive, <1>1, PTL

-----------------------------------------------------------------------------
(***************************************************************************)
(* The bounds of the model hold because a mutation of the page adds one    *)
(* state to the registry at most, and the changes of the others leave      *)
(* room for every one of them that is not answered yet.                    *)
(***************************************************************************)
Open == {v \in Call : call[v].phase \in {"none", "sent"}}
Room == Now + Cardinality(Open) <= MaxTime

\* A list that was read is one of a state the registry was in.
ListsOfThePast ==
  /\ listed \in 1 .. Now
  /\ \A v \in Call : /\ sync[v].time <= Now
                     /\ sync[v].phase = "read" => sync[v].time > 0
  /\ refresh.time <= Now /\ (refresh.phase = "read" => refresh.time > 0)

\* The versions stay within the mutations of the run.
Versions ==
  /\ mutationVersion <= MaxCall /\ mutationController \in {0, mutationVersion}
  /\ \A v \in Call : call[v].ok => call[v].time > 0

PageType ==
  /\ clients \subseteq Row /\ clientsBusy \in BOOLEAN /\ issuedToken \in 0 .. MaxCall
  /\ error \in [by : {"none", "mutation", "refresh"}, call : 0 .. MaxCall]
  /\ editingClientId \in Client \cup {None}

Bounds == Room /\ ListsOfThePast /\ Versions /\ PageType

LEMMA OpenIsFinite ==
    IsFiniteSet(Open) /\ Cardinality(Open) \in Nat
  <1>1. Open \subseteq 1 .. MaxCall /\ 1 \in Int /\ MaxCall \in Int
    BY ClientsPanelAssumption DEF Open, Call
  <1>2. IsFiniteSet(Open)
    BY <1>1, FS_Interval, FS_Subset
  <1>. QED  BY <1>2, FS_CardinalityType

LEMMA RoomForNow == IInv /\ Bounds => Now \in Time
  <1>. SUFFICES ASSUME IInv, Bounds PROVE Now \in Time
    OBVIOUS
  <1>1. Now \in Nat /\ Now > 0
    BY DEF IInv, Types, Now
  <1>2. Now <= MaxTime
    BY <1>1, OpenIsFinite, ClientsPanelAssumption DEF Bounds, Room
  <1>. QED  BY <1>1, <1>2, ClientsPanelAssumption DEF Time

LEMMA RowsAreRows ==
    ASSUME IInv, Bounds, NEW t \in 1 .. Now
    PROVE  Rows(t) \subseteq Row /\ t \in Time
  <1>1. t \in Time
    BY RoomForNow, ClientsPanelAssumption DEF Time
  <1>2. registry[t] \in State
    BY DEF IInv, Types, Now
  <1>3. \A c \in Client : registry[t][c] # "absent" => registry[t][c] \in Status
    BY <1>2 DEF State
  <1>. QED  BY <1>1, <1>3 DEF Rows, Row

LEMMA InitBounds == Init => Bounds
  <1>. SUFFICES ASSUME Init PROVE Bounds
    OBVIOUS
  <1>1. IInv
    BY InitIInv
  <1>2. Now = 1 /\ registry[1] \in State
    BY DEF Init, Now, State
  <1>3. Room
    <2>1. Cardinality(Open) <= MaxCall
      <3>1. Open \subseteq 1 .. MaxCall /\ 1 \in Int /\ MaxCall \in Nat
        BY ClientsPanelAssumption DEF Open, Call
      <3>2. IsFiniteSet(1 .. MaxCall) /\ Cardinality(1 .. MaxCall) = MaxCall
        BY <3>1, FS_Interval
      <3>. QED  BY <3>1, <3>2, FS_Subset
    <2>. QED  BY <1>2, <2>1, OpenIsFinite, ClientsPanelAssumption DEF Room
  <1>4. ListsOfThePast /\ Versions
    BY <1>2, ClientsPanelAssumption DEF Init, ListsOfThePast, Versions, NoList, NoCall
  <1>5. PageType
    <2>1. 1 \in Time /\ 0 \in 0 .. MaxCall
      BY ClientsPanelAssumption DEF Time
    <2>2. \A c \in Client : registry[1][c] # "absent" => registry[1][c] \in Status
      BY <1>2 DEF State
    <2>3. clients \subseteq Row
      BY <2>1, <2>2 DEF Init, Rows, Row
    <2>4. error \in [by : {"none", "mutation", "refresh"}, call : 0 .. MaxCall]
      BY <2>1 DEF Init, NoError
    <2>. QED  BY <2>1, <2>3, <2>4 DEF Init, PageType
  <1>. QED  BY <1>3, <1>4, <1>5 DEF Bounds

\* The registry and the calls a step leaves open decide the room.
LEMMA KeepsRoom ==
    ASSUME IInv, Bounds, registry' = registry,
           \A v \in Call : call'[v].phase \in {"none", "sent"}
                             <=> call[v].phase \in {"none", "sent"}
    PROVE  Room' /\ Now' = Now /\ Now \in Nat
  <1>1. Open' = Open
    BY DEF Open
  <1>. QED  BY <1>1 DEF Bounds, Room, Now, IInv, Types

LEMMA BeginBounds ==
    ASSUME IInv, Bounds, NEW kind \in Mutation, NEW c \in Client, Begin(kind, c)
    PROVE  Bounds'
  <1>. DEFINE n == mutationVersion + 1
              new == [kind |-> kind, id |-> c, phase |-> "sent", ok |-> FALSE, time |-> 0]
  <1>1. n \in Call /\ mutationVersion \in Nat /\ n <= MaxCall
    BY ClientsPanelAssumption DEF Begin, IInv, Types, Call
  <1>2. call' = [call EXCEPT ![n] = new] /\ call \in [Call -> TimedCall]
    BY DEF Begin, IInv, Types
  <1>3. new.phase = "sent" /\ ~new.ok
    OBVIOUS
  <1>. HIDE DEF new
  <1>4. call'[n] = new /\ \A v \in Call \ {n} : call'[v] = call[v]
    BY <1>1, <1>2
  <1>5. /\ mutationVersion' = n /\ mutationController' = n /\ clientsBusy' = TRUE
        /\ error' = NoError
        /\ UNCHANGED <<registry, sync, refresh, clients, listed, issuedToken, editingClientId>>
    BY DEF Begin, lists, rows
  <1>6. call[n].phase = "none"
    BY <1>1 DEF IInv, CallsMade
  <1>7. Room' /\ Now' = Now
    BY <1>3, <1>4, <1>5, <1>6, KeepsRoom
  <1>8. ListsOfThePast'
    BY <1>5, <1>7 DEF Bounds, ListsOfThePast
  <1>9. Versions'
    BY <1>1, <1>3, <1>4, <1>5 DEF Bounds, Versions
  <1>10. PageType'
    <2>1. NoError \in [by : {"none", "mutation", "refresh"}, call : 0 .. MaxCall]
      BY ClientsPanelAssumption DEF NoError
    <2>. QED  BY <1>5, <2>1 DEF Bounds, PageType
  <1>. QED  BY <1>7, <1>8, <1>9, <1>10 DEF Bounds

\* An answer takes the place its request had.
LEMMA AnswerBounds ==
    ASSUME IInv, Bounds, NEW v \in Call, Serve(v) \/ Lose(v)
    PROVE  Bounds'
  <1>0. IInv'
    BY AnswerIInv
  <1>1. /\ call \in [Call -> TimedCall] /\ call[v].phase = "sent"
        /\ Now \in Nat /\ Now > 0 /\ Now' \in Nat /\ Now' > 0
    BY <1>0 DEF Serve, Lose, IInv, Types, Now
  <1>2. Now <= Now' /\ Now' <= Now + 1
    <2>1. CASE registry' = registry
      BY <1>1, <2>1 DEF Now
    <2>2. CASE registry' # registry
      <3>1. PICK r : registry' = Append(registry, r)
        BY <2>2 DEF Serve, Lose
      <3>2. Len(registry') = Len(registry) + 1
        <4>1. registry \in Seq(State \cup {r})
          BY DEF IInv, Types
        <4>. QED  BY <3>1, <4>1, AppendProperties
      <3>. QED  BY <1>1, <3>2 DEF Now
    <2>. QED  BY <2>1, <2>2
  <1>3. /\ call'[v].phase = "answered" /\ (call'[v].ok => call'[v].time > 0 \/ call'[v] = [call[v] EXCEPT !.phase = "answered"])
        /\ \A w \in Call \ {v} : call'[w] = call[w]
    <2>1. CASE Serve(v)
      <3>1. PICK ok : call' = [call EXCEPT ![v].phase = "answered", ![v].ok = ok,
                                           ![v].time = IF ok THEN Len(registry') ELSE 0]
        BY <2>1 DEF Serve
      <3>2. /\ call'[v].phase = "answered" /\ call'[v].ok = ok
            /\ call'[v].time = IF ok THEN Len(registry') ELSE 0
            /\ \A w \in Call \ {v} : call'[w] = call[w]
        BY <1>1, <3>1 DEF TimedCall
      <3>3. Len(registry') > 0
        BY <1>1 DEF Now
      <3>. QED  BY <3>2, <3>3
    <2>2. CASE Lose(v)
      BY <1>1, <2>2 DEF Lose, TimedCall
    <2>. QED  BY <2>1, <2>2
  <1>4. UNCHANGED <<mutationVersion, mutationController, sync, refresh, clients, listed,
                    clientsBusy, error, issuedToken, editingClientId>>
    BY DEF Serve, Lose, lists, rows, page
  <1>5. Room'
    <2>1. v \in Open /\ Open' = Open \ {v}
      BY <1>1, <1>3 DEF Open
    <2>2. Cardinality(Open') = Cardinality(Open) - 1
      BY <2>1, OpenIsFinite, FS_RemoveElement
    <2>3. Now + Cardinality(Open) <= MaxTime
      BY DEF Bounds, Room
    <2>. QED  BY <1>1, <1>2, <2>2, <2>3, OpenIsFinite, ClientsPanelAssumption DEF Room
  <1>6. ListsOfThePast'
    <2>1. /\ listed \in Nat /\ \A w \in Call : sync[w].time \in Nat
          /\ refresh.time \in Nat
      BY DEF IInv, Types, TimedList
    <2>. QED  BY <1>1, <1>2, <1>4, <2>1 DEF Bounds, ListsOfThePast
  <1>7. Versions'
    <2>1. [call[v] EXCEPT !.phase = "answered"].ok = call[v].ok
          /\ [call[v] EXCEPT !.phase = "answered"].time = call[v].time
      BY <1>1 DEF TimedCall
    <2>. QED  BY <1>3, <1>4, <2>1 DEF Bounds, Versions
  <1>8. PageType'
    BY <1>4 DEF Bounds, PageType
  <1>. QED  BY <1>5, <1>6, <1>7, <1>8 DEF Bounds

\* The row an accepted mutation leaves is of its client, at its time.
LEMMA ResultIsRows ==
    ASSUME NEW kind \in Mutation, NEW c \in Client, NEW t \in Time, clients \subseteq Row
    PROVE  Result(kind, c, t) \subseteq Row
  <1>. DEFINE row == [id |-> c, status |-> After(kind, "active"), asof |-> t]
  <1>1. CASE kind = "delete"
    BY <1>1 DEF Result
  <1>2. CASE kind # "delete"
    <2>1. After(kind, "active") \in Status
      BY <1>2 DEF After, Status
    <2>2. row \in Row
      BY <2>1 DEF Row
    <2>. HIDE DEF row
    <2>3. \/ Result(kind, c, t) = clients \cup {row}
          \/ Result(kind, c, t) = (clients \ Shown(c)) \cup (IF Shown(c) = {} THEN {} ELSE {row})
      BY <1>2 DEF Result, row
    <2>. QED  BY <2>2, <2>3
  <1>. QED  BY <1>1, <1>2

LEMMA ReturnBounds ==
    ASSUME IInv, Bounds, NEW v \in Call, Done(v) \/ Refused(v)
    PROVE  Bounds'
  <1>1. /\ call[v].phase = "answered" /\ call \in [Call -> TimedCall]
        /\ call' = [call EXCEPT ![v].phase = "over"]
        /\ mutationController' = 0 /\ clientsBusy' = FALSE
        /\ UNCHANGED <<registry, mutationVersion, refresh, listed>>
    BY DEF Done, Refused, Finally, IInv, Types, lists, rows
  <1>2. /\ call'[v].phase = "over" /\ call'[v].ok = call[v].ok /\ call'[v].time = call[v].time
        /\ \A w \in Call \ {v} : call'[w] = call[w]
    BY <1>1 DEF TimedCall
  <1>3. Room' /\ Now' = Now
    BY <1>1, <1>2, KeepsRoom
  <1>4. ListsOfThePast'
    <2>1. sync' = sync \/ sync' = [sync EXCEPT ![v].phase = "asked"]
      BY DEF Done, Refused, lists
    <2>2. sync \in [Call -> TimedList]
      BY DEF IInv, Types
    <2>3. \A w \in Call : /\ sync'[w].time = sync[w].time
                          /\ sync'[w].phase = "read" => sync[w].phase = "read"
      BY <2>1, <2>2 DEF TimedList
    <2>. QED  BY <1>1, <1>3, <2>3 DEF Bounds, ListsOfThePast
  <1>5. Versions'
    BY <1>1, <1>2 DEF Bounds, Versions
  <1>6. PageType'
    <2>1. v \in 0 .. MaxCall
      BY ClientsPanelAssumption DEF Call
    <2>2. CASE Done(v)
      <3>1. /\ call[v].kind \in Mutation /\ call[v].id \in Client
            /\ call[v].time \in 1 .. Now /\ call[v].time \in Time
        <4>1. call[v].time \in Nat /\ call[v].time > 0 /\ call[v].time <= Now
          BY <2>2 DEF Done, IInv, Types, TimedCall, TimesArePast, Bounds, Versions
        <4>2. Now \in Nat
          BY DEF IInv, Types, Now
        <4>3. call[v].time \in 1 .. Now
          BY <4>1, <4>2
        <4>. QED  BY <1>1, <4>3, RowsAreRows DEF IInv, CallsMade
      <3>2. clients' \subseteq Row
        BY <2>2, <3>1, ResultIsRows DEF Done, Bounds, PageType
      <3>3. /\ issuedToken' \in {v, issuedToken} /\ editingClientId' \in {None, editingClientId}
            /\ error' = error
        BY <2>2 DEF Done
      <3>. QED  BY <1>1, <2>1, <3>2, <3>3 DEF Bounds, PageType
    <2>3. CASE Refused(v)
      <3>1. error' \in [by : {"none", "mutation", "refresh"}, call : 0 .. MaxCall]
        BY <2>1, <2>3 DEF Refused
      <3>. QED  BY <1>1, <2>3, <3>1 DEF Refused, rows, Bounds, PageType
    <2>. QED  BY <2>2, <2>3
  <1>. QED  BY <1>3, <1>4, <1>5, <1>6 DEF Bounds

\* The steps of the lists, and the controls that call nobody.
LEMMA ListBounds ==
    ASSUME IInv, Bounds,
           \/ \E v \in Call : SyncRead(v) \/ SyncReturn(v) \/ SyncFail(v)
           \/ RefreshClients \/ RefreshRead \/ RefreshReturn
           \/ \E c \in Client : EditClientCapabilities(c)
           \/ CancelCapabilityEdit \/ SavedIt \/ SetView \/ UNCHANGED vars
    PROVE  Bounds'
  <1>1. UNCHANGED <<registry, mutationVersion, mutationController, call>>
    BY DEF SyncRead, SyncReturn, SyncFail, RefreshClients, RefreshRead, RefreshReturn,
           EditClientCapabilities, CancelCapabilityEdit, SavedIt, SetView, vars, calls
  <1>2. Room' /\ Now' = Now /\ Now \in Nat /\ Now > 0
    BY <1>1, KeepsRoom DEF IInv, Types, Now
  <1>3. Versions'
    BY <1>1 DEF Bounds, Versions
  <1>4. NoList.time = 0 /\ NoList.phase = "none"
    BY DEF NoList
  <1>5. \/ sync' = sync
        \/ \E v \in Call : sync' = [sync EXCEPT ![v] = NoList]
        \/ \E v \in Call : sync' = [sync EXCEPT ![v] = [phase |-> "read", time |-> Now]]
    BY DEF SyncRead, SyncReturn, SyncFail, RefreshClients, RefreshRead, RefreshReturn,
           EditClientCapabilities, CancelCapabilityEdit, SavedIt, SetView, vars, lists
  <1>6. \A v \in Call : /\ sync'[v].time <= Now
                        /\ sync'[v].phase = "read" => sync'[v].time > 0
    <2>1. /\ sync \in [Call -> TimedList]
          /\ \A v \in Call : /\ sync[v].time <= Now
                             /\ sync[v].phase = "read" => sync[v].time > 0
      BY DEF IInv, Types, Bounds, ListsOfThePast
    <2>2. CASE sync' = sync
      BY <2>1, <2>2
    <2>3. ASSUME NEW v \in Call, NEW l, sync' = [sync EXCEPT ![v] = l], l.time <= Now,
                 l.phase = "read" => l.time > 0
          PROVE  \A w \in Call : /\ sync'[w].time <= Now
                                 /\ sync'[w].phase = "read" => sync'[w].time > 0
      <3>1. sync'[v] = l /\ \A w \in Call \ {v} : sync'[w] = sync[w]
        BY <2>1, <2>3
      <3>. QED  BY <2>1, <2>3, <3>1
    <2>. QED  BY <1>2, <1>4, <1>5, <2>2, <2>3
  <1>7. /\ refresh'.time <= Now /\ (refresh'.phase = "read" => refresh'.time > 0)
    <2>1. \/ refresh' = refresh \/ refresh' = NoList
          \/ refresh' = [phase |-> "asked", time |-> 0]
          \/ refresh' = [phase |-> "read", time |-> Now]
      BY DEF SyncRead, SyncReturn, SyncFail, RefreshClients, RefreshRead, RefreshReturn,
             EditClientCapabilities, CancelCapabilityEdit, SavedIt, SetView, vars, lists
    <2>. QED  BY <1>2, <1>4, <2>1 DEF Bounds, ListsOfThePast
  <1>8. listed' \in 1 .. Now /\ clients' \subseteq Row
    <2>1. \/ UNCHANGED <<clients, listed>>
          \/ \E v \in Call : /\ sync[v].phase = "read"
                             /\ clients' = Rows(sync[v].time) /\ listed' = sync[v].time
          \/ /\ refresh.phase = "read"
             /\ clients' = Rows(refresh.time) /\ listed' = refresh.time
      BY DEF SyncRead, SyncReturn, SyncFail, RefreshClients, RefreshRead, RefreshReturn,
             EditClientCapabilities, CancelCapabilityEdit, SavedIt, SetView, vars, rows
    <2>2. CASE UNCHANGED <<clients, listed>>
      BY <2>2 DEF Bounds, PageType, ListsOfThePast
    <2>3. ASSUME NEW t \in 1 .. Now, clients' = Rows(t), listed' = t
          PROVE  listed' \in 1 .. Now /\ clients' \subseteq Row
      BY <2>3, RowsAreRows
    <2>4. \A v \in Call : sync[v].phase = "read" => sync[v].time \in 1 .. Now
      BY <1>2 DEF IInv, Types, TimedList, Bounds, ListsOfThePast
    <2>5. refresh.phase = "read" => refresh.time \in 1 .. Now
      BY <1>2 DEF IInv, Types, TimedList, Bounds, ListsOfThePast
    <2>. QED  BY <2>1, <2>2, <2>3, <2>4, <2>5
  <1>9. PageType'
    <2>1. /\ clientsBusy' \in {TRUE, FALSE, clientsBusy} /\ issuedToken' \in {0, issuedToken}
          /\ editingClientId' \in Client \cup {None, editingClientId}
          /\ error' \in {error, NoError, [by |-> "refresh", call |-> 0]}
      BY DEF SyncRead, SyncReturn, SyncFail, RefreshClients, RefreshRead, RefreshReturn,
             EditClientCapabilities, CancelCapabilityEdit, SavedIt, SetView, vars, page
    <2>2. 0 \in 0 .. MaxCall
      BY ClientsPanelAssumption
    <2>3. error' \in [by : {"none", "mutation", "refresh"}, call : 0 .. MaxCall]
      BY <2>1, <2>2 DEF NoError, Bounds, PageType
    <2>4. clientsBusy' \in BOOLEAN
      BY <2>1, Zenon DEF Bounds, PageType
    <2>. QED  BY <1>8, <2>1, <2>2, <2>3, <2>4 DEF Bounds, PageType
  <1>. QED  BY <1>2, <1>3, <1>6, <1>7, <1>8, <1>9 DEF Bounds, ListsOfThePast

LEMMA ForeignBounds ==
    ASSUME IInv, Bounds, NEW c \in Client, ForeignChange(c)
    PROVE  Bounds'
  <1>1. /\ Now + Cardinality(Open) < MaxTime
        /\ UNCHANGED <<mutationVersion, mutationController, call, sync, refresh, clients,
                       listed, clientsBusy, error, issuedToken, editingClientId>>
    BY DEF ForeignChange, Open, calls, lists, rows, page
  <1>2. Now' = Now + 1 /\ Now \in Nat
    <2>1. PICK r : registry' = Append(registry, r)
      BY DEF ForeignChange
    <2>2. registry \in Seq(State \cup {r})
      BY DEF IInv, Types
    <2>. QED  BY <2>1, <2>2, AppendProperties DEF Now
  <1>3. Room'
    <2>1. Open' = Open
      BY <1>1 DEF Open
    <2>. QED  BY <1>1, <1>2, <2>1, OpenIsFinite, ClientsPanelAssumption DEF Room
  <1>4. ListsOfThePast'
    <2>1. /\ listed \in Nat /\ \A w \in Call : sync[w].time \in Nat
          /\ refresh.time \in Nat
      BY DEF IInv, Types, TimedList
    <2>. QED  BY <1>1, <1>2, <2>1 DEF Bounds, ListsOfThePast
  <1>. QED  BY <1>1, <1>3, <1>4 DEF Bounds, Versions, PageType

LEMMA StepBounds == IInv /\ Bounds /\ [Next]_vars => Bounds'
  <1>. SUFFICES ASSUME IInv, Bounds, [Next]_vars PROVE Bounds'
    OBVIOUS
  <1>1. ASSUME NEW c \in Client, NEW kind \in Mutation, Begin(kind, c) PROVE Bounds'
    BY <1>1, BeginBounds
  <1>2. ASSUME NEW v \in Call, Serve(v) \/ Lose(v) PROVE Bounds'
    BY <1>2, AnswerBounds
  <1>3. ASSUME NEW v \in Call, Done(v) \/ Refused(v) PROVE Bounds'
    BY <1>3, ReturnBounds
  <1>4. ASSUME NEW c \in Client, ForeignChange(c) PROVE Bounds'
    BY <1>4, ForeignBounds
  <1>5. CASE \/ \E v \in Call : SyncRead(v) \/ SyncReturn(v) \/ SyncFail(v)
             \/ RefreshClients \/ RefreshRead \/ RefreshReturn
             \/ \E c \in Client : EditClientCapabilities(c)
             \/ CancelCapabilityEdit \/ SavedIt \/ SetView \/ UNCHANGED vars
    BY <1>5, ListBounds
  <1>. QED  BY <1>1, <1>2, <1>3, <1>4, <1>5 DEF Next, Control, Answer, Return, Sync

LEMMA BoundsTypeOK == IInv /\ Bounds => TypeOK
  <1>. SUFFICES ASSUME IInv, Bounds PROVE TypeOK
    OBVIOUS
  <1>1. Now \in Time /\ Now \in Nat /\ Now <= MaxTime /\ MaxTime \in Nat
    BY RoomForNow, ClientsPanelAssumption DEF Time
  <1>2. registry \in Seq([Client -> Status \cup {"absent"}])
    BY DEF IInv, Types, State
  <1>3. mutationVersion \in 0 .. MaxCall /\ mutationController \in {0, mutationVersion}
    BY ClientsPanelAssumption DEF IInv, Types, Bounds, Versions
  <1>4. call \in [Call -> CallState]
    <2>1. \A v \in Call : call[v].time \in 0 .. MaxTime
      BY <1>1 DEF IInv, Types, TimedCall, TimesArePast
    <2>2. \A v \in Call : call[v] \in CallState
      BY <2>1 DEF IInv, Types, TimedCall, CallState
    <2>. QED  BY <2>2 DEF IInv, Types
  <1>5. sync \in [Call -> List] /\ refresh \in List
    <2>1. refresh.time \in 0 .. MaxTime /\ \A v \in Call : sync[v].time \in 0 .. MaxTime
      BY <1>1 DEF IInv, Types, TimedList, Bounds, ListsOfThePast
    <2>2. refresh \in List /\ \A v \in Call : sync[v] \in List
      BY <2>1 DEF IInv, Types, TimedList, List
    <2>. QED  BY <2>2 DEF IInv, Types
  <1>6. acked \in [Client -> [kind : Mutation \cup {"none"}, time : 0 .. MaxTime]]
    <2>1. \A c \in Client : acked[c].time \in 0 .. MaxTime
      BY <1>1 DEF IInv, Types, Ack, TimesArePast
    <2>2. \A c \in Client : acked[c] \in [kind : Mutation \cup {"none"}, time : 0 .. MaxTime]
      BY <2>1 DEF IInv, Types, Ack
    <2>. QED  BY <2>2 DEF IInv, Types
  <1>7. listed \in Time
    BY <1>1 DEF Bounds, ListsOfThePast, Time
  <1>. QED  BY <1>1, <1>2, <1>3, <1>4, <1>5, <1>6, <1>7 DEF Bounds, PageType, TypeOK

(* Every variable of the panel keeps its domain, whatever the bounds are:  *)
(* the rows on the screen are always rows of a state the registry was in   *)
(* or of a mutation's answer, and the newest mutation holds the controller *)
(* or nobody does (main.ts:198-214).                                       *)
THEOREM PanelTypes == Spec => []TypeOK
  <1>1. Init => IInv /\ Bounds
    BY InitIInv, InitBounds
  <1>2. IInv /\ Bounds /\ [Next]_vars => IInv' /\ Bounds'
    BY StepIInv, StepBounds
  <1>. QED  BY <1>1, <1>2, BoundsTypeOK, PTL DEF Spec

-----------------------------------------------------------------------------
\* The mutation whose controller is held has a request that is still to be
\* answered, or an answer that is still to be looked at.
Awaited(v) == v \in Call /\ call[v].phase \in {"sent", "answered"}
HolderIsAwaited == mutationController # 0 => Awaited(mutationController)

\* The controls of the panel are never disabled with nothing on its way that
\* could enable them again.
BusyHasRequest == clientsBusy => Awaited(mutationController) \/ refresh.phase # "none"

LEMMA HolderStep ==
    ASSUME IInv, HolderIsAwaited, [Next]_vars
    PROVE  HolderIsAwaited'
  <1>0. call \in [Call -> TimedCall] /\ mutationVersion \in Nat
    BY DEF IInv, Types
  <1>1. ASSUME NEW c \in Client, NEW kind \in Mutation, Begin(kind, c) PROVE HolderIsAwaited'
    <2>. DEFINE n == mutationVersion + 1
    <2>1. n \in Call /\ mutationController' = n
      BY <1>0, <1>1, ClientsPanelAssumption DEF Begin, Call
    <2>2. call'[n].phase = "sent"
      BY <1>0, <1>1, <2>1 DEF Begin
    <2>. QED  BY <2>1, <2>2 DEF HolderIsAwaited, Awaited
  <1>2. ASSUME NEW v \in Call, Serve(v) \/ Lose(v) PROVE HolderIsAwaited'
    <2>1. /\ call'[v].phase = "answered" /\ \A w \in Call \ {v} : call'[w] = call[w]
          /\ UNCHANGED mutationController
      BY <1>0, <1>2 DEF Serve, Lose, TimedCall
    <2>. QED  BY <2>1 DEF HolderIsAwaited, Awaited
  <1>3. ASSUME NEW v \in Call, Done(v) \/ Refused(v) PROVE HolderIsAwaited'
    BY <1>3 DEF Done, Refused, Finally, HolderIsAwaited
  <1>4. CASE UNCHANGED <<mutationController, call>>
    BY <1>4 DEF HolderIsAwaited, Awaited
  <1>. QED
    BY <1>1, <1>2, <1>3, <1>4
       DEF Next, Control, Answer, Return, Sync, calls, vars, SyncRead, SyncReturn, SyncFail,
           RefreshClients, RefreshRead, RefreshReturn, EditClientCapabilities,
           CancelCapabilityEdit, SavedIt, SetView, ForeignChange

(* No control stays disabled without a call: an overlapping mutation takes *)
(* the controller over with a request of its own, and whatever it comes    *)
(* back with, the finally block runs (main.ts:198-214 and 508-513).        *)
THEOREM ControlsAreNotForgotten == Spec => []BusyHasRequest
  <1>1. Init => HolderIsAwaited
    BY DEF Init, HolderIsAwaited
  <1>2. Spec => []HolderIsAwaited
    BY <1>1, HolderStep, Inductive, PTL DEF Spec
  <1>3. IInv /\ HolderIsAwaited => BusyHasRequest
    BY DEF IInv, ControlsFollowCalls, HolderIsAwaited, BusyHasRequest
  <1>. QED  BY <1>2, <1>3, Inductive, PTL
=============================================================================
