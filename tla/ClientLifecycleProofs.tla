------------------------ MODULE ClientLifecycleProofs ------------------------
(***************************************************************************)
(* Proofs about ClientLifecycle for any clients, tokens and requests,      *)
(* however the gets and the saves of the use cases interleave.             *)
(*                                                                         *)
(* What is true of the table must be true of every row on its way to it: a *)
(* request may save what it read long ago.  The invariant says of the rows *)
(* in the table and of the pending ones together that a token has one      *)
(* client, that an observer does not write, and that no row brings a       *)
(* quietly retired token back.                                             *)
(***************************************************************************)
EXTENDS ClientLifecycle, TLAPS

-----------------------------------------------------------------------------
SaveRequest == [pc : {"save"}, client : Clients, row : Row, replaces : Tokens \cup {None}]
DeleteRequest == [pc : {"delete"}, client : Clients]
ClientRequest == [pc : {"authorize", "act"}, client : Clients, need : Capability,
                  token : Tokens, stale : BOOLEAN]

\* A token is in a row of c, or in what a request will save or replace for c.
Carries(c, k) ==
  \/ table[c] # Absent /\ table[c].token = k
  \/ \E t \in Threads : /\ At(t, "save") /\ thread[t].client = c
                        /\ k = thread[t].row.token \/ k = thread[t].replaces

\* The token lets a client in now, or will when a pending row is saved.
Opens(k) ==
  \/ Live(k) # {}
  \/ \E t \in Threads : /\ At(t, "save")
                        /\ thread[t].row.status = "active" /\ thread[t].row.token = k

OneOwner == \A c, d \in Clients, k \in Tokens : Carries(c, k) /\ Carries(d, k) => c = d

OnlyIssued == \A c \in Clients, k \in Tokens : Carries(c, k) => k \in issued

\* A save that replaces a token does not write it back.
ReplacesAway ==
  \A t \in Threads :
    At(t, "save") /\ thread[t].row.status = "active" => thread[t].row.token # thread[t].replaces

QuietlyRetiredOpensNothing ==
  \A k \in Tokens : retired[k] = "quietly" => k \in issued /\ ~Opens(k)

NoStaleRequest == \A t \in Threads : thread[t].pc \in {"authorize", "act"} => ~thread[t].stale

NoWriteForObserver(row) == row.profile = "observer" => "write" \notin row.capabilities
ObserverRows ==
  /\ \A c \in Clients : NoWriteForObserver(table[c])
  /\ \A t \in Threads : At(t, "save") => NoWriteForObserver(thread[t].row)

IInv ==
  /\ TypeOK /\ OneOwner /\ OnlyIssued /\ ReplacesAway
  /\ QuietlyRetiredOpensNothing /\ NoStaleRequest /\ ObserverRows

-----------------------------------------------------------------------------
(* Rows and requests.                                                      *)

LEMMA RequestOf ==
  ASSUME TypeOK, NEW t \in Threads
  PROVE  /\ At(t, "save") => thread[t] \in SaveRequest
         /\ At(t, "delete") => thread[t] \in DeleteRequest
         /\ At(t, "authorize") \/ At(t, "act") => thread[t] \in ClientRequest
<1>1. thread[t] \in {Idle} \cup SaveRequest \cup DeleteRequest \cup ClientRequest
  BY Zenon DEF TypeOK, Request, SaveRequest, DeleteRequest, ClientRequest
<1>2. thread[t] = Idle => thread[t].pc = "idle"
  BY DEF Idle
<1>3. thread[t] \in SaveRequest => thread[t].pc = "save"
  BY DEF SaveRequest
<1>4. thread[t] \in DeleteRequest => thread[t].pc = "delete"
  BY DEF DeleteRequest
<1>5. thread[t] \in ClientRequest => thread[t].pc \in {"authorize", "act"}
  BY DEF ClientRequest
<1>6. QED
  BY <1>1, <1>2, <1>3, <1>4, <1>5 DEF At

LEMMA SavesRow ==
  ASSUME TypeOK, NEW t \in Threads, At(t, "save")
  PROVE  /\ thread[t].client \in Clients /\ thread[t].row \in Row
         /\ thread[t].replaces \in Tokens \cup {None}
BY RequestOf DEF SaveRequest

LEMMA DeletesClient ==
  ASSUME TypeOK, NEW t \in Threads, At(t, "delete")
  PROVE  thread[t].client \in Clients
BY RequestOf DEF DeleteRequest

LEMMA PresentRow ==
  ASSUME TypeOK, NEW c \in Clients, table[c].status \in {"active", "revoked"}
  PROVE  table[c] \in Row /\ table[c] # Absent
<1>1. table[c] \in Row \/ table[c] = Absent
  BY DEF TypeOK
<1>2. Absent.status = "absent"
  BY DEF Absent
<1>3. QED
  BY <1>1, <1>2

LEMMA RowFields ==
  ASSUME NEW row \in Row
  PROVE  /\ row.profile \in Profile /\ row.capabilities \subseteq Capability
         /\ row.status \in {"active", "revoked"} /\ row.token \in Tokens
BY DEF Row

LEMMA UpdatedRow ==
  ASSUME NEW row \in Row, NEW capabilities \in SUBSET Capability, NEW token \in Tokens
  PROVE  /\ [row EXCEPT !.capabilities = capabilities] \in Row
         /\ [row EXCEPT !.token = token] \in Row
         /\ [row EXCEPT !.status = "revoked"] \in Row
BY DEF Row

LEMMA WillSaveTyped ==
  ASSUME TypeOK, NEW t \in Threads, NEW c \in Clients, NEW row \in Row,
         NEW replaces \in Tokens \cup {None}, WillSave(t, c, row, replaces)
  PROVE  thread' \in [Threads -> Request]
<1>1. [pc |-> "save", client |-> c, row |-> row, replaces |-> replaces] \in SaveRequest
  BY DEF SaveRequest
<1>2. SaveRequest \subseteq Request
  BY DEF SaveRequest, Request
<1>3. QED
  BY <1>1, <1>2 DEF TypeOK, WillSave

LEMMA LeaveTyped ==
  ASSUME TypeOK, NEW t \in Threads, Leave(t)
  PROVE  thread' \in [Threads -> Request]
BY DEF TypeOK, Leave, Request

LEMMA RetiredTyped ==
  ASSUME TypeOK, NEW t \in Threads, At(t, "save")
  PROVE  Retired(t) \in [Tokens -> {"no", "quietly", "in a race"}]
BY SavesRow DEF TypeOK, Retired

-----------------------------------------------------------------------------
(* Types.                                                                  *)

LEMMA TypeStep == TypeOK /\ [Next]_vars => TypeOK'
<1> SUFFICES ASSUME TypeOK, [Next]_vars PROVE TypeOK'
  OBVIOUS
<1>1. ASSUME NEW t \in Threads, NEW c \in Clients, Issue(t, c) PROVE TypeOK'
  <2> PICK profile \in Profile, capabilities \in SUBSET Capability, token \in Tokens \ issued :
        /\ issued' = issued \cup {token}
        /\ WillSave(t, c, [profile |-> profile, capabilities |-> capabilities,
                           status |-> "active", token |-> token], None)
    BY <1>1 DEF Issue
  <2>1. [profile |-> profile, capabilities |-> capabilities,
         status |-> "active", token |-> token] \in Row
    BY DEF Row
  <2>2. thread' \in [Threads -> Request]
    BY <2>1, WillSaveTyped
  <2>3. QED
    BY <1>1, <2>2 DEF Issue, TypeOK
<1>2. ASSUME NEW t \in Threads, NEW c \in Clients, UpdateCapabilities(t, c) PROVE TypeOK'
  <2> PICK capabilities \in SUBSET Capability :
        WillSave(t, c, [table[c] EXCEPT !.capabilities = capabilities], None)
    BY <1>2 DEF UpdateCapabilities
  <2>1. table[c] \in Row
    BY <1>2, PresentRow DEF UpdateCapabilities
  <2>2. PICK token \in Tokens : TRUE
    BY <2>1, RowFields
  <2>3. [table[c] EXCEPT !.capabilities = capabilities] \in Row
    BY <2>1, <2>2, UpdatedRow
  <2>4. thread' \in [Threads -> Request]
    BY <2>3, WillSaveTyped
  <2>5. QED
    BY <1>2, <2>4 DEF UpdateCapabilities, TypeOK, store
<1>3. ASSUME NEW t \in Threads, NEW c \in Clients, Rotate(t, c) PROVE TypeOK'
  <2> PICK token \in Tokens \ issued :
        /\ issued' = issued \cup {token}
        /\ WillSave(t, c, [table[c] EXCEPT !.token = token], table[c].token)
    BY <1>3 DEF Rotate
  <2>1. table[c] \in Row
    BY <1>3, PresentRow DEF Rotate
  <2>2. [table[c] EXCEPT !.token = token] \in Row /\ table[c].token \in Tokens
    BY <2>1, UpdatedRow, RowFields
  <2>3. thread' \in [Threads -> Request]
    BY <2>2, WillSaveTyped
  <2>4. QED
    BY <1>3, <2>3 DEF Rotate, TypeOK
<1>4. ASSUME NEW t \in Threads, NEW c \in Clients, Revoke(t, c) PROVE TypeOK'
  <2>1. table[c] \in Row
    BY <1>4, PresentRow DEF Revoke
  <2>2. [table[c] EXCEPT !.status = "revoked"] \in Row /\ table[c].token \in Tokens
    BY <2>1, UpdatedRow, RowFields
  <2>3. thread' \in [Threads -> Request]
    BY <1>4, <2>2, WillSaveTyped DEF Revoke
  <2>4. QED
    BY <1>4, <2>3 DEF Revoke, TypeOK, store
<1>5. ASSUME NEW t \in Threads, NEW c \in Clients, Delete(t, c) PROVE TypeOK'
  <2>1. [pc |-> "delete", client |-> c] \in Request
    BY DEF Request
  <2>2. QED
    BY <1>5, <2>1 DEF Delete, TypeOK, store
<1>6. ASSUME NEW t \in Threads, Save(t) PROVE TypeOK'
  <2>1. At(t, "save") /\ Leave(t) /\ retired' = Retired(t)
    BY <1>6 DEF Save
  <2>2. table' \in [Clients -> Row \cup {Absent}]
    BY <1>6, <2>1, SavesRow DEF Save, TypeOK
  <2>3. QED
    BY <1>6, <2>1, <2>2, LeaveTyped, RetiredTyped DEF Save, TypeOK
<1>7. ASSUME NEW t \in Threads, DeleteRow(t) PROVE TypeOK'
  <2>1. At(t, "delete") /\ Leave(t)
    BY <1>7 DEF DeleteRow
  <2>2. QED
    BY <1>7, <2>1, LeaveTyped, DeletesClient DEF DeleteRow, TypeOK
<1>8. ASSUME NEW t \in Threads, NEW token \in Tokens, NEW need \in Capability,
             Authenticate(t, token, need)
      PROVE  TypeOK'
  <2> PICK c \in Live(token) :
        thread' = [thread EXCEPT ![t] = [pc |-> "authorize", client |-> c, need |-> need,
                     token |-> token, stale |-> retired[token] = "quietly"]]
    BY <1>8 DEF Authenticate
  <2>1. [pc |-> "authorize", client |-> c, need |-> need, token |-> token,
         stale |-> retired[token] = "quietly"] \in Request
    BY DEF Request, Live
  <2>2. QED
    BY <1>8, <2>1 DEF Authenticate, TypeOK, store
<1>9. ASSUME NEW t \in Threads, Authorize(t) PROVE TypeOK'
  <2>1. thread[t] \in ClientRequest
    BY <1>9, RequestOf DEF Authorize
  <2>2. [thread[t] EXCEPT !.pc = "act"] \in ClientRequest
    BY <2>1 DEF ClientRequest
  <2>3. thread' = [thread EXCEPT ![t] = [thread[t] EXCEPT !.pc = "act"]] \/ Leave(t)
    BY <1>9 DEF Authorize
  <2>4. thread' \in [Threads -> Request]
    BY <2>2, <2>3, LeaveTyped DEF TypeOK, Request, ClientRequest
  <2>5. QED
    BY <1>9, <2>4 DEF Authorize, TypeOK, store
<1>10. ASSUME NEW t \in Threads, Act(t) PROVE TypeOK'
  BY <1>10, LeaveTyped DEF Act, TypeOK, store
<1>11. CASE Crash
  BY <1>11 DEF Crash, TypeOK, Request, store
<1>12. CASE UNCHANGED vars
  BY <1>12 DEF vars, store, TypeOK
<1>13. QED
  BY <1>1, <1>2, <1>3, <1>4, <1>5, <1>6, <1>7, <1>8, <1>9, <1>10, <1>11, <1>12 DEF Next

\* The table, the tokens and the requests keep their types.
THEOREM TypesHold == Spec => []TypeOK
<1>1. Init => TypeOK
  BY DEF Init, TypeOK, Request
<1>2. QED
  BY <1>1, TypeStep, PTL DEF Spec

-----------------------------------------------------------------------------
(* The rows together: in the table and about to be saved.                  *)

\* If what is carried after a step was carried before, or is a token that c0
\* was just given, a token has one owner still.
LEMMA OwnersInherited ==
  ASSUME OneOwner, OnlyIssued, issued \subseteq issued', NEW c0,
         \A c \in Clients, k \in Tokens :
           Carries(c, k)' => Carries(c, k) \/ (c = c0 /\ k \in issued' \ issued)
  PROVE  OneOwner' /\ OnlyIssued'
<1>1. OnlyIssued'
  BY DEF OnlyIssued
<1>2. ASSUME NEW c \in Clients, NEW d \in Clients, NEW k \in Tokens, Carries(c, k)', Carries(d, k)'
      PROVE  c = d
  <2>1. CASE k \in issued
    BY <1>2, <2>1 DEF OneOwner
  <2>2. CASE k \notin issued
    BY <1>2, <2>2 DEF OnlyIssued
  <2>3. QED
    BY <2>1, <2>2
<1>3. QED
  BY <1>1, <1>2 DEF OneOwner

\* A use case that has read a row, or makes one, is about to save: the row has
\* the client's token or a new one, and takes back nothing that was retired.
LEMMA PendingRow ==
  ASSUME IInv, TypeOK', NEW t \in Threads, NEW c \in Clients, NEW row \in Row,
         NEW replaces \in Tokens \cup {None},
         At(t, "idle"), WillSave(t, c, row, replaces),
         table' = table, retired' = retired, issued \subseteq issued',
         Carries(c, row.token) \/ row.token \in issued' \ issued,
         replaces = None \/ Carries(c, replaces),
         row.status = "active" => row.token # replaces /\ retired[row.token] # "quietly",
         NoWriteForObserver(row)
  PROVE  IInv'
<1> row.token \in Tokens
  BY DEF Row
<1>1. /\ thread'[t].pc = "save" /\ thread'[t].client = c
      /\ thread'[t].row = row /\ thread'[t].replaces = replaces
  BY DEF IInv, TypeOK, WillSave
<1>2. \A u \in Threads \ {t} : thread'[u] = thread[u]
  BY DEF IInv, TypeOK, WillSave
<1>3. OneOwner' /\ OnlyIssued'
  <2>1. \A d \in Clients, k \in Tokens :
          Carries(d, k)' => Carries(d, k) \/ (d = c /\ k \in issued' \ issued)
    BY <1>1, <1>2, NamesAssumption DEF Carries, At
  <2>2. QED
    BY <2>1, OwnersInherited DEF IInv
<1>4. ReplacesAway'
  BY <1>1, <1>2 DEF IInv, ReplacesAway, At
<1>5. QuietlyRetiredOpensNothing'
  BY <1>1, <1>2 DEF IInv, QuietlyRetiredOpensNothing, Opens, Live, At
<1>6. NoStaleRequest'
  BY <1>1, <1>2 DEF IInv, NoStaleRequest
<1>7. ObserverRows'
  BY <1>1, <1>2 DEF IInv, ObserverRows, At
<1>8. QED
  BY <1>3, <1>4, <1>5, <1>6, <1>7 DEF IInv

\* A step that starts no save and gives no client a row keeps everything the
\* invariant says of rows.
LEMMA FewerRows ==
  ASSUME IInv, TypeOK', NoStaleRequest', issued' = issued, retired' = retired,
         \A c \in Clients : table'[c] \in {table[c], Absent},
         \A t \in Threads : thread'[t].pc = "save" => thread'[t] = thread[t]
  PROVE  IInv'
<1>1. Absent.status = "absent" /\ NoWriteForObserver(Absent)
  BY DEF Absent, NoWriteForObserver
<1>2. \A c \in Clients, k \in Tokens : Carries(c, k)' => Carries(c, k)
  BY DEF Carries, At
<1>3. OneOwner' /\ OnlyIssued'
  BY <1>2, OwnersInherited DEF IInv
<1>4. ReplacesAway'
  BY DEF IInv, ReplacesAway, At
<1>5. \A k \in Tokens : Opens(k)' => Opens(k)
  BY <1>1 DEF Opens, Live, At
<1>6. QuietlyRetiredOpensNothing'
  BY <1>5 DEF IInv, QuietlyRetiredOpensNothing
<1>7. ObserverRows'
  BY <1>1 DEF IInv, ObserverRows, At
<1>8. QED
  BY <1>3, <1>4, <1>6, <1>7 DEF IInv

-----------------------------------------------------------------------------
(* save().                                                                 *)

\* A save that no other use case is in the middle of leaves nothing that opens
\* with the token it replaced: the token was this client's only, and the row
\* that held it is overwritten.
LEMMA QuietSaveCloses ==
  ASSUME IInv, NEW t \in Threads, Save(t), NEW k \in Tokens, k = thread[t].replaces,
         Saving(thread[t].client) = {t}
  PROVE  ~Opens(k)' /\ k \in issued
<1> DEFINE c == thread[t].client
<1>1. At(t, "save") /\ c \in Clients /\ thread[t].row \in Row
  BY SavesRow DEF Save, IInv
<1>2. Carries(c, k)
  BY <1>1 DEF Carries
<1>3. \A d \in Clients : Carries(d, k) => d = c
  BY <1>1, <1>2 DEF IInv, OneOwner
<1>4. thread' = [thread EXCEPT ![t] = Idle] /\ Idle.pc = "idle"
  BY DEF Save, Leave, Idle
<1>5. table' = [table EXCEPT ![c] = thread[t].row]
  BY DEF Save
<1>6. thread[t].row.status = "active" => thread[t].row.token # k
  BY <1>1 DEF IInv, ReplacesAway
<1>7. ASSUME NEW d \in Clients, table'[d].status = "active", table'[d].token = k PROVE FALSE
  <2>1. d # c
    BY <1>1, <1>5, <1>6, <1>7 DEF IInv, TypeOK
  <2>2. table[d].status = "active" /\ table[d].token = k
    BY <1>5, <1>7, <2>1 DEF IInv, TypeOK
  <2>3. table[d] # Absent
    BY <2>2, PresentRow DEF IInv
  <2>4. QED
    BY <1>3, <2>1, <2>2, <2>3 DEF Carries
<1>8. ASSUME NEW u \in Threads, thread'[u].pc = "save", thread'[u].row.token = k PROVE FALSE
  <2>1. u # t /\ thread[u].pc = "save" /\ thread[u].row.token = k
    BY <1>4, <1>8 DEF IInv, TypeOK
  <2>2. thread[u].client \in Clients
    BY <2>1, SavesRow DEF IInv, At
  <2>3. thread[u].client = c
    BY <1>3, <2>1, <2>2 DEF Carries, At
  <2>4. u \in Saving(c)
    BY <2>1, <2>3 DEF Saving, At
  <2>5. QED
    BY <2>1, <2>4
<1>9. ~Opens(k)'
  BY <1>7, <1>8 DEF Opens, Live, At
<1>10. QED
  BY <1>1, <1>2, <1>9 DEF IInv, OnlyIssued

LEMMA SaveStep ==
  ASSUME IInv, TypeOK', NEW t \in Threads, Save(t)
  PROVE  IInv'
<1> DEFINE c == thread[t].client
<1>1. At(t, "save") /\ c \in Clients /\ thread[t].row \in Row
  BY SavesRow DEF Save, IInv
<1>2. table' = [table EXCEPT ![c] = thread[t].row] /\ issued' = issued
  BY DEF Save
<1>3. thread'[t] = Idle /\ Idle.pc = "idle" /\ \A u \in Threads \ {t} : thread'[u] = thread[u]
  BY DEF Save, Leave, Idle, IInv, TypeOK
<1>4. table'[c] = thread[t].row /\ \A d \in Clients \ {c} : table'[d] = table[d]
  BY <1>1, <1>2 DEF IInv, TypeOK
<1>5. OneOwner' /\ OnlyIssued'
  <2>1. \A d \in Clients, k \in Tokens : Carries(d, k)' => Carries(d, k)
    BY <1>1, <1>3, <1>4 DEF Carries, At
  <2>2. QED
    BY <1>2, <2>1, OwnersInherited DEF IInv
<1>6. ReplacesAway'
  BY <1>3 DEF IInv, ReplacesAway, At
<1>7. QuietlyRetiredOpensNothing'
  <2> SUFFICES ASSUME NEW k \in Tokens, retired'[k] = "quietly"
               PROVE  k \in issued /\ ~Opens(k)'
    BY <1>2 DEF QuietlyRetiredOpensNothing
  <2>1. CASE k = thread[t].replaces
    <3>1. thread[t].replaces # None
      BY <2>1, NamesAssumption
    <3>2. retired'[k] = IF Saving(c) = {t} THEN "quietly" ELSE "in a race"
      BY <2>1, <3>1 DEF Save, Retired, IInv, TypeOK
    <3>3. QED
      BY <2>1, <3>1, <3>2, QuietSaveCloses
  <2>2. CASE k # thread[t].replaces
    <3>1. retired[k] = "quietly"
      BY <2>2 DEF Save, Retired, IInv, TypeOK
    <3>2. k \in issued /\ ~Opens(k)
      BY <3>1 DEF IInv, QuietlyRetiredOpensNothing
    <3>3. Opens(k)' => Opens(k)
      BY <1>1, <1>3, <1>4 DEF Opens, Live, At
    <3>4. QED
      BY <3>2, <3>3
  <2>3. QED
    BY <2>1, <2>2
<1>8. NoStaleRequest'
  BY <1>3 DEF IInv, NoStaleRequest
<1>9. ObserverRows'
  BY <1>1, <1>3, <1>4 DEF IInv, ObserverRows, At
<1>10. QED
  BY <1>5, <1>6, <1>7, <1>8, <1>9 DEF IInv

-----------------------------------------------------------------------------
(* Every step.                                                             *)

LEMMA InvInit == Init => IInv
<1> SUFFICES ASSUME Init PROVE IInv
  OBVIOUS
<1>1. \A t \in Threads : thread[t].pc = "idle"
  BY DEF Init, Idle
<1>2. Absent.status = "absent" /\ NoWriteForObserver(Absent)
  BY DEF Absent, NoWriteForObserver
<1>3. TypeOK
  BY DEF Init, TypeOK, Request
<1>4. \A c \in Clients, k \in Tokens : ~Carries(c, k)
  BY <1>1 DEF Carries, At, Init
<1>5. OneOwner /\ OnlyIssued
  BY <1>4 DEF OneOwner, OnlyIssued
<1>6. ReplacesAway /\ NoStaleRequest
  BY <1>1 DEF ReplacesAway, NoStaleRequest, At
<1>7. QuietlyRetiredOpensNothing
  BY DEF QuietlyRetiredOpensNothing, Init
<1>8. ObserverRows
  BY <1>1, <1>2 DEF ObserverRows, At, Init
<1>9. QED
  BY <1>3, <1>5, <1>6, <1>7, <1>8 DEF IInv

\* The row of a client that may use its token, as get() answers it.
LEMMA ActiveRow ==
  ASSUME IInv, NEW c \in Clients, table[c].status = "active"
  PROVE  /\ table[c] \in Row /\ table[c].token \in Tokens
         /\ Carries(c, table[c].token) /\ retired[table[c].token] # "quietly"
         /\ table[c].token \in issued /\ NoWriteForObserver(table[c])
<1>1. table[c] \in Row /\ table[c] # Absent /\ table[c].token \in Tokens
  BY PresentRow, RowFields DEF IInv
<1>2. Carries(c, table[c].token)
  BY <1>1 DEF Carries
<1>3. c \in Live(table[c].token)
  BY DEF Live
<1>4. retired[table[c].token] # "quietly"
  BY <1>1, <1>3 DEF IInv, QuietlyRetiredOpensNothing, Opens
<1>5. QED
  BY <1>1, <1>2, <1>4 DEF IInv, OnlyIssued, ObserverRows

LEMMA InvStep == IInv /\ [Next]_vars => IInv'
<1> SUFFICES ASSUME IInv, [Next]_vars PROVE IInv'
  OBVIOUS
<1>0. TypeOK'
  BY TypeStep DEF IInv
<1>1. ASSUME NEW t \in Threads, NEW c \in Clients, Issue(t, c) PROVE IInv'
  <2> PICK profile \in Profile, capabilities \in SUBSET Capability, token \in Tokens \ issued :
        /\ Grantable(profile, capabilities)
        /\ issued' = issued \cup {token}
        /\ WillSave(t, c, [profile |-> profile, capabilities |-> capabilities,
                           status |-> "active", token |-> token], None)
    BY <1>1 DEF Issue
  <2> DEFINE row == [profile |-> profile, capabilities |-> capabilities,
                     status |-> "active", token |-> token]
  <2>1. row \in Row /\ row.token = token
    BY DEF Row
  <2>2. NoWriteForObserver(row)
    BY DEF NoWriteForObserver, Grantable
  <2>3. token # None /\ retired[token] # "quietly"
    BY NamesAssumption DEF IInv, QuietlyRetiredOpensNothing
  <2> HIDE DEF row
  <2>4. WillSave(t, c, row, None)
    BY DEF row
  <2>5. QED
    BY <1>0, <1>1, <2>1, <2>2, <2>3, <2>4, PendingRow DEF Issue
<1>2. ASSUME NEW t \in Threads, NEW c \in Clients, UpdateCapabilities(t, c) PROVE IInv'
  <2> PICK capabilities \in SUBSET Capability :
        /\ Grantable(table[c].profile, capabilities)
        /\ WillSave(t, c, [table[c] EXCEPT !.capabilities = capabilities], None)
    BY <1>2 DEF UpdateCapabilities
  <2> DEFINE row == [table[c] EXCEPT !.capabilities = capabilities]
  <2>1. table[c].status = "active"
    BY <1>2 DEF UpdateCapabilities
  <2>2. /\ row \in Row /\ row.token = table[c].token
        /\ row.profile = table[c].profile /\ row.capabilities = capabilities
    BY <2>1, ActiveRow, UpdatedRow DEF Row
  <2> HIDE DEF row
  <2>3. NoWriteForObserver(row)
    BY <2>2 DEF NoWriteForObserver, Grantable
  <2>4. WillSave(t, c, row, None) /\ row.token # None
    BY <2>1, <2>2, ActiveRow, NamesAssumption DEF row
  <2>5. QED
    BY <1>0, <1>2, <2>1, <2>2, <2>3, <2>4, ActiveRow, PendingRow DEF UpdateCapabilities, store
<1>3. ASSUME NEW t \in Threads, NEW c \in Clients, Rotate(t, c) PROVE IInv'
  <2> PICK token \in Tokens \ issued :
        /\ issued' = issued \cup {token}
        /\ WillSave(t, c, [table[c] EXCEPT !.token = token], table[c].token)
    BY <1>3 DEF Rotate
  <2> DEFINE row == [table[c] EXCEPT !.token = token]
  <2>1. table[c].status = "active"
    BY <1>3 DEF Rotate
  <2>2. /\ row \in Row /\ row.token = token
        /\ row.profile = table[c].profile /\ row.capabilities = table[c].capabilities
    BY <2>1, ActiveRow, UpdatedRow DEF Row
  <2> HIDE DEF row
  <2>3. NoWriteForObserver(row)
    BY <2>1, <2>2, ActiveRow DEF NoWriteForObserver
  <2>4. WillSave(t, c, row, table[c].token)
    BY DEF row
  <2>5. token # table[c].token /\ retired[token] # "quietly"
    BY <2>1, ActiveRow DEF IInv, QuietlyRetiredOpensNothing
  <2>6. QED
    BY <1>0, <1>3, <2>1, <2>2, <2>3, <2>4, <2>5, ActiveRow, PendingRow DEF Rotate
<1>4. ASSUME NEW t \in Threads, NEW c \in Clients, Revoke(t, c) PROVE IInv'
  <2> DEFINE row == [table[c] EXCEPT !.status = "revoked"]
  <2>1. table[c].status = "active"
    BY <1>4 DEF Revoke
  <2>2. /\ row \in Row /\ row.token = table[c].token /\ row.status = "revoked"
        /\ row.profile = table[c].profile /\ row.capabilities = table[c].capabilities
    BY <2>1, ActiveRow, UpdatedRow DEF Row
  <2>3. WillSave(t, c, row, table[c].token)
    BY <1>4 DEF Revoke
  <2> HIDE DEF row
  <2>4. NoWriteForObserver(row)
    BY <2>1, <2>2, ActiveRow DEF NoWriteForObserver
  <2>5. QED
    BY <1>0, <1>4, <2>1, <2>2, <2>3, <2>4, ActiveRow, PendingRow DEF Revoke, store
<1>5. ASSUME NEW t \in Threads, NEW c \in Clients, Delete(t, c) PROVE IInv'
  <2>1. thread'[t].pc = "delete" /\ \A u \in Threads \ {t} : thread'[u] = thread[u]
    BY <1>5 DEF Delete, IInv, TypeOK
  <2>2. NoStaleRequest'
    BY <2>1 DEF IInv, NoStaleRequest
  <2>3. QED
    BY <1>0, <1>5, <2>1, <2>2, FewerRows DEF Delete, store
<1>6. ASSUME NEW t \in Threads, Save(t) PROVE IInv'
  BY <1>0, <1>6, SaveStep
<1>7. ASSUME NEW t \in Threads, DeleteRow(t) PROVE IInv'
  <2>1. thread'[t] = Idle /\ Idle.pc = "idle" /\ \A u \in Threads \ {t} : thread'[u] = thread[u]
    BY <1>7 DEF DeleteRow, Leave, IInv, TypeOK, Idle
  <2>2. NoStaleRequest'
    BY <2>1 DEF IInv, NoStaleRequest
  <2>3. \A c \in Clients : table'[c] \in {table[c], Absent}
    BY <1>7 DEF DeleteRow, IInv, TypeOK
  <2>4. QED
    BY <1>0, <1>7, <2>1, <2>2, <2>3, FewerRows DEF DeleteRow
<1>8. ASSUME NEW t \in Threads, NEW token \in Tokens, NEW need \in Capability,
             Authenticate(t, token, need)
      PROVE  IInv'
  <2> PICK c \in Live(token) :
        thread' = [thread EXCEPT ![t] = [pc |-> "authorize", client |-> c, need |-> need,
                     token |-> token, stale |-> retired[token] = "quietly"]]
    BY <1>8 DEF Authenticate
  <2>1. retired[token] # "quietly"
    BY DEF IInv, QuietlyRetiredOpensNothing, Opens
  <2>2. thread'[t].pc = "authorize" /\ ~thread'[t].stale
    BY <2>1 DEF IInv, TypeOK
  <2>3. \A u \in Threads \ {t} : thread'[u] = thread[u]
    BY DEF IInv, TypeOK
  <2>4. NoStaleRequest'
    BY <2>2, <2>3 DEF IInv, NoStaleRequest
  <2>5. QED
    BY <1>0, <1>8, <2>2, <2>3, <2>4, FewerRows DEF Authenticate, store
<1>9. ASSUME NEW t \in Threads, Authorize(t) PROVE IInv'
  <2>1. thread[t] \in ClientRequest /\ ~thread[t].stale
    BY <1>9, RequestOf DEF Authorize, IInv, NoStaleRequest, At
  <2>2. thread' = [thread EXCEPT ![t] = [thread[t] EXCEPT !.pc = "act"]] \/ Leave(t)
    BY <1>9 DEF Authorize
  <2>3. thread'[t] = [thread[t] EXCEPT !.pc = "act"] \/ thread'[t] = Idle
    BY <2>2 DEF Leave, IInv, TypeOK
  <2>4. \/ thread'[t].pc = "act" /\ ~thread'[t].stale
        \/ thread'[t].pc = "idle"
    BY <2>1, <2>3 DEF ClientRequest, Idle
  <2>5. \A u \in Threads \ {t} : thread'[u] = thread[u]
    BY <2>2 DEF Leave, IInv, TypeOK
  <2>6. NoStaleRequest'
    BY <2>4, <2>5 DEF IInv, NoStaleRequest
  <2>7. QED
    BY <1>0, <1>9, <2>4, <2>5, <2>6, FewerRows DEF Authorize, store
<1>10. ASSUME NEW t \in Threads, Act(t) PROVE IInv'
  <2>1. thread'[t] = Idle /\ Idle.pc = "idle" /\ \A u \in Threads \ {t} : thread'[u] = thread[u]
    BY <1>10 DEF Act, Leave, IInv, TypeOK, Idle
  <2>2. NoStaleRequest'
    BY <2>1 DEF IInv, NoStaleRequest
  <2>3. QED
    BY <1>0, <1>10, <2>1, <2>2, FewerRows DEF Act, store
<1>11. CASE Crash
  <2>1. \A t \in Threads : thread'[t].pc = "idle"
    BY <1>11 DEF Crash, Idle
  <2>2. NoStaleRequest'
    BY <2>1 DEF NoStaleRequest
  <2>3. QED
    BY <1>0, <1>11, <2>1, <2>2, FewerRows DEF Crash, store
<1>12. CASE UNCHANGED vars
  BY <1>0, <1>12, FewerRows DEF vars, store, IInv, NoStaleRequest
<1>13. QED
  BY <1>1, <1>2, <1>3, <1>4, <1>5, <1>6, <1>7, <1>8, <1>9, <1>10, <1>11, <1>12 DEF Next

LEMMA InvHolds == Spec => []IInv
BY InvInit, InvStep, PTL DEF Spec

-----------------------------------------------------------------------------
(* Theorems.                                                               *)

\* A token that RevokeClient or RotateClientToken took away while no other use
\* case was about to save the same client never authenticates again, whatever
\* save() writes later, and no request is being served that came in with it.
THEOREM RetiredTokensStayDead == Spec => []QuietlyRetiredStaysDead
<1>1. IInv => QuietlyRetiredStaysDead
  BY DEF IInv, QuietlyRetiredOpensNothing, NoStaleRequest, Opens, QuietlyRetiredStaysDead
<1>2. QED
  BY <1>1, InvHolds, PTL

\* find_by_token_digest has one row to find, though the table has no unique
\* index on the digest and use cases save rows they read long ago.
THEOREM TokensNameOneClient == Spec => []TokenNamesOneClient
<1>1. IInv => TokenNamesOneClient
  <2> SUFFICES ASSUME IInv, NEW c \in Clients, NEW d \in Clients, c # d,
                      table[c] # Absent, table[d] # Absent, table[c].token = table[d].token
               PROVE  FALSE
    BY DEF TokenNamesOneClient
  <2>1. table[c].token \in Tokens
    BY RowFields DEF IInv, TypeOK
  <2>2. Carries(c, table[c].token) /\ Carries(d, table[c].token)
    BY DEF Carries
  <2>3. QED
    BY <2>1, <2>2 DEF IInv, OneOwner
<1>2. QED
  BY <1>1, InvHolds, PTL

\* save() writes whole rows, each granted by the checks of one use case: no
\* interleaving leaves an observer with a capability that writes.
THEOREM ObserversNeverWrite == Spec => []ObserverNeverWrites
<1>1. IInv => ObserverNeverWrites
  BY DEF IInv, ObserverRows, NoWriteForObserver, ObserverNeverWrites
<1>2. QED
  BY <1>1, InvHolds, PTL

=============================================================================
