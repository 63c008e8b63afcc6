----------------------- MODULE OperatorMutationsProofs -----------------------
(***************************************************************************)
(* Proofs about OperatorMutations for any finite number of requests, keys  *)
(* and approvals, every set of proposals and every limit.                  *)
(***************************************************************************)
EXTENDS OperatorMutations, FiniteSetTheorems, TLAPS

-----------------------------------------------------------------------------
(* Type correctness.                                                       *)

\* Between requests a thread is idle, and what a request knows of itself.
LEMMA IdleTyped == Idle \in Request
  BY DEF Idle, Request, Executing

LEMMA RequestFields ==
    ASSUME TypeOK, NEW t \in Threads
    PROVE  /\ thread[t] \in Request
           /\ thread[t].pc # "idle" => thread[t].proposal \in Proposals
           /\ thread[t].pc \in Executing => thread[t].key \in Keys /\ thread[t].grant \in Grants
  BY DEF TypeOK, Request

\* Moving a request on, with an outcome or without, and ending it.
LEMMA MovedTyped ==
    ASSUME NEW r \in Request, NEW pc \in Issuing \cup Executing, r.pc # "idle",
           pc \in Executing => r.pc \in Executing
    PROVE  [r EXCEPT !.pc = pc] \in Request
  BY DEF Request, Issuing, Executing

LEMMA EndedTyped ==
    ASSUME NEW r \in Request, NEW outcome \in Outcome, r.pc = "call"
    PROVE  [r EXCEPT !.pc = "audit", !.outcome = outcome] \in Request
  <1>1. [r EXCEPT !.pc = "audit"] \in Request
    BY MovedTyped DEF Executing
  <1>. DEFINE q == [r EXCEPT !.pc = "audit"]
  <1>2. [q EXCEPT !.outcome = outcome] \in Request
    BY <1>1 DEF Request
  <1>. QED  BY <1>2 DEF Request

LEMMA GotoTyped ==
    ASSUME TypeOK, NEW t \in Threads, NEW pc \in Issuing \cup Executing, Goto(t, pc),
           thread[t].pc # "idle", pc \in Executing => thread[t].pc \in Executing
    PROVE  thread' \in [Threads -> Request]
  BY MovedTyped DEF TypeOK, Goto

LEMMA LeaveTyped ==
    ASSUME TypeOK, NEW t \in Threads, Leave(t)
    PROVE  thread' \in [Threads -> Request]
  BY IdleTyped DEF TypeOK, Leave

LEMMA OutcomeTyped ==
    ASSUME TypeOK, NEW t \in Threads, NEW outcome \in Outcome, At(t, "call"),
           thread' = [thread EXCEPT ![t].pc = "audit", ![t].outcome = outcome]
    PROVE  thread' \in [Threads -> Request]
  <1>. DEFINE ended == [thread[t] EXCEPT !.pc = "audit", !.outcome = outcome]
  <1>1. ended \in Request
    BY EndedTyped DEF TypeOK, At
  <1>2. thread' = [thread EXCEPT ![t] = ended]
    BY DEF TypeOK
  <1>. HIDE DEF ended
  <1>. QED  BY <1>1, <1>2 DEF TypeOK

\* Purging keeps the table a table, and a row that changes becomes "deleted".
LEMMA PurgedRow ==
    ASSUME TypeOK, NEW g \in Grants
    PROVE  /\ Purged[g].proposal = approval[g].proposal
           /\ Purged[g].expired = approval[g].expired
           /\ \/ Purged[g] = approval[g] /\ (approval[g].state = "stored" => ~approval[g].expired)
                                         /\ approval[g].state # "consumed"
              \/ approval[g].state \in {"stored", "consumed"} /\ Purged[g].state = "deleted"
                   /\ (approval[g].state = "stored" => approval[g].expired)
  BY DEF TypeOK, Purged, Approval

LEMMA PurgedTyped ==
    ASSUME TypeOK PROVE Purged \in [Grants -> Approval]
  BY DEF TypeOK, Purged, Approval

LEMMA TypeInit == Init => TypeOK
  BY IdleTyped DEF Init, TypeOK, Approval

LEMMA TypeStep == TypeOK /\ [Next]_vars => TypeOK'
  <1>. SUFFICES ASSUME TypeOK, [Next]_vars PROVE TypeOK'
    OBVIOUS
  <1>. USE DEF stores, homeAssistant
  <1>1. ASSUME NEW t \in Threads, NEW p \in Proposals, RequestApproval(t, p) PROVE TypeOK'
    <2>1. [Idle EXCEPT !.pc = "issue_purge", !.proposal = p] \in Request
      BY DEF Idle, Request, Issuing, Executing
    <2>. QED  BY <1>1, <2>1 DEF TypeOK, RequestApproval
  <1>2. ASSUME NEW t \in Threads, IssuePurge(t) PROVE TypeOK'
    <2>1. thread' \in [Threads -> Request]
      BY <1>2, GotoTyped DEF IssuePurge, At, Issuing, Executing
    <2>. QED  BY <1>2, <2>1, PurgedTyped DEF TypeOK, IssuePurge
  <1>3. ASSUME NEW t \in Threads, IssueSize(t) PROVE TypeOK'
    <2>1. thread' \in [Threads -> Request]
      BY <1>3, GotoTyped, LeaveTyped DEF IssueSize, At, Issuing, Executing
    <2>. QED  BY <1>3, <2>1 DEF TypeOK, IssueSize
  <1>4. ASSUME NEW t \in Threads, Save(t) PROVE TypeOK'
    <2>1. thread' \in [Threads -> Request]
      BY <1>4, LeaveTyped DEF Save
    <2>2. approval' \in [Grants -> Approval]
      BY <1>4 DEF TypeOK, Save, Approval, Request
    <2>. QED  BY <1>4, <2>1, <2>2 DEF TypeOK, Save
  <1>5. ASSUME NEW t \in Threads, NEW p \in Proposals, NEW k \in Keys, NEW g \in Grants,
               NEW token \in BOOLEAN, RequestExecution(t, p, k, g, token)
        PROVE  TypeOK'
    <2>1. Usable(g) \in BOOLEAN
      BY DEF TypeOK, Usable, Approval
    <2>. QED  BY <1>5, <2>1 DEF TypeOK, RequestExecution, Request, Executing
  <1>6. ASSUME NEW t \in Threads, Find(t) PROVE TypeOK'
    <2>1. thread' \in [Threads -> Request]
      BY <1>6, GotoTyped, LeaveTyped DEF Find, At, Issuing, Executing
    <2>. QED  BY <1>6, <2>1 DEF TypeOK, Find
  <1>7. ASSUME NEW t \in Threads, Size(t) PROVE TypeOK'
    <2>1. thread' \in [Threads -> Request]
      BY <1>7, GotoTyped, LeaveTyped DEF Size, At, Issuing, Executing
    <2>. QED  BY <1>7, <2>1 DEF TypeOK, Size
  <1>8. ASSUME NEW t \in Threads, Put(t) PROVE TypeOK'
    <2>1. thread' \in [Threads -> Request]
      BY <1>8, GotoTyped, LeaveTyped DEF Put, At, Issuing, Executing
    <2>2. reserved' \in [Keys -> Proposals \cup {None}]
      BY <1>8 DEF TypeOK, Put, Request
    <2>. QED  BY <1>8, <2>1, <2>2 DEF TypeOK, Put
  <1>9. ASSUME NEW t \in Threads, Purge(t) PROVE TypeOK'
    <2>1. thread' \in [Threads -> Request]
      BY <1>9, GotoTyped DEF Purge, At, Issuing, Executing
    <2>. QED  BY <1>9, <2>1, PurgedTyped DEF TypeOK, Purge
  <1>10. ASSUME NEW t \in Threads, Get(t) PROVE TypeOK'
    <2>1. thread' \in [Threads -> Request]
      BY <1>10, GotoTyped, LeaveTyped DEF Get, At, Issuing, Executing
    <2>. QED  BY <1>10, <2>1 DEF TypeOK, Get
  <1>11. ASSUME NEW t \in Threads, Mark(t) PROVE TypeOK'
    <2>1. thread' \in [Threads -> Request]
      BY <1>11, GotoTyped DEF Mark, At, Issuing, Executing
    <2>2. approval' \in [Grants -> Approval]
      BY <1>11, RequestFields DEF TypeOK, Mark, At, Approval, Executing
    <2>. QED  BY <1>11, <2>1, <2>2 DEF TypeOK, Mark
  <1>12. ASSUME NEW t \in Threads, Refuse(t) PROVE TypeOK'
    BY <1>12, LeaveTyped DEF TypeOK, Refuse
  <1>13. ASSUME NEW t \in Threads, Unsupported(t) PROVE TypeOK'
    <2>1. thread' \in [Threads -> Request]
      BY <1>13, OutcomeTyped DEF Unsupported, Outcome, At
    <2>. QED  BY <1>13, <2>1 DEF TypeOK, Unsupported
  <1>14. ASSUME NEW t \in Threads, Post(t) PROVE TypeOK'
    <2>1. thread' \in [Threads -> Request]
      BY <1>14, OutcomeTyped DEF Post, Outcome, At
    <2>2. /\ posted' \in [Keys -> Nat] /\ spent' \in [Keys -> Grants \cup {None}]
          /\ UNCHANGED stores
      BY <1>14, RequestFields DEF TypeOK, Post, At, Executing
    <2>3. applied' \subseteq Keys
      BY <1>14, RequestFields DEF TypeOK, Post, At, Executing
    <2>. QED  BY <2>1, <2>2, <2>3 DEF TypeOK
  <1>15. ASSUME NEW t \in Threads, Audit(t) PROVE TypeOK'
    <2>1. thread' \in [Threads -> Request]
      BY <1>15, LeaveTyped DEF Audit
    <2>2. audited' \in [Keys -> {"none"} \cup Outcome]
      BY <1>15 DEF TypeOK, Audit, Request
    <2>. QED  BY <1>15, <2>1, <2>2 DEF TypeOK, Audit
  <1>16. ASSUME NEW t \in Threads, StoreFails(t) PROVE TypeOK'
    BY <1>16, LeaveTyped DEF TypeOK, StoreFails
  <1>17. CASE Crash
    BY <1>17, IdleTyped DEF TypeOK, Crash
  <1>18. ASSUME NEW g \in Grants, Expire(g) PROVE TypeOK'
    BY <1>18 DEF TypeOK, Expire, Approval
  <1>19. CASE UNCHANGED vars
    BY <1>19 DEF TypeOK, vars
  <1>. QED
    BY <1>1, <1>2, <1>3, <1>4, <1>5, <1>6, <1>7, <1>8, <1>9, <1>10, <1>11, <1>12,
       <1>13, <1>14, <1>15, <1>16, <1>17, <1>18, <1>19 DEF Next, Arrive, Step

\* Every variable of the operator state keeps its type, for any number of
\* overlapping requests, crashes and failures of the store.
THEOREM TypeCorrect == Spec => []TypeOK
  BY TypeInit, TypeStep, PTL DEF Spec

-----------------------------------------------------------------------------
(* How a step changes threads and approvals.                               *)

LEMMA GotoEffect ==
    ASSUME TypeOK, NEW t \in Threads, NEW pc, Goto(t, pc)
    PROVE  /\ thread'[t].pc = pc /\ thread'[t].proposal = thread[t].proposal
           /\ thread'[t].key = thread[t].key /\ thread'[t].grant = thread[t].grant
           /\ thread'[t].token = thread[t].token /\ thread'[t].live = thread[t].live
           /\ thread'[t].outcome = thread[t].outcome
           /\ \A u \in Threads \ {t} : thread'[u] = thread[u]
  BY DEF TypeOK, Goto, Request

LEMMA LeaveEffect ==
    ASSUME TypeOK, NEW t \in Threads, Leave(t)
    PROVE  /\ thread'[t].pc = "idle"
           /\ \A u \in Threads \ {t} : thread'[u] = thread[u]
  BY DEF TypeOK, Leave, Idle

LEMMA OutcomeEffect ==
    ASSUME TypeOK, NEW t \in Threads, NEW outcome,
           thread' = [thread EXCEPT ![t].pc = "audit", ![t].outcome = outcome]
    PROVE  /\ thread'[t].pc = "audit" /\ thread'[t].proposal = thread[t].proposal
           /\ thread'[t].key = thread[t].key /\ thread'[t].grant = thread[t].grant
           /\ thread'[t].token = thread[t].token /\ thread'[t].live = thread[t].live
           /\ thread'[t].outcome = outcome
           /\ \A u \in Threads \ {t} : thread'[u] = thread[u]
  BY DEF TypeOK, Request

\* An approval that was issued stays issued for its proposal, and neither
\* becomes usable again.
Evolves(g) ==
    approval[g].state # "none" =>
        /\ approval'[g].state # "none"
        /\ approval'[g].proposal = approval[g].proposal
        /\ approval'[g].state = "stored" => approval[g].state = "stored"
        /\ Usable(g)' => Usable(g)

LEMMA ApprovalsEvolve ==
    ASSUME TypeOK, [Next]_vars
    PROVE  \A g \in Grants : Evolves(g)
  <1>. TAKE g \in Grants
  <1>. USE DEF Evolves, Usable
  <1>1. ASSUME UNCHANGED approval PROVE Evolves(g)
    BY <1>1
  <1>2. ASSUME approval' = Purged PROVE Evolves(g)
    BY <1>2, PurgedRow
  <1>3. ASSUME NEW t \in Threads, Save(t) PROVE Evolves(g)
    BY <1>3 DEF TypeOK, Save
  <1>4. ASSUME NEW t \in Threads, Mark(t) PROVE Evolves(g)
    BY <1>4 DEF TypeOK, Mark, Approval
  <1>5. ASSUME NEW h \in Grants, Expire(h) PROVE Evolves(g)
    BY <1>5 DEF TypeOK, Expire, Approval
  <1>. HIDE DEF Evolves, Usable
  <1>6. ASSUME NEW t \in Threads, Step(t) PROVE Evolves(g)
    BY <1>1, <1>2, <1>3, <1>4, <1>6
       DEF Step, IssuePurge, IssueSize, Find, Size, Put, Purge, Get, Refuse, Unsupported, Post,
           Audit, stores
  <1>7. ASSUME NEW t \in Threads, Arrive(t) \/ StoreFails(t) PROVE Evolves(g)
    BY <1>1, <1>7 DEF Arrive, RequestApproval, RequestExecution, StoreFails, stores
  <1>8. CASE Crash \/ UNCHANGED vars
    BY <1>1, <1>8 DEF Crash, stores, vars
  <1>. QED  BY <1>5, <1>6, <1>7, <1>8 DEF Next

-----------------------------------------------------------------------------
(* What a request may count on about its approval.                         *)

ApprovalOK(t) ==
    /\ thread[t].pc \in Executing => approval[thread[t].grant].state # "none"
    /\ thread[t].pc \in {"mark", "call"} =>
          approval[thread[t].grant].proposal = thread[t].proposal
    /\ ~thread[t].live =>
          /\ thread[t].pc \in {"find", "size", "put", "purge"} => ~Usable(thread[t].grant)
          /\ thread[t].pc = "get" => approval[thread[t].grant].state # "stored"
    /\ thread[t].pc \in {"mark", "call", "audit"} => thread[t].live /\ thread[t].token

LEMMA ApprovalParts ==
    WellFormed /\ PassedApproval /\ DoomedApproval /\ DoomedNeverPosts
      <=> \A t \in Threads : ApprovalOK(t)
  BY Zenon DEF WellFormed, PassedApproval, DoomedApproval, DoomedNeverPosts, ApprovalOK

\* A thread that does not move keeps it, whatever the others do; so does a
\* thread that leaves.
LEMMA ApprovalKept ==
    ASSUME TypeOK, NEW t \in Threads, ApprovalOK(t), \A g \in Grants : Evolves(g),
           thread'[t] = thread[t]
    PROVE  ApprovalOK(t)'
  BY RequestFields DEF ApprovalOK, Evolves, Usable, Executing

LEMMA ApprovalIdle ==
    ASSUME NEW t \in Threads, thread'[t].pc \in {"idle"} \cup Issuing
    PROVE  ApprovalOK(t)'
  BY DEF ApprovalOK, Issuing, Executing

LEMMA ApprovalStep ==
    ASSUME TypeOK, \A t \in Threads : ApprovalOK(t), [Next]_vars
    PROVE  \A t \in Threads : ApprovalOK(t)'
  <1>1. \A g \in Grants : Evolves(g)
    BY ApprovalsEvolve
  <1>2. ASSUME NEW t \in Threads, \A u \in Threads \ {t} : thread'[u] = thread[u],
               ApprovalOK(t)'
        PROVE  \A u \in Threads : ApprovalOK(u)'
    BY <1>1, <1>2, ApprovalKept
  <1>3. ASSUME NEW t \in Threads, Leave(t) PROVE \A u \in Threads : ApprovalOK(u)'
    BY <1>2, <1>3, LeaveEffect, ApprovalIdle
  <1>4. ASSUME NEW t \in Threads, NEW pc \in Issuing, Goto(t, pc)
        PROVE  \A u \in Threads : ApprovalOK(u)'
    BY <1>2, <1>4, GotoEffect, ApprovalIdle
  <1>5. ASSUME NEW t \in Threads, NEW pc \in {"size", "put", "purge", "call"},
               thread[t].pc \in {"find", "size", "put", "mark"},
               pc = "call" <=> thread[t].pc = "mark", Goto(t, pc)
        PROVE  \A u \in Threads : ApprovalOK(u)'
    <2>1. ApprovalOK(t)'
      BY <1>1, <1>5, GotoEffect, RequestFields DEF ApprovalOK, Evolves, Usable, Executing
    <2>. QED  BY <1>2, <1>5, <2>1, GotoEffect
  <1>6. ASSUME NEW t \in Threads, NEW p \in Proposals, RequestApproval(t, p)
        PROVE  \A u \in Threads : ApprovalOK(u)'
    <2>1. thread'[t].pc \in Issuing /\ \A u \in Threads \ {t} : thread'[u] = thread[u]
      BY <1>6 DEF TypeOK, RequestApproval, Idle, Issuing
    <2>. QED  BY <1>2, <2>1, ApprovalIdle
  <1>7. ASSUME NEW t \in Threads, NEW p \in Proposals, NEW k \in Keys, NEW g \in Grants,
               NEW token \in BOOLEAN, RequestExecution(t, p, k, g, token)
        PROVE  \A u \in Threads : ApprovalOK(u)'
    <2>1. /\ thread'[t].pc = "find" /\ thread'[t].grant = g /\ thread'[t].live = Usable(g)
          /\ \A u \in Threads \ {t} : thread'[u] = thread[u]
      BY <1>7 DEF TypeOK, RequestExecution
    <2>2. approval[g].state # "none" /\ UNCHANGED approval
      BY <1>7 DEF RequestExecution, stores
    <2>3. ApprovalOK(t)'
      BY <2>1, <2>2 DEF ApprovalOK, Executing, Usable
    <2>. QED  BY <1>2, <2>1, <2>3
  <1>8. ASSUME NEW t \in Threads, Purge(t) PROVE \A u \in Threads : ApprovalOK(u)'
    <2>1. Purged[thread[t].grant].state = "stored" => Usable(thread[t].grant)
      BY <1>8, PurgedRow, RequestFields DEF Purge, At, Executing, Usable
    <2>2. ApprovalOK(t)'
      BY <1>1, <1>8, <2>1, GotoEffect, RequestFields
         DEF Purge, At, ApprovalOK, Evolves, Executing
    <2>. QED  BY <1>2, <1>8, <2>2, GotoEffect DEF Purge
  <1>9. ASSUME NEW t \in Threads, Get(t) PROVE \A u \in Threads : ApprovalOK(u)'
    <2>1. CASE Goto(t, "mark") /\ approval[thread[t].grant].state = "stored" /\ thread[t].token
                 /\ approval[thread[t].grant].proposal = thread[t].proposal
      <3>1. UNCHANGED approval
        BY <1>9 DEF Get, stores
      <3>2. ApprovalOK(t)'
        BY <1>9, <2>1, <3>1, GotoEffect, RequestFields DEF Get, At, ApprovalOK, Executing
      <3>. QED  BY <1>2, <2>1, <3>2, GotoEffect
    <2>. QED  BY <1>3, <1>9, <2>1 DEF Get
  <1>10. ASSUME NEW t \in Threads, Unsupported(t) \/ Post(t)
         PROVE  \A u \in Threads : ApprovalOK(u)'
    <2>1. PICK outcome : thread' = [thread EXCEPT ![t].pc = "audit", ![t].outcome = outcome]
      BY <1>10 DEF Unsupported, Post
    <2>2. /\ thread[t].pc = "call" /\ thread[t].grant \in Grants
          /\ approval[thread[t].grant].state # "none" /\ thread[t].live /\ thread[t].token
      BY <1>10, RequestFields DEF Unsupported, Post, At, ApprovalOK, Executing
    <2>3. approval'[thread[t].grant].state # "none"
      BY <1>1, <2>2 DEF Evolves
    <2>4. ApprovalOK(t)'
      BY <2>1, <2>2, <2>3, OutcomeEffect DEF ApprovalOK
    <2>. QED  BY <1>2, <2>1, <2>4, OutcomeEffect
  <1>11. ASSUME NEW t \in Threads, Step(t) PROVE \A u \in Threads : ApprovalOK(u)'
    <2>1. CASE IssuePurge(t) \/ IssueSize(t) \/ Save(t) \/ Refuse(t) \/ Audit(t)
      BY <1>3, <1>4, <2>1 DEF IssuePurge, IssueSize, Save, Refuse, Audit, Issuing
    <2>2. CASE Find(t) \/ Size(t) \/ Put(t) \/ Mark(t)
      BY <1>3, <1>5, <2>2 DEF Find, Size, Put, Mark, At
    <2>. QED  BY <1>8, <1>9, <1>10, <1>11, <2>1, <2>2 DEF Step
  <1>12. CASE Crash
    BY <1>12, ApprovalIdle DEF Crash, Idle
  <1>13. CASE UNCHANGED thread
    BY <1>1, <1>13, ApprovalKept
  <1>. QED
    BY <1>3, <1>6, <1>7, <1>11, <1>12, <1>13 DEF Next, Arrive, StoreFails, Expire, vars

-----------------------------------------------------------------------------
(* What a request may count on about its key, and what a key records.      *)

KeyOK(t) ==
    /\ thread[t].pc \in Holding =>
          /\ reserved[thread[t].key] = thread[t].proposal
          /\ audited[thread[t].key] = "none"
          /\ thread[t].pc # "audit" => posted[thread[t].key] = 0
    /\ thread[t].pc = "audit" =>
          /\ thread[t].outcome \in Outcome
          /\ thread[t].outcome = "ok" => thread[t].key \in applied
          /\ thread[t].outcome = "unavailable" => posted[thread[t].key] > 0
          /\ thread[t].outcome = "unsupported" => posted[thread[t].key] = 0

RowOK(k) ==
    /\ reserved[k] = None => posted[k] = 0 /\ audited[k] = "none"
    /\ posted[k] <= 1
    /\ posted[k] > 0 =>
          /\ spent[k] \in Grants
          /\ approval[spent[k]].state # "none"
          /\ approval[spent[k]].proposal = reserved[k]
    /\ audited[k] = "ok" => k \in applied
    /\ audited[k] = "unavailable" => posted[k] > 0
    /\ audited[k] = "unsupported" => posted[k] = 0

LEMMA KeyParts ==
    ASSUME TypeOK
    PROVE  Unreserved /\ SentOnce /\ SpentIsGrant /\ ApprovedProposal /\ AuditTellsTruth
             <=> \A k \in Keys : RowOK(k)
  <1>1. ASSUME NEW k \in Keys, spent[k] \in Grants
        PROVE  approval[spent[k]].state \in {"stored", "consumed", "deleted"}
                 <=> approval[spent[k]].state # "none"
    BY <1>1 DEF TypeOK, Approval
  <1>2. ASSUME Unreserved, SentOnce, SpentIsGrant, ApprovedProposal, AuditTellsTruth,
               NEW k \in Keys
        PROVE  RowOK(k)
    BY <1>1, <1>2 DEF Unreserved, SentOnce, SpentIsGrant, ApprovedProposal, AuditTellsTruth, RowOK
  <1>3. ASSUME \A k \in Keys : RowOK(k)
        PROVE  Unreserved /\ SentOnce /\ SpentIsGrant /\ ApprovedProposal /\ AuditTellsTruth
    BY <1>1, <1>3 DEF Unreserved, SentOnce, SpentIsGrant, ApprovedProposal, AuditTellsTruth, RowOK
  <1>. QED  BY <1>2, <1>3

LEMMA HolderParts ==
    HeldKey /\ OutcomeTellsTruth <=> \A t \in Threads : KeyOK(t)
  BY Zenon DEF HeldKey, OutcomeTellsTruth, KeyOK

\* A step that writes neither keys nor Home Assistant, and in which no thread
\* starts to hold a key or to audit.
Quiet ==
    /\ UNCHANGED <<reserved, audited, posted, spent, applied>>
    /\ \A u \in Threads :
          \/ thread'[u].pc \notin Holding
          \/ thread'[u] = thread[u]
          \/ /\ {thread[u].pc, thread'[u].pc} \subseteq Holding \ {"audit"}
             /\ thread'[u].key = thread[u].key /\ thread'[u].proposal = thread[u].proposal

KeysOK == OneHolder /\ (\A t \in Threads : KeyOK(t)) /\ (\A k \in Keys : RowOK(k))

LEMMA RowKept ==
    ASSUME NEW k \in Keys, RowOK(k), \A g \in Grants : Evolves(g), posted'[k] = posted[k],
           spent'[k] = spent[k], audited'[k] = audited[k], k \in applied => k \in applied',
           reserved'[k] = reserved[k]
    PROVE  RowOK(k)'
  BY DEF RowOK, Evolves

LEMMA KeyKept ==
    ASSUME NEW u \in Threads, KeyOK(u), thread'[u] = thread[u],
           thread[u].pc \in Holding =>
              LET k == thread[u].key IN
              /\ posted'[k] = posted[k] /\ audited'[k] = audited[k]
              /\ k \in applied => k \in applied'
              /\ reserved'[k] = reserved[k]
    PROVE  KeyOK(u)'
  BY DEF KeyOK, Holding

LEMMA QuietStep ==
    ASSUME TypeOK, KeysOK, \A g \in Grants : Evolves(g), Quiet
    PROVE  KeysOK'
  <1>1. OneHolder'
    BY DEF KeysOK, Quiet, OneHolder
  <1>2. ASSUME NEW t \in Threads PROVE KeyOK(t)'
    BY DEF KeysOK, Quiet, KeyOK, Holding
  <1>3. ASSUME NEW k \in Keys PROVE RowOK(k)'
    BY RowKept DEF KeysOK, Quiet
  <1>. QED  BY <1>1, <1>2, <1>3 DEF KeysOK

LEMMA QuietLeave ==
    ASSUME TypeOK, NEW t \in Threads, Leave(t),
           UNCHANGED <<reserved, audited, homeAssistant>>
    PROVE  Quiet
  BY LeaveEffect DEF Quiet, Holding, homeAssistant

LEMMA QuietGoto ==
    ASSUME TypeOK, NEW t \in Threads, NEW pc, Goto(t, pc),
           pc \notin Holding \/ {thread[t].pc, pc} \subseteq Holding \ {"audit"},
           UNCHANGED <<reserved, audited, homeAssistant>>
    PROVE  Quiet
  BY GotoEffect DEF Quiet, Holding, homeAssistant

\* No other request holds the key of a request that holds it or that finds it
\* free.
LEMMA SoleHolder ==
    ASSUME TypeOK, KeysOK, NEW t \in Threads, NEW u \in Threads \ {t},
           thread[u].pc \in Holding,
           thread[t].pc \in Holding \/ reserved[thread[t].key] = None
    PROVE  thread[u].key # thread[t].key
  BY RequestFields, SetsAssumption DEF KeysOK, OneHolder, KeyOK, Holding, Executing

LEMMA PutStep ==
    ASSUME TypeOK, KeysOK, NEW t \in Threads, Put(t)
    PROVE  KeysOK'
  <1>. DEFINE k == thread[t].key
  <1>1. CASE reserved[k] # None
    <2>1. Leave(t) /\ UNCHANGED <<approval, reserved, audited, homeAssistant>>
      BY <1>1 DEF Put
    <2>2. \A g \in Grants : Evolves(g)
      BY <2>1 DEF Evolves, Usable
    <2>. QED  BY <2>1, <2>2, QuietLeave, QuietStep
  <1>2. CASE reserved[k] = None
    <2>1. /\ reserved' = [reserved EXCEPT ![k] = thread[t].proposal] /\ Goto(t, "purge")
          /\ UNCHANGED <<approval, audited, posted, spent, applied>>
      BY <1>2 DEF Put, homeAssistant
    <2>2. k \in Keys /\ thread[t].proposal \in Proposals /\ thread[t].pc = "put"
      BY RequestFields DEF Put, At, Executing
    <2>3. /\ thread'[t].pc = "purge" /\ thread'[t].key = k
          /\ thread'[t].proposal = thread[t].proposal
          /\ \A u \in Threads \ {t} : thread'[u] = thread[u]
      BY <2>1, GotoEffect
    <2>4. /\ reserved'[k] = thread[t].proposal
          /\ \A j \in Keys \ {k} : reserved'[j] = reserved[j]
      BY <2>1, <2>2 DEF TypeOK
    <2>5. OneHolder'
      BY <1>2, <2>3, SoleHolder DEF KeysOK, OneHolder
    <2>6. ASSUME NEW u \in Threads \ {t} PROVE KeyOK(u)'
      <3>1. thread[u].pc \in Holding => thread[u].key \in Keys \ {k}
        BY <1>2, SoleHolder, RequestFields DEF Holding, Executing
      <3>. QED  BY <2>1, <2>3, <2>4, <3>1, KeyKept DEF KeysOK
    <2>7. posted[k] = 0 /\ audited[k] = "none"
      BY <1>2, <2>2 DEF KeysOK, RowOK
    <2>8. KeyOK(t)'
      BY <2>1, <2>3, <2>4, <2>7 DEF KeyOK
    <2>9. ASSUME NEW j \in Keys PROVE RowOK(j)'
      <3>1. CASE j = k
        BY <2>1, <2>2, <2>4, <2>7, <3>1, SetsAssumption DEF RowOK
      <3>2. CASE j # k
        BY <2>1, <2>4, <3>2 DEF KeysOK, RowOK
      <3>. QED  BY <3>1, <3>2
    <2>. QED  BY <2>5, <2>6, <2>8, <2>9 DEF KeysOK
  <1>. QED  BY <1>1, <1>2

LEMMA UnsupportedStep ==
    ASSUME TypeOK, KeysOK, NEW t \in Threads, Unsupported(t)
    PROVE  KeysOK'
  <1>1. UNCHANGED <<approval, reserved, audited, posted, spent, applied>>
    BY DEF Unsupported, stores, homeAssistant
  <1>2. /\ thread'[t].pc = "audit" /\ thread'[t].key = thread[t].key
        /\ thread'[t].proposal = thread[t].proposal /\ thread'[t].outcome = "unsupported"
        /\ \A u \in Threads \ {t} : thread'[u] = thread[u]
    BY OutcomeEffect DEF Unsupported
  <1>3. thread[t].pc = "call"
    BY DEF Unsupported, At
  <1>4. OneHolder'
    BY <1>2, <1>3 DEF KeysOK, OneHolder, Holding
  <1>5. ASSUME NEW u \in Threads \ {t} PROVE KeyOK(u)'
    BY <1>1, <1>2, KeyKept DEF KeysOK
  <1>6. KeyOK(t)'
    BY <1>1, <1>2, <1>3 DEF KeysOK, KeyOK, Holding, Outcome
  <1>7. ASSUME NEW k \in Keys PROVE RowOK(k)'
    BY <1>1 DEF KeysOK, RowOK
  <1>. QED  BY <1>4, <1>5, <1>6, <1>7 DEF KeysOK

LEMMA PostStep ==
    ASSUME TypeOK, KeysOK, NEW t \in Threads, ApprovalOK(t), Post(t)
    PROVE  KeysOK'
  <1>. DEFINE k == thread[t].key
              g == thread[t].grant
  <1>1. UNCHANGED <<approval, reserved, audited>>
    BY DEF Post, stores
  <1>2. /\ k \in Keys /\ g \in Grants /\ thread[t].pc = "call"
        /\ approval[g].state # "none" /\ approval[g].proposal = thread[t].proposal
    BY RequestFields DEF Post, At, Executing, ApprovalOK
  <1>3. /\ posted'[k] = posted[k] + 1 /\ spent'[k] = g
        /\ \A j \in Keys \ {k} : posted'[j] = posted[j] /\ spent'[j] = spent[j]
    BY <1>2 DEF Post, TypeOK
  <1>4. PICK outcome \in {"ok", "unavailable"} :
          /\ applied' = applied \cup {k} \/ (outcome = "unavailable" /\ UNCHANGED applied)
          /\ thread' = [thread EXCEPT ![t].pc = "audit", ![t].outcome = outcome]
    BY DEF Post
  <1>5. /\ thread'[t].pc = "audit" /\ thread'[t].key = k /\ thread'[t].outcome = outcome
        /\ thread'[t].proposal = thread[t].proposal
        /\ \A u \in Threads \ {t} : thread'[u] = thread[u]
    BY <1>4, OutcomeEffect
  <1>6. reserved[k] = thread[t].proposal /\ audited[k] = "none" /\ posted[k] = 0
    BY <1>2 DEF KeysOK, KeyOK, Holding
  <1>7. OneHolder'
    BY <1>2, <1>5 DEF KeysOK, OneHolder, Holding
  <1>8. ASSUME NEW u \in Threads \ {t} PROVE KeyOK(u)'
    <2>1. thread[u].pc \in Holding => thread[u].key \in Keys \ {k}
      BY <1>2, SoleHolder, RequestFields DEF Holding, Executing
    <2>2. \A j \in Keys : j \in applied => j \in applied'
      BY <1>4
    <2>. QED  BY <1>1, <1>3, <1>5, <2>1, <2>2, KeyKept DEF KeysOK
  <1>9. KeyOK(t)'
    BY <1>1, <1>3, <1>4, <1>5, <1>6 DEF KeyOK, Outcome
  <1>10. ASSUME NEW j \in Keys PROVE RowOK(j)'
    <2>1. CASE j = k
      <3>1. thread[t].proposal # None
        BY <1>2, RequestFields, SetsAssumption DEF Executing
      <3>. QED  BY <1>1, <1>2, <1>3, <1>6, <2>1, <3>1 DEF RowOK
    <2>2. CASE j # k
      BY <1>1, <1>3, <1>4, <2>2 DEF KeysOK, RowOK
    <2>. QED  BY <2>1, <2>2
  <1>. QED  BY <1>7, <1>8, <1>9, <1>10 DEF KeysOK

LEMMA AuditStep ==
    ASSUME TypeOK, KeysOK, NEW t \in Threads, Audit(t)
    PROVE  KeysOK'
  <1>. DEFINE k == thread[t].key
  <1>1. UNCHANGED <<approval, reserved, posted, spent, applied>>
    BY DEF Audit, homeAssistant
  <1>2. k \in Keys /\ thread[t].pc = "audit" /\ thread[t].proposal \in Proposals
    BY RequestFields DEF Audit, At, Executing
  <1>3. /\ thread'[t].pc = "idle"
        /\ \A u \in Threads \ {t} : thread'[u] = thread[u]
    BY LeaveEffect DEF Audit
  <1>4. /\ audited'[k] = thread[t].outcome
        /\ \A j \in Keys \ {k} : audited'[j] = audited[j]
    BY <1>2 DEF Audit, TypeOK
  <1>5. OneHolder'
    BY <1>3 DEF KeysOK, OneHolder, Holding
  <1>6. ASSUME NEW u \in Threads \ {t} PROVE KeyOK(u)'
    <2>1. thread[u].pc \in Holding => thread[u].key \in Keys \ {k}
      BY <1>2, SoleHolder, RequestFields DEF Holding, Executing
    <2>. QED  BY <1>1, <1>3, <1>4, <2>1, KeyKept DEF KeysOK
  <1>7. KeyOK(t)'
    BY <1>3 DEF KeyOK, Holding
  <1>8. ASSUME NEW j \in Keys PROVE RowOK(j)'
    <2>1. CASE j = k
      <3>1. reserved[k] # None
        BY <1>2, SetsAssumption DEF KeysOK, KeyOK, Holding
      <3>. QED  BY <1>1, <1>2, <1>4, <2>1, <3>1 DEF KeysOK, RowOK, KeyOK
    <2>2. CASE j # k
      BY <1>1, <1>4, <2>2 DEF KeysOK, RowOK
    <2>. QED  BY <2>1, <2>2
  <1>. QED  BY <1>5, <1>6, <1>7, <1>8 DEF KeysOK

\* Where a request starts.
LEMMA ArriveEffect ==
    ASSUME TypeOK, NEW t \in Threads, Arrive(t)
    PROVE  /\ thread'[t].pc \in {"issue_purge", "find"}
           /\ \A u \in Threads \ {t} : thread'[u] = thread[u]
  <1>1. ASSUME NEW p \in Proposals, RequestApproval(t, p)
        PROVE  /\ thread'[t].pc = "issue_purge"
               /\ \A u \in Threads \ {t} : thread'[u] = thread[u]
    BY <1>1 DEF TypeOK, RequestApproval, Idle
  <1>2. ASSUME NEW p \in Proposals, NEW k \in Keys, NEW g \in Grants, NEW token \in BOOLEAN,
               RequestExecution(t, p, k, g, token)
        PROVE  /\ thread'[t].pc = "find"
               /\ \A u \in Threads \ {t} : thread'[u] = thread[u]
    BY <1>2 DEF TypeOK, RequestExecution
  <1>. QED  BY <1>1, <1>2 DEF Arrive

LEMMA KeysStep ==
    ASSUME TypeOK, KeysOK, \A t \in Threads : ApprovalOK(t), [Next]_vars
    PROVE  KeysOK'
  <1>1. \A g \in Grants : Evolves(g)
    BY ApprovalsEvolve
  <1>2. ASSUME Quiet PROVE KeysOK'
    BY <1>1, <1>2, QuietStep
  <1>3. ASSUME NEW t \in Threads, Step(t) PROVE KeysOK'
    <2>1. CASE Put(t) \/ Unsupported(t) \/ Post(t) \/ Audit(t)
      BY <2>1, PutStep, UnsupportedStep, PostStep, AuditStep
    <2>2. CASE IssuePurge(t) \/ IssueSize(t) \/ Save(t) \/ Refuse(t) \/ Find(t) \/ Size(t)
      BY <1>2, <2>2, QuietLeave, QuietGoto
         DEF IssuePurge, IssueSize, Save, Refuse, Find, Size, Holding, stores
    <2>3. CASE Purge(t) \/ Get(t) \/ Mark(t)
      BY <1>2, <2>3, QuietLeave, QuietGoto DEF Purge, Get, Mark, At, Holding, stores
    <2>. QED  BY <1>3, <2>1, <2>2, <2>3 DEF Step
  <1>4. ASSUME NEW t \in Threads, Arrive(t) PROVE Quiet
    <2>1. /\ thread'[t].pc \notin Holding
          /\ \A u \in Threads \ {t} : thread'[u] = thread[u]
      BY <1>4, ArriveEffect DEF Holding
    <2>. QED
      BY <1>4, <2>1 DEF Quiet, Arrive, RequestApproval, RequestExecution, stores, homeAssistant
  <1>5. ASSUME NEW t \in Threads, StoreFails(t) PROVE Quiet
    BY <1>5, QuietLeave DEF StoreFails, stores
  <1>6. CASE Crash
    BY <1>2, <1>6 DEF Quiet, Crash, Idle, Holding, stores, homeAssistant
  <1>7. CASE (\E g \in Grants : Expire(g)) \/ UNCHANGED vars
    BY <1>2, <1>7 DEF Quiet, Expire, vars, homeAssistant
  <1>. QED  BY <1>2, <1>3, <1>4, <1>5, <1>6, <1>7 DEF Next

-----------------------------------------------------------------------------
(* The inductive invariant, and the safety properties it contains.         *)

LEMMA IInvParts ==
    IInv <=> TypeOK /\ KeysOK /\ \A t \in Threads : ApprovalOK(t)
  BY ApprovalParts, KeyParts, HolderParts DEF IInv, KeysOK

LEMMA IInvInit == Init => IInv
  <1>. SUFFICES ASSUME Init PROVE TypeOK /\ KeysOK /\ \A t \in Threads : ApprovalOK(t)
    BY IInvParts
  <1>1. TypeOK
    BY TypeInit
  <1>2. KeysOK
    BY DEF Init, KeysOK, OneHolder, KeyOK, RowOK, Idle, Holding
  <1>3. \A t \in Threads : ApprovalOK(t)
    BY DEF Init, ApprovalOK, Idle, Executing
  <1>. QED  BY <1>1, <1>2, <1>3

LEMMA IInvStep == IInv /\ [Next]_vars => IInv'
  <1>. SUFFICES ASSUME IInv, [Next]_vars PROVE IInv'
    OBVIOUS
  <1>1. TypeOK /\ KeysOK /\ \A t \in Threads : ApprovalOK(t)
    BY IInvParts
  <1>2. TypeOK' /\ KeysOK' /\ \A t \in Threads : ApprovalOK(t)'
    BY <1>1, TypeStep, KeysStep, ApprovalStep
  <1>3. (TypeOK /\ KeysOK /\ \A t \in Threads : ApprovalOK(t))' => IInv'
    BY IInvParts, PTL
  <1>. QED  BY <1>2, <1>3

\* Every reachable state satisfies the inductive invariant: a request past its
\* INSERT is the only holder of its key, and key, approval and outcome agree
\* with what was reserved and sent.
THEOREM Inductive == Spec => []IInv
  BY IInvInit, IInvStep, PTL DEF Spec

\* What Home Assistant was sent under a key is what the key was reserved for and
\* what the approval was given for.
THEOREM ApprovedProposalCorrect == Spec => []ApprovedProposal
  <1>1. IInv => ApprovedProposal
    BY DEF IInv
  <1>. QED  BY <1>1, Inductive, PTL

\* Every audit row of an execution says what happened at Home Assistant.
THEOREM AuditCorrect == Spec => []AuditTellsTruth
  <1>1. IInv => AuditTellsTruth
    BY DEF IInv
  <1>. QED  BY <1>1, Inductive, PTL

\* A request that came with a used, expired or deleted approval, or with a wrong
\* token, never gets to the POST.
THEOREM ReplayRefused == Spec => []DoomedNeverPosts
  <1>1. IInv => DoomedNeverPosts
    BY DEF IInv
  <1>. QED  BY <1>1, Inductive, PTL

-----------------------------------------------------------------------------
(* The keys implement the ledger a client relies on.                       *)

LEMMA LedgerInit == Init => Ledger!Init
  BY DEF Init, Ledger!Init, Entry

\* A step that leaves reserved and posted alone leaves the ledger alone.
LEMMA LedgerKept ==
    ASSUME UNCHANGED <<reserved, posted>>
    PROVE  [k \in Keys |-> Entry(k)]' = [k \in Keys |-> Entry(k)]
  BY DEF Entry

\* A step that changes one key changes its entry only.
LEMMA LedgerChanged ==
    ASSUME NEW k \in Keys,
           \A j \in Keys \ {k} : reserved'[j] = reserved[j] /\ posted'[j] = posted[j]
    PROVE  [j \in Keys |-> Entry(j)]' = [[j \in Keys |-> Entry(j)] EXCEPT ![k] = Entry(k)']
  <1>1. ASSUME NEW j \in Keys, j # k PROVE Entry(j)' = Entry(j)
    BY <1>1 DEF Entry
  <1>. QED  BY <1>1

LEMMA LedgerStep == IInv /\ [Next]_vars => [Ledger!Next]_([k \in Keys |-> Entry(k)])
  <1>. SUFFICES ASSUME IInv, [Next]_vars PROVE [Ledger!Next]_([k \in Keys |-> Entry(k)])
    OBVIOUS
  <1>. DEFINE table == [k \in Keys |-> Entry(k)]
  <1>0. TypeOK /\ KeysOK
    BY IInvParts
  <1>1. ASSUME NEW t \in Threads, Put(t) PROVE [Ledger!Next]_table
    <2>0. PICK k \in Keys : k = thread[t].key
      BY <1>0, <1>1, RequestFields DEF Put, At, Executing
    <2>1. CASE reserved[k] # None
      BY <1>1, <2>0, <2>1, LedgerKept DEF Put, homeAssistant
    <2>2. CASE reserved[k] = None
      <3>1. thread[t].proposal # None
        BY <1>0, <1>1, RequestFields, SetsAssumption DEF Put, At, Executing
      <3>2. /\ reserved'[k] # None /\ posted'[k] = posted[k]
            /\ \A j \in Keys \ {k} : reserved'[j] = reserved[j] /\ posted'[j] = posted[j]
        BY <1>0, <1>1, <2>0, <2>2, <3>1 DEF Put, TypeOK, homeAssistant
      <3>3. posted[k] = 0
        BY <1>0, <2>2 DEF KeysOK, RowOK
      <3>4. Entry(k) = "free" /\ Entry(k)' = "reserved"
        BY <2>2, <3>2, <3>3 DEF Entry
      <3>5. table' = [table EXCEPT ![k] = "reserved"] /\ table[k] = "free"
        BY <3>2, <3>4, LedgerChanged
      <3>. QED  BY <3>5 DEF Ledger!Next, Ledger!Reserve
    <2>. QED  BY <2>1, <2>2
  <1>2. ASSUME NEW t \in Threads, Post(t) PROVE [Ledger!Next]_table
    <2>0. PICK k \in Keys : k = thread[t].key
      BY <1>0, <1>2, RequestFields DEF Post, At, Executing
    <2>1. thread[t].pc = "call" /\ thread[t].proposal # None
      BY <1>0, <1>2, RequestFields, SetsAssumption DEF Post, At, Executing
    <2>2. posted[k] = 0 /\ reserved[k] # None
      BY <1>0, <2>0, <2>1 DEF KeysOK, KeyOK, Holding
    <2>3. /\ posted'[k] = 1 /\ reserved'[k] = reserved[k]
          /\ \A j \in Keys \ {k} : reserved'[j] = reserved[j] /\ posted'[j] = posted[j]
      BY <1>0, <1>2, <2>0, <2>2 DEF Post, TypeOK, stores
    <2>4. Entry(k) = "reserved" /\ Entry(k)' = "sent"
      BY <2>2, <2>3 DEF Entry
    <2>5. table' = [table EXCEPT ![k] = "sent"] /\ table[k] = "reserved"
      BY <2>3, <2>4, LedgerChanged
    <2>. QED  BY <2>5 DEF Ledger!Next, Ledger!Send
  <1>3. ASSUME UNCHANGED <<reserved, posted>> PROVE [Ledger!Next]_table
    BY <1>3, LedgerKept
  <1>4. ASSUME NEW t \in Threads, Step(t), ~Put(t), ~Post(t) PROVE UNCHANGED <<reserved, posted>>
    BY <1>4
       DEF Step, IssuePurge, IssueSize, Save, Find, Size, Purge, Get, Mark, Refuse, Unsupported,
           Audit, stores, homeAssistant
  <1>5. ASSUME NEW t \in Threads, Arrive(t) \/ StoreFails(t) PROVE UNCHANGED <<reserved, posted>>
    BY <1>5 DEF Arrive, RequestApproval, RequestExecution, StoreFails, stores, homeAssistant
  <1>6. CASE Crash \/ (\E g \in Grants : Expire(g)) \/ UNCHANGED vars
    BY <1>3, <1>6 DEF Crash, Expire, vars, stores, homeAssistant
  <1>. QED  BY <1>1, <1>2, <1>3, <1>4, <1>5, <1>6 DEF Next

\* The idempotency table and Home Assistant together implement MutationLedger: a
\* key is reserved once, for good, and sent at most once, for any number of
\* overlapping requests, retries, store failures and restarts.
THEOREM LedgerRefined == Spec => KeepsLedger
  BY LedgerInit, LedgerStep, Inductive, PTL DEF Spec, KeepsLedger, Ledger!Spec

-----------------------------------------------------------------------------
(* One approval is spent by no more requests than run at the same time.    *)

LEMMA ThreadsNat == Cardinality(Threads) \in Nat \ {0}
  BY SetsAssumption, FS_CardinalityType, FS_EmptySet

LEMMA UsedForFinite ==
    ASSUME TypeOK, NEW g \in Grants
    PROVE  IsFiniteSet(UsedFor(g)) /\ Cardinality(UsedFor(g)) \in Nat
  <1>1. UsedFor(g) \subseteq Keys
    BY RequestFields DEF UsedFor, SpentWith, Using, Executing
  <1>. QED  BY <1>1, SetsAssumption, FS_Subset, FS_CardinalityType

\* The part of UseIsBounded about one approval.
UseOK(g) ==
    /\ approval[g].state \in {"none", "stored"} =>
          SpentWith(g) = {} /\ \A t \in Using(g) : thread[t].pc # "call"
    /\ Cardinality(UsedFor(g)) <= Cardinality(Threads)

\* A step that adds no use of an approval keeps both.
LEMMA UseKept ==
    ASSUME TypeOK, NEW g \in Grants, UseOK(g), Evolves(g),
           SpentWith(g)' \subseteq UsedFor(g),
           approval'[g].state \in {"none", "stored"} => SpentWith(g)' = {},
           \A t \in Using(g)' : t \in Using(g) /\ thread'[t].key = thread[t].key,
           \A t \in Using(g)' :
              thread'[t].pc = "call" =>
                 thread[t].pc = "call" \/ approval'[g].state \notin {"none", "stored"}
    PROVE  UseOK(g)'
  <1>1. UsedFor(g)' \subseteq UsedFor(g)
    BY DEF UsedFor
  <1>2. Cardinality(UsedFor(g)') <= Cardinality(UsedFor(g)) /\ Cardinality(UsedFor(g)') \in Nat
    BY <1>1, UsedForFinite, FS_Subset, FS_CardinalityType
  <1>3. Cardinality(UsedFor(g)') <= Cardinality(Threads)
    BY <1>2, UsedForFinite, ThreadsNat DEF UseOK
  <1>4. approval'[g].state \in {"none", "stored"} =>
          SpentWith(g)' = {} /\ \A t \in Using(g)' : thread'[t].pc # "call"
    BY DEF UseOK, Evolves
  <1>. QED  BY <1>3, <1>4 DEF UseOK

\* While nothing was sent, each use of an approval is by a thread of its own.
LEMMA UseByThreads ==
    ASSUME NEW g \in Grants, SpentWith(g) = {}
    PROVE  Cardinality(UsedFor(g)) <= Cardinality(Threads)
  <1>. DEFINE f == [t \in Using(g) |-> thread[t].key]
  <1>1. Using(g) \subseteq Threads /\ UsedFor(g) = {thread[t].key : t \in Using(g)}
    BY DEF Using, UsedFor
  <1>2. f \in Surjection(Using(g), UsedFor(g))
    BY <1>1 DEF Surjection
  <1>3. IsFiniteSet(Using(g)) /\ Cardinality(Using(g)) <= Cardinality(Threads)
    BY <1>1, SetsAssumption, FS_Subset
  <1>. HIDE DEF f
  <1>4. IsFiniteSet(UsedFor(g)) /\ Cardinality(UsedFor(g)) <= Cardinality(Using(g))
    BY <1>2, <1>3, FS_Surjection
  <1>. QED  BY <1>3, <1>4, ThreadsNat, FS_CardinalityType

LEMMA UseStep ==
    ASSUME IInv, NEW g \in Grants, UseOK(g), [Next]_vars
    PROVE  UseOK(g)'
  <1>0. TypeOK /\ KeysOK /\ Evolves(g)
    BY IInvParts, ApprovalsEvolve
  <1>1. ASSUME UNCHANGED <<posted, spent>>,
               \A u \in Threads : thread'[u].pc \in {"mark", "call"} =>
                  /\ thread[u].pc = thread'[u].pc
                  /\ thread[u].key = thread'[u].key /\ thread[u].grant = thread'[u].grant
        PROVE  UseOK(g)'
    <2>1. SpentWith(g)' = SpentWith(g)
      BY <1>1 DEF SpentWith
    <2>2. \A u \in Using(g)' : /\ u \in Using(g) /\ thread'[u].key = thread[u].key
                               /\ thread'[u].pc = thread[u].pc
      BY <1>1 DEF Using
    <2>3. approval'[g].state \in {"none", "stored"} => SpentWith(g)' = {}
      BY <1>0, <2>1 DEF UseOK, Evolves
    <2>. QED  BY <1>0, <2>1, <2>2, <2>3, UseKept DEF UsedFor
  <1>2. ASSUME NEW t \in Threads, Leave(t), UNCHANGED homeAssistant PROVE UseOK(g)'
    BY <1>0, <1>1, <1>2, LeaveEffect DEF homeAssistant
  <1>3. ASSUME NEW t \in Threads, NEW pc, pc \notin {"mark", "call"}, Goto(t, pc),
               UNCHANGED homeAssistant
        PROVE  UseOK(g)'
    BY <1>0, <1>1, <1>3, GotoEffect DEF homeAssistant
  <1>4. ASSUME NEW t \in Threads, Get(t) PROVE UseOK(g)'
    <2>1. CASE Goto(t, "mark") /\ approval[thread[t].grant].state = "stored"
      <3>1. UNCHANGED <<approval, posted, spent>>
        BY <1>4 DEF Get, stores, homeAssistant
      <3>2. /\ thread'[t].pc = "mark" /\ thread'[t].grant = thread[t].grant
            /\ \A u \in Threads \ {t} : thread'[u] = thread[u]
        BY <1>0, <2>1, GotoEffect
      <3>3. SpentWith(g)' = SpentWith(g)
        BY <3>1 DEF SpentWith
      <3>4. CASE thread[t].grant = g
        <4>1. SpentWith(g)' = {}
          BY <2>1, <3>3, <3>4 DEF UseOK
        <4>2. \A u \in Using(g)' : thread'[u].pc # "call"
          BY <2>1, <3>2, <3>4 DEF UseOK, Using
        <4>3. (SpentWith(g) = {} => Cardinality(UsedFor(g)) <= Cardinality(Threads))'
          BY UseByThreads, PTL
        <4>. QED  BY <4>1, <4>2, <4>3 DEF UseOK
      <3>5. CASE thread[t].grant # g
        <4>1. \A u \in Using(g)' : u \in Using(g) /\ thread'[u] = thread[u]
          BY <3>2, <3>5 DEF Using
        <4>. QED  BY <1>0, <3>1, <3>3, <4>1, UseKept DEF UseOK, UsedFor
      <3>. QED  BY <3>4, <3>5
    <2>. QED  BY <1>2, <1>4, <2>1 DEF Get
  <1>5. ASSUME NEW t \in Threads, Mark(t) PROVE UseOK(g)'
    <2>1. /\ thread[t].pc = "mark" /\ thread'[t].pc = "call"
          /\ thread'[t].grant = thread[t].grant /\ thread'[t].key = thread[t].key
          /\ \A u \in Threads \ {t} : thread'[u] = thread[u]
          /\ UNCHANGED <<posted, spent>>
      BY <1>0, <1>5, GotoEffect DEF Mark, At, homeAssistant
    <2>2. thread[t].grant = g => approval'[g].state \notin {"none", "stored"}
      BY <1>0, <1>5, <2>1, IInvParts DEF Mark, TypeOK, ApprovalOK, Executing
    <2>3. SpentWith(g)' = SpentWith(g)
      BY <2>1 DEF SpentWith
    <2>4. \A u \in Using(g)' : u \in Using(g) /\ thread'[u].key = thread[u].key
      BY <2>1 DEF Using
    <2>5. \A u \in Using(g)' :
             thread'[u].pc = "call" =>
                thread[u].pc = "call" \/ approval'[g].state \notin {"none", "stored"}
      BY <2>1, <2>2 DEF Using
    <2>6. approval'[g].state \in {"none", "stored"} => SpentWith(g)' = {}
      BY <1>0, <2>3 DEF UseOK, Evolves
    <2>. QED  BY <1>0, <2>3, <2>4, <2>5, <2>6, UseKept DEF UsedFor
  <1>6. ASSUME NEW t \in Threads, Post(t) PROVE UseOK(g)'
    <2>0. PICK k \in Keys : k = thread[t].key
      BY <1>0, <1>6, RequestFields DEF Post, At, Executing
    <2>1. /\ posted' = [posted EXCEPT ![k] = @ + 1]
          /\ spent' = [spent EXCEPT ![k] = thread[t].grant]
          /\ UNCHANGED approval /\ thread[t].pc = "call"
      BY <1>6, <2>0 DEF Post, At, stores
    <2>2. /\ thread'[t].pc = "audit" /\ \A u \in Threads \ {t} : thread'[u] = thread[u]
      BY <1>0, <1>6, OutcomeEffect DEF Post
    <2>3. CASE thread[t].grant = g
      <3>1. t \in Using(g) /\ approval[g].state \notin {"none", "stored"}
        BY <2>1, <2>3 DEF UseOK, Using
      <3>2. SpentWith(g)' \subseteq SpentWith(g) \cup {k}
        BY <1>0, <2>1 DEF SpentWith, TypeOK
      <3>. QED  BY <1>0, <2>0, <2>1, <2>2, <3>1, <3>2, UseKept DEF Using, UsedFor
    <2>4. CASE thread[t].grant # g
      <3>1. SpentWith(g)' \subseteq SpentWith(g)
        BY <1>0, <2>1, <2>4 DEF SpentWith, TypeOK
      <3>2. approval'[g].state \in {"none", "stored"} => SpentWith(g)' = {}
        BY <2>1, <3>1 DEF UseOK
      <3>3. \A u \in Using(g)' : u \in Using(g) /\ thread'[u] = thread[u]
        BY <2>2 DEF Using
      <3>. QED  BY <1>0, <3>1, <3>2, <3>3, UseKept DEF UsedFor
    <2>. QED  BY <2>3, <2>4
  <1>7. ASSUME NEW t \in Threads, Unsupported(t) PROVE UseOK(g)'
    <2>1. /\ thread'[t].pc = "audit" /\ \A u \in Threads \ {t} : thread'[u] = thread[u]
      BY <1>0, <1>7, OutcomeEffect DEF Unsupported
    <2>. QED  BY <1>1, <1>7, <2>1 DEF Unsupported, homeAssistant
  <1>8. ASSUME NEW t \in Threads, Step(t) PROVE UseOK(g)'
    <2>1. CASE IssuePurge(t) \/ IssueSize(t) \/ Save(t) \/ Find(t) \/ Size(t) \/ Put(t) \/ Purge(t)
      BY <1>2, <1>3, <2>1 DEF IssuePurge, IssueSize, Save, Find, Size, Put, Purge
    <2>2. CASE Refuse(t) \/ Audit(t)
      BY <1>2, <2>2 DEF Refuse, Audit
    <2>. QED  BY <1>4, <1>5, <1>6, <1>7, <1>8, <2>1, <2>2 DEF Step
  <1>9. ASSUME NEW t \in Threads, Arrive(t) PROVE UseOK(g)'
    <2>1. UNCHANGED <<posted, spent>>
      BY <1>9 DEF Arrive, RequestApproval, RequestExecution, homeAssistant
    <2>. QED  BY <1>0, <1>1, <1>9, <2>1, ArriveEffect
  <1>10. ASSUME NEW t \in Threads, StoreFails(t) PROVE UseOK(g)'
    BY <1>2, <1>10 DEF StoreFails
  <1>11. CASE Crash \/ (\E h \in Grants : Expire(h)) \/ UNCHANGED vars
    BY <1>1, <1>11 DEF Crash, Expire, vars, Idle, homeAssistant
  <1>. QED  BY <1>8, <1>9, <1>10, <1>11 DEF Next

LEMMA UseInit == Init => UseIsBounded
  <1>. SUFFICES ASSUME Init, NEW g \in Grants PROVE UseOK(g)
    BY DEF UseIsBounded, UseOK
  <1>1. SpentWith(g) = {} /\ Using(g) = {}
    BY DEF Init, SpentWith, Using, Idle
  <1>. QED  BY <1>1, UseByThreads DEF UseOK

\* One approval never serves more executions than requests run at the same time:
\* the gap between get() and mark_consumed() is as wide as that, and no wider.
THEOREM SpentBounded == Spec => []SpentBound
  <1>1. IInv /\ UseIsBounded /\ [Next]_vars => UseIsBounded'
    BY UseStep DEF UseIsBounded, UseOK
  <1>2. IInv /\ UseIsBounded => SpentBound
    <2>. SUFFICES ASSUME IInv, UseIsBounded, NEW g \in Grants
                  PROVE  Cardinality(SpentWith(g)) <= Cardinality(Threads)
      BY DEF SpentBound
    <2>1. IsFiniteSet(UsedFor(g)) /\ Cardinality(UsedFor(g)) \in Nat
      BY UsedForFinite DEF IInv
    <2>2. Cardinality(SpentWith(g)) <= Cardinality(UsedFor(g)) /\ Cardinality(SpentWith(g)) \in Nat
      BY <2>1, FS_Subset, FS_CardinalityType DEF UsedFor
    <2>. QED  BY <2>1, <2>2, ThreadsNat DEF UseIsBounded
  <1>. QED  BY <1>1, <1>2, UseInit, Inductive, PTL DEF Spec

-----------------------------------------------------------------------------
(* The table of approvals exceeds its limit by overlapping requests only.  *)

LEMMA CountsFinite ==
    /\ IsFiniteSet(Unused) /\ Cardinality(Unused) \in Nat
    /\ IsFiniteSet(Saving) /\ Cardinality(Saving) \in Nat
    /\ Cardinality(Saving) <= Cardinality(Threads)
  <1>1. Unused \subseteq Grants /\ Saving \subseteq Threads
    BY DEF Unused, Saving
  <1>. QED  BY <1>1, SetsAssumption, FS_Subset, FS_CardinalityType

\* A step in which no request gets to its save and nothing is stored.
LEMMA CountsKept ==
    ASSUME SavesAreBounded, Unused' \subseteq Unused, Saving' \subseteq Saving
    PROVE  SavesAreBounded'
  <1>1. /\ Cardinality(Unused') <= Cardinality(Unused) /\ Cardinality(Unused') \in Nat
        /\ Cardinality(Saving') <= Cardinality(Saving) /\ Cardinality(Saving') \in Nat
    BY CountsFinite, FS_Subset, FS_CardinalityType
  <1>. QED  BY <1>1, CountsFinite, ThreadsNat, LimitsAssumption DEF SavesAreBounded

LEMMA SavesStep ==
    ASSUME TypeOK, SavesAreBounded, [Next]_vars
    PROVE  SavesAreBounded'
  <1>1. ASSUME UNCHANGED approval PROVE Unused' = Unused
    BY <1>1 DEF Unused
  <1>2. ASSUME approval' = Purged PROVE Unused' \subseteq Unused
    BY <1>2, PurgedRow DEF Unused
  <1>3. ASSUME NEW t \in Threads, Mark(t) PROVE Unused' \subseteq Unused
    BY <1>3 DEF TypeOK, Mark, Unused
  <1>4. ASSUME NEW g \in Grants, Expire(g) PROVE Unused' \subseteq Unused
    BY <1>4 DEF TypeOK, Expire, Unused, Approval
  <1>5. ASSUME NEW t \in Threads, thread'[t].pc # "save",
               \A u \in Threads \ {t} : thread'[u] = thread[u]
        PROVE  Saving' \subseteq Saving
    BY <1>5 DEF Saving, At
  <1>6. ASSUME NEW t \in Threads, Leave(t) PROVE Saving' \subseteq Saving
    BY <1>5, <1>6, LeaveEffect
  <1>7. ASSUME NEW t \in Threads, NEW pc, pc # "save", Goto(t, pc) PROVE Saving' \subseteq Saving
    BY <1>5, <1>7, GotoEffect
  <1>8. ASSUME NEW t \in Threads, IssueSize(t) PROVE SavesAreBounded'
    <2>1. Unused' = Unused
      BY <1>1, <1>8 DEF IssueSize, stores
    <2>2. CASE Leave(t)
      BY <1>6, <2>1, <2>2, CountsKept
    <2>3. CASE ~(Cardinality(Unused) >= MaxGrants)
      <3>1. Cardinality(Unused) <= MaxGrants - 1
        BY <2>3, CountsFinite, LimitsAssumption
      <3>2. (Cardinality(Saving) \in Nat /\ Cardinality(Saving) <= Cardinality(Threads))'
        BY CountsFinite, PTL
      <3>. QED
        BY <2>1, <3>1, <3>2, CountsFinite, ThreadsNat, LimitsAssumption DEF SavesAreBounded
    <2>. QED  BY <1>8, <2>2, <2>3 DEF IssueSize
  <1>9. ASSUME NEW t \in Threads, Save(t) PROVE SavesAreBounded'
    <2>1. PICK g \in Grants :
            /\ approval[g].state = "none"
            /\ approval' = [approval EXCEPT ![g] =
                 [state |-> "stored", proposal |-> thread[t].proposal, expired |-> FALSE]]
      BY <1>9 DEF Save
    <2>2. Unused' = Unused \cup {g} /\ g \notin Unused
      BY <2>1 DEF TypeOK, Unused
    <2>3. Saving' = Saving \ {t} /\ t \in Saving
      BY <1>9, LeaveEffect DEF Save, Saving, At
    <2>4. /\ Cardinality(Unused') = Cardinality(Unused) + 1
          /\ Cardinality(Saving') = Cardinality(Saving) - 1
      BY <2>2, <2>3, CountsFinite, FS_AddElement, FS_RemoveElement
    <2>. QED
      BY <2>4, CountsFinite, ThreadsNat, LimitsAssumption DEF SavesAreBounded
  <1>10. ASSUME NEW t \in Threads, Step(t) PROVE SavesAreBounded'
    <2>1. CASE IssuePurge(t) \/ Find(t) \/ Size(t) \/ Put(t) \/ Purge(t) \/ Get(t)
      BY <1>1, <1>2, <1>6, <1>7, <2>1, CountsKept
         DEF IssuePurge, Find, Size, Put, Purge, Get, stores
    <2>2. CASE Mark(t)
      BY <1>3, <1>7, <2>2, CountsKept DEF Mark
    <2>3. CASE Refuse(t) \/ Audit(t)
      BY <1>1, <1>6, <2>3, CountsKept DEF Refuse, Audit, stores
    <2>4. CASE Unsupported(t) \/ Post(t)
      <3>1. thread'[t].pc = "audit" /\ \A u \in Threads \ {t} : thread'[u] = thread[u]
        BY <2>4, OutcomeEffect DEF Unsupported, Post
      <3>. QED  BY <1>1, <1>5, <2>4, <3>1, CountsKept DEF Unsupported, Post, stores
    <2>. QED  BY <1>8, <1>9, <1>10, <2>1, <2>2, <2>3, <2>4 DEF Step
  <1>11. ASSUME NEW t \in Threads, Arrive(t) PROVE SavesAreBounded'
    <2>1. UNCHANGED approval
      BY <1>11 DEF Arrive, RequestApproval, RequestExecution, stores
    <2>. QED  BY <1>1, <1>5, <1>11, <2>1, ArriveEffect, CountsKept
  <1>12. ASSUME NEW t \in Threads, StoreFails(t) PROVE SavesAreBounded'
    BY <1>1, <1>6, <1>12, CountsKept DEF StoreFails, stores
  <1>13. CASE Crash
    <2>1. Saving' \subseteq Saving
      BY <1>13 DEF Crash, Saving, At, Idle
    <2>. QED  BY <1>1, <1>13, <2>1, CountsKept DEF Crash, stores
  <1>14. CASE \E g \in Grants : Expire(g)
    <2>1. Saving' = Saving
      BY <1>14 DEF Expire, Saving, At
    <2>. QED  BY <1>4, <1>14, <2>1, CountsKept
  <1>15. CASE UNCHANGED vars
    BY <1>15, CountsKept DEF vars, Saving, At, Unused
  <1>. QED  BY <1>10, <1>11, <1>12, <1>13, <1>14, <1>15 DEF Next

LEMMA SavesInit == Init => SavesAreBounded
  <1>. SUFFICES ASSUME Init PROVE SavesAreBounded
    OBVIOUS
  <1>1. Unused = {} /\ Saving = {}
    BY DEF Init, Unused, Saving, At, Idle
  <1>. QED
    BY <1>1, FS_EmptySet, ThreadsNat, LimitsAssumption DEF SavesAreBounded

\* The stored approvals exceed max_grants by less than the number of requests
\* that run at the same time: the gap between size() and save().
THEOREM GrantsBounded == Spec => []GrantsBound
  <1>1. TypeOK /\ SavesAreBounded /\ [Next]_vars => SavesAreBounded'
    BY SavesStep
  <1>2. SavesAreBounded => GrantsBound
    BY CountsFinite, ThreadsNat, LimitsAssumption DEF SavesAreBounded, GrantsBound
  <1>. QED  BY <1>1, <1>2, SavesInit, TypeCorrect, PTL DEF Spec
=============================================================================
