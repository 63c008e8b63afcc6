-------------------------- MODULE OperatorMutations --------------------------
(***************************************************************************)
(* Requesting and executing one operator mutation:                         *)
(* OperatorMutationService (application/operator_mutations.py) over        *)
(* ApprovalService and IdempotencyRegistry (operator_security.py), which   *)
(* keep their state in SQLite (storage/sqlite_operator.py).                *)
(*                                                                         *)
(* HTTP handlers run in a thread pool and MCP tools in the event loop.     *)
(* Every store method opens its own connection and commits on its own, so  *)
(* one action is one store method: between two of them any other request   *)
(* may run, the process may stop, and the store may fail ("database is     *)
(* locked"), which the handlers do not catch.  A proposal stands for the   *)
(* operation, the target and the payload that are fingerprinted together.  *)
(***************************************************************************)
EXTENDS Naturals, FiniteSets

CONSTANTS
    Threads,     \* requests served at the same time
    Grants,      \* the approval_ids token_hex(16) hands out
    Keys,        \* idempotency keys of clients
    Proposals,   \* mutations a client may propose and is authorised for
    None,        \* no proposal, no grant, no key
    MaxGrants,   \* max_grants = 256
    MaxKeys      \* max_entries = 1024

ASSUME SetsAssumption ==
    /\ IsFiniteSet(Threads) /\ IsFiniteSet(Keys) /\ IsFiniteSet(Grants)
    /\ Threads # {} /\ None \notin Grants \cup Keys \cup Proposals
ASSUME LimitsAssumption == MaxGrants \in Nat \ {0} /\ MaxKeys \in Nat \ {0}

VARIABLES
    approval,    \* table operator_approvals; "none": never issued, "deleted": purged
    reserved,    \* table operator_idempotency: the proposal each key is for
    thread,      \* the request each thread serves, and where it is
    posted,      \* how often a mutation was sent to Home Assistant under a key
    spent,       \* the approval it was sent with
    applied,     \* keys whose mutation Home Assistant carried out
    audited      \* the outcome in the audit row of an execution

stores == <<approval, reserved, audited>>
homeAssistant == <<posted, spent, applied>>
vars == <<approval, reserved, thread, posted, spent, applied, audited>>

-----------------------------------------------------------------------------
Approval == [state: {"none", "stored", "consumed", "deleted"},
             proposal: Proposals \cup {None}, expired: BOOLEAN]
Outcome == {"ok", "unavailable", "unsupported"}

\* Where a request is: before the store call of that name.
Issuing == {"issue_purge", "issue_size", "save"}
Executing == {"find", "size", "put", "purge", "get", "mark", "call", "audit"}

\* live (history): the approval was stored, unexpired and unused when the
\* request arrived.
Idle == [pc |-> "idle", proposal |-> None, key |-> None, grant |-> None,
         token |-> FALSE, live |-> FALSE, outcome |-> "none"]
Request ==
    {r \in [pc: {"idle"} \cup Issuing \cup Executing, proposal: Proposals \cup {None},
            key: Keys \cup {None}, grant: Grants \cup {None}, token: BOOLEAN, live: BOOLEAN,
            outcome: {"none"} \cup Outcome] :
        /\ r.pc # "idle" => r.proposal \in Proposals
        /\ r.pc \in Executing => r.key \in Keys /\ r.grant \in Grants}

TypeOK ==
    /\ approval \in [Grants -> Approval]
    /\ reserved \in [Keys -> Proposals \cup {None}]
    /\ thread \in [Threads -> Request]
    /\ posted \in [Keys -> Nat]
    /\ spent \in [Keys -> Grants \cup {None}]
    /\ applied \subseteq Keys
    /\ audited \in [Keys -> {"none"} \cup Outcome]

Init ==
    /\ approval = [g \in Grants |-> [state |-> "none", proposal |-> None, expired |-> FALSE]]
    /\ reserved = [k \in Keys |-> None]
    /\ thread = [t \in Threads |-> Idle]
    /\ posted = [k \in Keys |-> 0]
    /\ spent = [k \in Keys |-> None]
    /\ applied = {}
    /\ audited = [k \in Keys |-> "none"]

-----------------------------------------------------------------------------
At(t, pc) == thread[t].pc = pc
Goto(t, pc) == thread' = [thread EXCEPT ![t].pc = pc]
Leave(t) == thread' = [thread EXCEPT ![t] = Idle]

Unused == {g \in Grants : approval[g].state = "stored"}
Usable(g) == approval[g].state = "stored" /\ ~approval[g].expired
Reserved == {k \in Keys : reserved[k] # None}

\* _purge(): DELETE ... WHERE consumed = 1 OR expires_at <= now.
\* Mutant: only the consumed approvals are deleted.
PurgedConsumed ==
    [g \in Grants |-> IF approval[g].state = "consumed"
                      THEN [approval[g] EXCEPT !.state = "deleted"] ELSE approval[g]]
Purged ==
    [g \in Grants |->
        IF \/ approval[g].state = "consumed"
           \/ approval[g].state = "stored" /\ approval[g].expired
        THEN [approval[g] EXCEPT !.state = "deleted"] ELSE approval[g]]

-----------------------------------------------------------------------------
(* request_approval, once the client is authorised and the proposal valid. *)

RequestApproval(t, p) ==
    /\ At(t, "idle")
    /\ thread' = [thread EXCEPT ![t] = [Idle EXCEPT !.pc = "issue_purge", !.proposal = p]]
    /\ UNCHANGED <<stores, homeAssistant>>

IssuePurge(t) ==
    /\ At(t, "issue_purge")
    /\ approval' = Purged
    /\ Goto(t, "issue_size")
    /\ UNCHANGED <<reserved, audited, homeAssistant>>

\* approval_capacity_reached.
\* Mutant: one approval too many.
IssueSizeOffByOne(t) ==
    /\ At(t, "issue_size")
    /\ IF Cardinality(Unused) > MaxGrants THEN Leave(t) ELSE Goto(t, "save")
    /\ UNCHANGED <<stores, homeAssistant>>
IssueSize(t) ==
    /\ At(t, "issue_size")
    /\ IF Cardinality(Unused) >= MaxGrants THEN Leave(t) ELSE Goto(t, "save")
    /\ UNCHANGED <<stores, homeAssistant>>

Save(t) ==
    /\ At(t, "save")
    /\ \E g \in Grants :
         /\ approval[g].state = "none"
         /\ approval' = [approval EXCEPT ![g] =
              [state |-> "stored", proposal |-> thread[t].proposal, expired |-> FALSE]]
    /\ Leave(t)
    /\ UNCHANGED <<reserved, audited, homeAssistant>>

-----------------------------------------------------------------------------
(* execute, once the client is authorised and the proposal valid.          *)

\* A client names a key and an approval it was given once, with the token of
\* that approval or another one.
RequestExecution(t, p, k, g, token) ==
    /\ At(t, "idle")
    /\ approval[g].state # "none"
    /\ thread' = [thread EXCEPT ![t] =
         [pc |-> "find", proposal |-> p, key |-> k, grant |-> g, token |-> token,
          live |-> Usable(g), outcome |-> "none"]]
    /\ UNCHANGED <<stores, homeAssistant>>

\* reserve(): a key that is found is a replay or a mismatch, both refused.
Find(t) ==
    /\ At(t, "find")
    /\ IF reserved[thread[t].key] # None THEN Leave(t) ELSE Goto(t, "size")
    /\ UNCHANGED <<stores, homeAssistant>>

\* idempotency_capacity_reached: the registry asks the store for its size(), and
\* the one SQLite repository that serves both protocols has one size(): it
\* counts the unused approvals, not the reserved keys.
Size(t) ==
    /\ At(t, "size")
    /\ IF Cardinality(Unused) >= MaxKeys THEN Leave(t) ELSE Goto(t, "put")
    /\ UNCHANGED <<stores, homeAssistant>>

\* INSERT: the primary key refuses a key another request reserved meanwhile.
\* Mutant: INSERT OR REPLACE.
PutReplacing(t) ==
    /\ At(t, "put")
    /\ reserved' = [reserved EXCEPT ![thread[t].key] = thread[t].proposal]
    /\ Goto(t, "purge")
    /\ UNCHANGED <<approval, audited, homeAssistant>>
Put(t) ==
    /\ At(t, "put")
    /\ IF reserved[thread[t].key] # None
       THEN Leave(t) /\ UNCHANGED reserved
       ELSE /\ reserved' = [reserved EXCEPT ![thread[t].key] = thread[t].proposal]
            /\ Goto(t, "purge")
    /\ UNCHANGED <<approval, audited, homeAssistant>>

Purge(t) ==
    /\ At(t, "purge")
    /\ approval' = Purged
    /\ Goto(t, "get")
    /\ UNCHANGED <<reserved, audited, homeAssistant>>

\* consume() reads the row and checks it; expiry was left to the purge.
\* Mutant: the proposal is not compared with the approval's.
GetAnyProposal(t) ==
    /\ At(t, "get")
    /\ IF approval[thread[t].grant].state = "stored" /\ thread[t].token
       THEN Goto(t, "mark") ELSE Leave(t)
    /\ UNCHANGED <<stores, homeAssistant>>
Get(t) ==
    LET row == approval[thread[t].grant] IN
    /\ At(t, "get")
    /\ IF row.state = "stored" /\ thread[t].token /\ row.proposal = thread[t].proposal
       THEN Goto(t, "mark") ELSE Leave(t)
    /\ UNCHANGED <<stores, homeAssistant>>

\* UPDATE ... SET consumed = 1, whatever the row is by now.
\* Mutant: the row is left as it is.
MarkNothing(t) ==
    /\ At(t, "mark")
    /\ Goto(t, "call")
    /\ UNCHANGED <<stores, homeAssistant>>
Mark(t) ==
    LET g == thread[t].grant IN
    /\ At(t, "mark")
    /\ approval' = IF approval[g].state = "stored"
                   THEN [approval EXCEPT ![g].state = "consumed"] ELSE approval
    /\ Goto(t, "call")
    /\ UNCHANGED <<reserved, audited, homeAssistant>>

\* The adapter refuses what is not allowlisted any more or malformed, with no
\* audit row (PermissionError, ValueError); it answers "unsupported" to what is
\* not connected.
Refuse(t) ==
    /\ At(t, "call")
    /\ Leave(t)
    /\ UNCHANGED <<stores, homeAssistant>>

Unsupported(t) ==
    /\ At(t, "call")
    /\ thread' = [thread EXCEPT ![t].pc = "audit", ![t].outcome = "unsupported"]
    /\ UNCHANGED <<stores, homeAssistant>>

\* One POST, never repeated.  Home Assistant carries it out and the answer
\* arrives, or the transport fails and nobody knows.
\* Mutant: a transport failure counts as success.
PostOptimistic(t) ==
    LET k == thread[t].key IN
    /\ At(t, "call")
    /\ posted' = [posted EXCEPT ![k] = @ + 1]
    /\ spent' = [spent EXCEPT ![k] = thread[t].grant]
    /\ applied' \in {applied, applied \cup {k}}
    /\ thread' = [thread EXCEPT ![t].pc = "audit", ![t].outcome = "ok"]
    /\ UNCHANGED stores
Post(t) ==
    LET k == thread[t].key IN
    /\ At(t, "call")
    /\ posted' = [posted EXCEPT ![k] = @ + 1]
    /\ spent' = [spent EXCEPT ![k] = thread[t].grant]
    /\ \E outcome \in {"ok", "unavailable"} :
         /\ \/ applied' = applied \cup {k}
            \/ outcome = "unavailable" /\ UNCHANGED applied
         /\ thread' = [thread EXCEPT ![t].pc = "audit", ![t].outcome = outcome]
    /\ UNCHANGED stores

\* Mutant: the place of the request is recorded for its outcome.
AuditPlace(t) ==
    /\ At(t, "audit")
    /\ audited' = [audited EXCEPT ![thread[t].key] = thread[t].pc]
    /\ Leave(t)
    /\ UNCHANGED <<approval, reserved, homeAssistant>>
Audit(t) ==
    /\ At(t, "audit")
    /\ audited' = [audited EXCEPT ![thread[t].key] = thread[t].outcome]
    /\ Leave(t)
    /\ UNCHANGED <<approval, reserved, homeAssistant>>

-----------------------------------------------------------------------------
\* A store call raises and the request ends with a 500.
StoreFails(t) ==
    /\ thread[t].pc \notin {"idle", "call"}
    /\ Leave(t)
    /\ UNCHANGED <<stores, homeAssistant>>

\* The process stops anywhere and starts again on the same database.
Crash ==
    /\ thread' = [t \in Threads |-> Idle]
    /\ UNCHANGED <<stores, homeAssistant>>

\* expires_at passes.
Expire(g) ==
    /\ approval[g].state \in {"stored", "consumed"} /\ ~approval[g].expired
    /\ approval' = [approval EXCEPT ![g].expired = TRUE]
    /\ UNCHANGED <<reserved, audited, thread, homeAssistant>>

Step(t) ==
    \/ IssuePurge(t) \/ IssueSize(t) \/ Save(t)
    \/ Find(t) \/ Size(t) \/ Put(t) \/ Purge(t) \/ Get(t) \/ Mark(t)
    \/ Refuse(t) \/ Unsupported(t) \/ Post(t) \/ Audit(t)

Arrive(t) ==
    \E p \in Proposals :
        \/ RequestApproval(t, p)
        \/ \E k \in Keys, g \in Grants, token \in BOOLEAN : RequestExecution(t, p, k, g, token)

Next ==
    \/ \E t \in Threads : Arrive(t) \/ Step(t) \/ StoreFails(t)
    \/ Crash
    \/ \E g \in Grants : Expire(g)

Spec == Init /\ [][Next]_vars

-----------------------------------------------------------------------------
(* Properties.                                                             *)

\* A request whose approval was already used, expired or deleted when it
\* arrived, or whose token is wrong, never gets past the approval: replaying a
\* request that ended, with any key, does not reach Home Assistant.
DoomedNeverPosts ==
    \A t \in Threads : thread[t].pc \in {"mark", "call", "audit"} => thread[t].live /\ thread[t].token

\* get() and mark_consumed() are two transactions, so one approval may serve
\* requests that overlap, but never more of them than run at the same time.
SpentWith(g) == {k \in Keys : posted[k] > 0 /\ spent[k] = g}
SpentBound == \A g \in Grants : Cardinality(SpentWith(g)) <= Cardinality(Threads)

\* What is sent under a key is what the key was reserved for and what the
\* approval was given for, although the two checks are far from the POST.
ApprovedProposal ==
    \A k \in Keys : posted[k] > 0 =>
        /\ approval[spent[k]].state \in {"stored", "consumed", "deleted"}
        /\ approval[spent[k]].proposal = reserved[k]

\* An audit row says what happened: "ok" was carried out, "unavailable" was
\* sent, "unsupported" was not.
AuditTellsTruth ==
    \A k \in Keys :
        /\ audited[k] = "ok" => k \in applied
        /\ audited[k] = "unavailable" => posted[k] > 0
        /\ audited[k] = "unsupported" => posted[k] = 0

\* size() and save() are two transactions: the table of approvals can exceed its
\* bound by the requests that pass the check together, and by no more.
GrantsBound == Cardinality(Unused) <= MaxGrants + Cardinality(Threads) - 1

\* operator_security.py:178, "Bounded process-local reservation registry": no
\* more keys are reserved than the limit, but for requests that pass the check
\* together.
KeysBound == Cardinality(Reserved) <= MaxKeys + Cardinality(Threads) - 1

\* An idempotency key stands for one mutation, reserved for good and sent at
\* most once, whatever crashes, fails or is retried.
Entry(k) ==
    CASE posted[k] = 0 -> IF reserved[k] # None THEN "reserved" ELSE "free"
      [] posted[k] = 1 -> "sent"
      [] posted[k] > 1 -> "sent again"
Ledger == INSTANCE MutationLedger WITH ledger <- [k \in Keys |-> Entry(k)]
KeepsLedger == Ledger!Spec

\* What makes the invariants above inductive.  A request past its put holds its
\* key alone until it leaves.
Holding == {"purge", "get", "mark", "call", "audit"}
WellFormed ==
    \A t \in Threads : thread[t].pc \in Executing => approval[thread[t].grant].state # "none"
OneHolder ==
    \A t, u \in Threads :
        thread[t].pc \in Holding /\ thread[u].pc \in Holding /\ thread[t].key = thread[u].key
        => t = u
HeldKey ==
    \A t \in Threads : thread[t].pc \in Holding =>
        /\ reserved[thread[t].key] = thread[t].proposal
        /\ audited[thread[t].key] = "none"
        /\ thread[t].pc # "audit" => posted[thread[t].key] = 0
\* What is not reserved was neither sent nor audited; nothing is sent twice.
Unreserved == \A k \in Keys : reserved[k] = None => posted[k] = 0 /\ audited[k] = "none"
SentOnce == \A k \in Keys : posted[k] <= 1
SpentIsGrant == \A k \in Keys : posted[k] > 0 => spent[k] \in Grants
\* A request that passed the approval is about the proposal it was given for.
PassedApproval ==
    \A t \in Threads : thread[t].pc \in {"mark", "call"} =>
        approval[thread[t].grant].proposal = thread[t].proposal
\* The outcome a request is about to audit is true.
OutcomeTellsTruth ==
    \A t \in Threads : thread[t].pc = "audit" =>
        /\ thread[t].outcome \in Outcome
        /\ thread[t].outcome = "ok" => thread[t].key \in applied
        /\ thread[t].outcome = "unavailable" => posted[thread[t].key] > 0
        /\ thread[t].outcome = "unsupported" => posted[thread[t].key] = 0
\* A request that came too late has nothing to find after its purge.
DoomedApproval ==
    \A t \in Threads : ~thread[t].live =>
        /\ thread[t].pc \in {"find", "size", "put", "purge"} => ~Usable(thread[t].grant)
        /\ thread[t].pc = "get" => approval[thread[t].grant].state # "stored"

IInv ==
    /\ TypeOK /\ WellFormed /\ OneHolder /\ HeldKey /\ Unreserved /\ SentOnce
    /\ SpentIsGrant /\ PassedApproval /\ ApprovedProposal
    /\ OutcomeTellsTruth /\ AuditTellsTruth /\ DoomedApproval /\ DoomedNeverPosts

\* The two counts: what an approval was or may still be used for, and the
\* approvals that are stored or about to be.
Using(g) == {t \in Threads : thread[t].pc \in {"mark", "call"} /\ thread[t].grant = g}
UsedFor(g) == SpentWith(g) \cup {thread[t].key : t \in Using(g)}
UseIsBounded ==
    \A g \in Grants :
        /\ approval[g].state \in {"none", "stored"} =>
              SpentWith(g) = {} /\ \A t \in Using(g) : thread[t].pc # "call"
        /\ Cardinality(UsedFor(g)) <= Cardinality(Threads)
Saving == {t \in Threads : At(t, "save")}
SavesAreBounded ==
    Cardinality(Unused) + Cardinality(Saving) <= MaxGrants + Cardinality(Threads) - 1

\* operator_security.py:108, "one-time approval grants": one approval is for
\* one mutation.
OneTimeApproval == \A g \in Grants : Cardinality(SpentWith(g)) <= 1

=============================================================================
