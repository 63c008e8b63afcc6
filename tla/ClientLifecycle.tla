--------------------------- MODULE ClientLifecycle ---------------------------
(***************************************************************************)
(* The registry of clients and their bearer tokens: the use cases of       *)
(* application/clients.py over storage/sqlite_clients.py, and the requests *)
(* that authenticate (authentication.py) and are authorised                *)
(* (authorization.py, domain/policy.py) against it.                        *)
(*                                                                         *)
(* A use case reads a row with get(), decides, and writes the whole row    *)
(* back with save(): two transactions, and any other request may run       *)
(* between them.  A token stands for its digest too: the digest is         *)
(* injective as far as the registry can tell.  Capabilities are abstracted *)
(* to "read" (any of the ha.read ones) and "write" (any of the ha.write).  *)
(***************************************************************************)
EXTENDS Naturals, FiniteSets

CONSTANTS
    Clients,          \* client_ids
    Tokens,           \* what the token issuer will hand out
    None,             \* no token, no client
    Threads           \* requests served at the same time

ASSUME NamesAssumption == None \notin Tokens \cup Clients

VARIABLES
    table,       \* table clients
    issued,      \* tokens handed out
    thread,      \* the request each thread serves
    retired,     \* history: tokens that were revoked or replaced, and whether
                 \* another use case was between its get() and its save()
    operatorEnabled \* configuration of the process, read when it starts
store == <<table, issued, retired>>
vars == <<store, thread, operatorEnabled>>

Capability == {"read", "write"}
Profile == {"observer", "operator"}
Row == [profile: Profile, capabilities: SUBSET Capability,
        status: {"active", "revoked"}, token: Tokens]
Absent == [profile |-> "observer", capabilities |-> {}, status |-> "absent", token |-> None]

\* A use case holds the row it is about to save; a request for data or for a
\* mutation holds the client it authenticated as and what it needs.
Idle == [pc |-> "idle"]
Request ==
    {Idle}
    \cup [pc: {"save"}, client: Clients, row: Row, replaces: Tokens \cup {None}]
    \cup [pc: {"delete"}, client: Clients]
    \cup [pc: {"authorize", "act"}, client: Clients, need: Capability, token: Tokens, stale: BOOLEAN]

TypeOK ==
    /\ table \in [Clients -> Row \cup {Absent}]
    /\ issued \subseteq Tokens
    /\ thread \in [Threads -> Request]
    /\ retired \in [Tokens -> {"no", "quietly", "in a race"}]
    /\ operatorEnabled \in BOOLEAN

Init ==
    /\ table = [c \in Clients |-> Absent]
    /\ issued = {}
    /\ thread = [t \in Threads |-> Idle]
    /\ retired = [k \in Tokens |-> "no"]
    /\ operatorEnabled \in BOOLEAN

At(t, pc) == thread[t].pc = pc
Leave(t) == thread' = [thread EXCEPT ![t] = Idle]
WillSave(t, c, row, replaces) ==
    thread' = [thread EXCEPT ![t] = [pc |-> "save", client |-> c, row |-> row, replaces |-> replaces]]

-----------------------------------------------------------------------------
(* The use cases up to their save(): one get() and the checks on its row.  *)

\* The checks IssueClient and UpdateClientCapabilities share.
Grantable(profile, capabilities) ==
    /\ profile = "operator" => operatorEnabled
    /\ profile = "observer" => "write" \notin capabilities

\* Mutant: the issuer hands out a token again.
IssueReusing(t, c) ==
    /\ At(t, "idle") /\ table[c] = Absent
    /\ \E profile \in Profile, capabilities \in SUBSET Capability, token \in Tokens :
         /\ Grantable(profile, capabilities)
         /\ issued' = issued \cup {token}
         /\ WillSave(t, c, [profile |-> profile, capabilities |-> capabilities,
                            status |-> "active", token |-> token], None)
    /\ UNCHANGED <<table, retired, operatorEnabled>>
Issue(t, c) ==
    /\ At(t, "idle") /\ table[c] = Absent
    /\ \E profile \in Profile, capabilities \in SUBSET Capability, token \in Tokens \ issued :
         /\ Grantable(profile, capabilities)
         /\ issued' = issued \cup {token}
         /\ WillSave(t, c, [profile |-> profile, capabilities |-> capabilities,
                            status |-> "active", token |-> token], None)
    /\ UNCHANGED <<table, retired, operatorEnabled>>

\* Mutant: an observer is given any capability.
UpdateAny(t, c) ==
    /\ At(t, "idle") /\ table[c].status = "active"
    /\ \E capabilities \in SUBSET Capability :
         WillSave(t, c, [table[c] EXCEPT !.capabilities = capabilities], None)
    /\ UNCHANGED <<store, operatorEnabled>>
UpdateCapabilities(t, c) ==
    /\ At(t, "idle") /\ table[c].status = "active"
    /\ \E capabilities \in SUBSET Capability :
         /\ Grantable(table[c].profile, capabilities)
         /\ WillSave(t, c, [table[c] EXCEPT !.capabilities = capabilities], None)
    /\ UNCHANGED <<store, operatorEnabled>>

\* Mutant: the new token is not put in the row.
RotateBlank(t, c) ==
    /\ At(t, "idle") /\ table[c].status = "active"
    /\ \E token \in Tokens \ issued :
         /\ issued' = issued \cup {token}
         /\ WillSave(t, c, [table[c] EXCEPT !.token = None], table[c].token)
    /\ UNCHANGED <<table, retired, operatorEnabled>>
Rotate(t, c) ==
    /\ At(t, "idle") /\ table[c].status = "active"
    /\ \E token \in Tokens \ issued :
         /\ issued' = issued \cup {token}
         /\ WillSave(t, c, [table[c] EXCEPT !.token = token], table[c].token)
    /\ UNCHANGED <<table, retired, operatorEnabled>>

Revoke(t, c) ==
    /\ At(t, "idle") /\ table[c].status = "active"
    /\ WillSave(t, c, [table[c] EXCEPT !.status = "revoked"], table[c].token)
    /\ UNCHANGED <<store, operatorEnabled>>

\* DeleteClient refuses a client that is not revoked.
Delete(t, c) ==
    /\ At(t, "idle") /\ table[c].status = "revoked"
    /\ thread' = [thread EXCEPT ![t] = [pc |-> "delete", client |-> c]]
    /\ UNCHANGED <<store, operatorEnabled>>

-----------------------------------------------------------------------------
(* save() upserts every column of the row; delete() removes what is there. *)

Saving(c) == {t \in Threads : At(t, "save") /\ thread[t].client = c}
Retired(t) ==
    IF thread[t].replaces = None THEN retired
    ELSE [retired EXCEPT ![thread[t].replaces] =
            IF Saving(thread[t].client) = {t} THEN "quietly" ELSE "in a race"]

\* Mutant: ON CONFLICT DO UPDATE leaves the status out.
SaveKeepingStatus(t) ==
    /\ At(t, "save")
    /\ table' = [table EXCEPT ![thread[t].client] =
         IF @ = Absent THEN thread[t].row ELSE [thread[t].row EXCEPT !.status = table[thread[t].client].status]]
    /\ retired' = Retired(t)
    /\ Leave(t)
    /\ UNCHANGED <<issued, operatorEnabled>>
Save(t) ==
    /\ At(t, "save")
    /\ table' = [table EXCEPT ![thread[t].client] = thread[t].row]
    /\ retired' = Retired(t)
    /\ Leave(t)
    /\ UNCHANGED <<issued, operatorEnabled>>

DeleteRow(t) ==
    /\ At(t, "delete")
    /\ table' = [table EXCEPT ![thread[t].client] = Absent]
    /\ Leave(t)
    /\ UNCHANGED <<issued, retired, operatorEnabled>>

-----------------------------------------------------------------------------
(* Requests of clients: authenticate(token), then authorize(client_id).    *)

\* find_by_token_digest; a revoked client is not let in.
Live(token) == {c \in Clients : table[c].status = "active" /\ table[c].token = token}

Authenticate(t, token, need) ==
    /\ At(t, "idle")
    /\ \E c \in Live(token) :
         thread' = [thread EXCEPT ![t] = [pc |-> "authorize", client |-> c, need |-> need,
                      token |-> token, stale |-> retired[token] = "quietly"]]
    /\ UNCHANGED <<store, operatorEnabled>>

\* PolicyEngine.evaluate of the row get() answers now: "allowed" for a read,
\* "approval_required" for a mutation.
Permitted(row, need) ==
    /\ row.status = "active"
    /\ need \in row.capabilities
    /\ row.profile = "observer" => need # "write"
    /\ row.profile = "operator" => operatorEnabled

Authorize(t) ==
    /\ At(t, "authorize")
    /\ IF Permitted(table[thread[t].client], thread[t].need)
       THEN thread' = [thread EXCEPT ![t].pc = "act"]
       ELSE Leave(t)
    /\ UNCHANGED <<store, operatorEnabled>>

Act(t) ==
    /\ At(t, "act")
    /\ Leave(t)
    /\ UNCHANGED <<store, operatorEnabled>>

\* The process stops between two transactions and starts again, perhaps with
\* another configuration.
Crash ==
    /\ thread' = [t \in Threads |-> Idle]
    /\ operatorEnabled' \in BOOLEAN
    /\ UNCHANGED store

Next ==
    \/ \E t \in Threads :
         \/ \E c \in Clients : Issue(t, c) \/ UpdateCapabilities(t, c) \/ Rotate(t, c)
                                 \/ Revoke(t, c) \/ Delete(t, c)
         \/ Save(t) \/ DeleteRow(t) \/ Authorize(t) \/ Act(t)
         \/ \E token \in Tokens, need \in Capability : Authenticate(t, token, need)
    \/ Crash

Spec == Init /\ [][Next]_vars

-----------------------------------------------------------------------------
(* Properties.                                                             *)

\* A token that was revoked or replaced while no other use case was about to
\* save the same client never authenticates again, whatever is issued, rotated,
\* updated or deleted later, and no request gets in with it.
QuietlyRetiredStaysDead ==
    /\ \A k \in Tokens : retired[k] = "quietly" => Live(k) = {}
    /\ \A t \in Threads : thread[t].pc \in {"authorize", "act"} => ~thread[t].stale

\* The table has no unique index on token_digest, yet a token is of one client
\* only, also while requests that hold old rows save them back.
TokenNamesOneClient ==
    \A c, d \in Clients :
        c # d /\ table[c] # Absent /\ table[d] # Absent => table[c].token # table[d].token

\* No interleaving of issue, update, delete and issue again leaves an observer
\* with a capability that writes: save() never mixes two rows.
ObserverNeverWrites ==
    \A c \in Clients : table[c].profile = "observer" => "write" \notin table[c].capabilities

\* docs/frontend-and-credentials.md:18, "Revocation is immediate", and
\* docs/security-model.md, rotation "invalidates old material": a retired token
\* does not authenticate.
RetiredIsDead == \A k \in Tokens : retired[k] # "no" => Live(k) = {}

=============================================================================
