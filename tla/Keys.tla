-------------------------------- MODULE Keys --------------------------------
(***************************************************************************)
(* Accounts, API keys, and the bootstrap of the administrator, which every *)
(* process runs when it starts (bootstrap_admin_sql).  Accounts are never  *)
(* deleted, only disabled, which nothing here reads: an account is its     *)
(* username.                                                               *)
(*                                                                         *)
(* A handler that writes one row without deciding on another is one step:  *)
(* each column it writes is as if the handler ran alone, at its read if it *)
(* changed nothing and at its commit otherwise.                            *)
(***************************************************************************)
EXTENDS Requests, FiniteSets, Naturals

CONSTANTS
    Account, \* user ids, each issued at most once, as are key ids
    Key,
    Process  \* processes that start with the same bootstrap token

ASSUME KeysConstantsOK == Nothing \notin Account \cup Key

VARIABLES
    username, \* users: is it the bootstrap administrator's or another?
    key,      \* api_keys: status, and is its hash the bootstrap token's?
    boot,     \* a process in bootstrap_admin_sql, with the rows it will insert
    booted,   \* ghost: a bootstrap has committed
    crossed   \* ghost: two bootstraps ran at once

keyVars == <<username, key, boot, booted, crossed>>

-----------------------------------------------------------------------------
Admins   == {u \in Account : username[u] = "admin"}
BootKeys == {k \in Key : key[k].boot}
Unissued == [status |-> "none", boot |-> FALSE]
Running  == [pc |-> "up", account |-> Nothing, key |-> Nothing]

KeysTypeOK ==
    /\ username \in [Account -> {"none", "admin", "other"}]
    /\ key \in [Key -> [status : {"none", "active", "rotating", "revoked"}, boot : BOOLEAN]]
    /\ boot \in [Process -> [pc : {"up", "account", "key"}, account : Account \cup {Nothing},
                             key : Key \cup {Nothing}]]
    /\ booted \in BOOLEAN
    /\ crossed \in BOOLEAN

KeysInit ==
    /\ username = [u \in Account |-> "none"]
    /\ key = [k \in Key |-> Unissued]
    /\ boot = [n \in Process |-> Running]
    /\ booted = FALSE
    /\ crossed = FALSE

-----------------------------------------------------------------------------
(* /admin/users.  The unique constraint spans tenant_id, which is null, so *)
(* it keeps no two accounts from having one username.                      *)

NewUser(u) == username[u] = "none" /\ \A n \in Process : boot[n].account # u

AccountNamed(u, name) ==
    /\ username' = [username EXCEPT ![u] = name]
    /\ UNCHANGED <<key, boot, booted, crossed>>

AccountCreated(u) == NewUser(u) /\ AccountNamed(u, "other")
AccountRenamed(u) == username[u] # "none" /\ \E name \in {"admin", "other"} : AccountNamed(u, name)

-----------------------------------------------------------------------------
(* /admin/api-keys.                                                        *)

NewKey(k) == key[k] = Unissued /\ \A n \in Process : boot[n].key # k

KeysWritten(rows) ==
    /\ key' = rows
    /\ UNCHANGED <<username, boot, booted, crossed>>

\* The owner must exist.
KeyCreated(k) ==
    /\ NewKey(k)
    /\ \E u \in Account : username[u] # "none"
    /\ KeysWritten([key EXCEPT ![k].status = "active"])

\* Whatever the key's status was.
KeyRotated(k, successor) ==
    /\ key[k] # Unissued
    /\ NewKey(successor)
    /\ KeysWritten([key EXCEPT ![k].status = "rotating", ![successor].status = "active"])

KeyRevoked(k) ==
    /\ key[k] # Unissued
    /\ KeysWritten([key EXCEPT ![k].status = "revoked"])

-----------------------------------------------------------------------------
(* bootstrap_admin_sql, in every process at its start.                     *)

Boots(n, row) ==
    /\ boot' = [boot EXCEPT ![n] = row]
    /\ UNCHANGED <<username, key>>

\* Finds the account, or inserts one; the others see it with the commit.
BootReadsAccount(n) ==
    /\ boot[n] = Running
    /\ \E u \in Account :
         /\ IF Admins = {} THEN NewUser(u) ELSE u \in Admins
         /\ Boots(n, [Running EXCEPT !.pc = "account", !.account = u])
    /\ crossed' = (crossed \/ \E p \in Process : boot[p] # Running)
    /\ UNCHANGED booted

\* Mutant of BootReadsKey: looks only for a key that still works.
BootReadsActiveKey(n) ==
    /\ boot[n].pc = "account"
    /\ IF \E k \in BootKeys : key[k].status = "active"
       THEN Boots(n, [boot[n] EXCEPT !.pc = "key"])
       ELSE \E k \in Key : NewKey(k) /\ Boots(n, [boot[n] EXCEPT !.pc = "key", !.key = k])
    /\ UNCHANGED <<booted, crossed>>

\* Finds the token's key by its hash, whatever its status, or inserts one.
BootReadsKey(n) ==
    /\ boot[n].pc = "account"
    /\ IF BootKeys # {}
       THEN Boots(n, [boot[n] EXCEPT !.pc = "key"])
       ELSE \E k \in Key : NewKey(k) /\ Boots(n, [boot[n] EXCEPT !.pc = "key", !.key = k])
    /\ UNCHANGED <<booted, crossed>>

BootCommits(n) ==
    /\ boot[n].pc = "key"
    /\ username' = [u \in Account |->
            IF u = boot[n].account /\ username[u] = "none" THEN "admin" ELSE username[u]]
    /\ key' = [k \in Key |->
            IF k = boot[n].key THEN [status |-> "active", boot |-> TRUE] ELSE key[k]]
    /\ boot' = [boot EXCEPT ![n] = Running]
    /\ booted' = TRUE
    /\ UNCHANGED crossed

\* Whatever fails is swallowed, and the process runs without.
BootFails(n) ==
    /\ boot[n] # Running
    /\ Boots(n, Running)
    /\ UNCHANGED <<booted, crossed>>

KeysNext ==
    \/ \E u \in Account : AccountCreated(u) \/ AccountRenamed(u)
    \/ \E k \in Key : KeyCreated(k) \/ KeyRevoked(k)
    \/ \E k, successor \in Key : KeyRotated(k, successor)
    \/ \E n \in Process :
         BootReadsAccount(n) \/ BootReadsKey(n) \/ BootCommits(n) \/ BootFails(n)

KeysSpec == KeysInit /\ [][KeysNext]_keyVars

-----------------------------------------------------------------------------
\* However often processes start, and whatever happens to the key or the
\* account between, there is one key with the bootstrap token's hash, unless two
\* of them started at once ("Idempotently persist the bootstrap admin",
\* bootstrap_admin_sql).
BootstrapLeavesOneKey == booted /\ ~crossed => Cardinality(BootKeys) = 1

=============================================================================
