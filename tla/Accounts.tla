------------------------------ MODULE Accounts ------------------------------
(***************************************************************************)
(* Users and what they may do: the command line tool that creates an admin *)
(* or resets its password (app/cli/create_admin.py), login and the check   *)
(* of bearer tokens (app/services/auth_service.py, app/api/deps.py).       *)
(*                                                                         *)
(* The tool is a process of its own.  It runs as often as it is called,    *)
(* also twice at once, and next to the API.  An action of it is one        *)
(* statement, or the flush and commit, with the Python code up to the next *)
(* one.  The session has autoflush=False: a changed user and the new       *)
(* permissions are written at the commit, a new user at the flush before.  *)
(*                                                                         *)
(* A login reads the user, checks the password, which is slow on purpose,  *)
(* and reads the clock for `exp` after that: a reset can be committed in   *)
(* between.  The token is checked by its signature and `exp` alone, and by *)
(* the row of its user: it does not depend on the password it was issued   *)
(* for.  In the model a login remembers that password, when it read the    *)
(* user and how long it took then, and `changed` when a password was last  *)
(* set, to say how long an old one is worth something.                     *)
(***************************************************************************)
EXTENDS Naturals

CONSTANTS
    Names,          \* usernames
    Passwords,
    Defaults,       \* the number of DEFAULT_PERMISSIONS; the first is "admin:*"
    Runs,           \* calls of create_admin
    Logins,         \* requests of POST /auth/login, each with one token
    Lifetime,       \* access_token_expire_minutes
    MaxTime,        \* bounds the clock
    NoUser

Permissions == 1 .. Defaults

ASSUME DefaultsAssumption == Defaults \in Nat \ {0}
ASSUME TimeAssumption == Lifetime \in Nat /\ MaxTime \in Nat

User == [password : Passwords, is_active : BOOLEAN]

ASSUME NoUserAssumption == NoUser \notin User

VARIABLES
    clock,
    users,          \* users by username, NoUser without a row
    grants,         \* user_permissions: how many rows a user has of a permission
    before,         \* history: the users and permissions there at the start,
                    \* and of the latter those with granted = FALSE
    run,            \* what each create_admin has read and is about to do
    login,          \* what each login has read, and the token it ended with
    changed         \* history: when a user's password was last set

vars == <<clock, users, grants, before, run, login, changed>>

Before == [users : SUBSET Names, grants : SUBSET (Names \X Permissions),
           withdrawn : SUBSET (Names \X Permissions)]

\* history: `password`, `read` and `took`.
Checked == [pc : {"checked"}, sub : Names, password : Passwords, read : Nat]
Token == [pc : {"issued"}, sub : Names, password : Passwords, exp : Nat, took : Nat]

\* `next` is the permission that the loop is at, `missing` those to be added.
PCs == {"insert", "grant", "commit"}
RunState == [pc : PCs, name : Names, password : Passwords, new : BOOLEAN,
             next : 1 .. Defaults + 1, missing : SUBSET Permissions]
Ended == {[pc |-> "ready"], [pc |-> "failed"]} \cup [pc : {"done"}, name : Names]

(***************************************************************************)
(* Some users were created before, by this version or by one that had      *)
(* fewer default permissions.  Some were deactivated in the database, or   *)
(* had a permission withdrawn there.                                       *)
(***************************************************************************)
Init ==
    /\ clock = 0
    /\ users \in [Names -> User \cup {NoUser}]
    /\ before \in Before
    /\ before.users = {n \in Names : users[n] # NoUser}
    /\ before.grants \subseteq before.users \X Permissions
    /\ before.withdrawn \subseteq before.grants
    /\ grants = [n \in Names |-> [p \in Permissions |-> IF <<n, p>> \in before.grants THEN 1 ELSE 0]]
    /\ run = [r \in Runs |-> [pc |-> "ready"]]
    /\ login = [l \in Logins |-> [pc |-> "ready"]]
    /\ changed = [n \in Names |-> 0]

Tick ==
    /\ clock < MaxTime
    /\ clock' = clock + 1
    /\ UNCHANGED <<users, grants, before, run, login, changed>>

-----------------------------------------------------------------------------
(* create_admin. *)

SetRun(r, s) ==
    /\ run' = [run EXCEPT ![r] = s]
    /\ UNCHANGED <<clock, users, grants, before, login, changed>>
End(r, how) == SetRun(r, [pc |-> how])

\* SELECT of the user.
FindUser(r, n, w) ==
    /\ run[r].pc = "ready"
    /\ SetRun(r, [pc |-> IF users[n] = NoUser THEN "insert" ELSE "grant",
                  name |-> n, password |-> w, new |-> users[n] = NoUser,
                  next |-> 1, missing |-> {}])

\* The run has inserted a user and not yet committed.
Open(r) == run[r].pc \in {"grant", "commit"} /\ run[r].new

\* The INSERT waits for another one of the same name.
InsertWaits(r) == \E s \in Runs \ {r} : Open(s) /\ run[s].name = run[r].name

\* The row of the user; its password_hash was set, is_active too.
\* Fault: a new user is not added to the session.
Saved_NotAdded(q) ==
    IF q.new THEN NoUser ELSE [password |-> q.password, is_active |-> TRUE]
Saved(q) == [password |-> q.password, is_active |-> TRUE]

\* Fault: commit() in place of flush().
InsertUser_Commits(r) ==
    /\ run[r].pc = "insert"
    /\ ~InsertWaits(r)
    /\ users[run[r].name] = NoUser
    /\ users' = [users EXCEPT ![run[r].name] = Saved(run[r])]
    /\ run' = [run EXCEPT ![r].pc = "grant", ![r].new = FALSE]
    /\ UNCHANGED <<clock, grants, before, login, changed>>
InsertUser(r) ==
    /\ run[r].pc = "insert"
    /\ ~InsertWaits(r)
    /\ users[run[r].name] = NoUser
    /\ SetRun(r, [run[r] EXCEPT !.pc = "grant"])

\* UNIQUE (username): an IntegrityError nobody handles.
InsertRefused(r) ==
    /\ run[r].pc = "insert"
    /\ users[run[r].name] # NoUser
    /\ End(r, "failed")

\* The rows of a permission as the run sees them: a new user has none.
Rows(r) == IF run[r].new THEN 0 ELSE grants[run[r].name][run[r].next]

\* Fault: a permission is added without looking for it.
Absent_Unchecked(r) == TRUE
Absent(r) == Rows(r) = 0

\* SELECT of one permission, with one_or_none.
FindPermission(r) ==
    LET q == run[r] IN
    /\ q.pc = "grant"
    /\ Rows(r) <= 1
    /\ SetRun(r, [q EXCEPT !.pc = IF q.next = Defaults THEN "commit" ELSE "grant",
                           !.next = @ + 1,
                           !.missing = IF Absent(r) THEN @ \cup {q.next} ELSE @])

\* Two rows: one_or_none raises.
FindTwoPermissions(r) ==
    /\ run[r].pc = "grant"
    /\ Rows(r) > 1
    /\ End(r, "failed")

\* The user's permissions after the INSERTs of a run, which nothing refuses:
\* resource_type and resource_id are null, so no two rows are equal for UNIQUE
\* (user_id, permission, resource_type, resource_id).
Granted(q) ==
    [p \in Permissions |-> IF p \in q.missing THEN grants[q.name][p] + 1 ELSE grants[q.name][p]]

\* The flush, the commit.
CommitAdmin(r) ==
    LET q == run[r] IN
    /\ q.pc = "commit"
    /\ users' = [users EXCEPT ![q.name] = Saved(q)]
    /\ grants' = [grants EXCEPT ![q.name] = Granted(q)]
    /\ changed' = [changed EXCEPT ![q.name] = clock]
    /\ run' = [run EXCEPT ![r] = [pc |-> "done", name |-> q.name]]
    /\ UNCHANGED <<clock, before, login>>

\* A write waited too long for another run's transaction ("database is
\* locked"), or the process was killed: the transaction is rolled back.
RunFails(r) == run[r].pc \in PCs /\ End(r, "failed")

\* It is called again.
RunAgain(r) == run[r].pc \in {"done", "failed"} /\ End(r, "ready")

-----------------------------------------------------------------------------
(* The API. *)

\* authenticate: the SELECT.  A login with a wrong password, or of an inactive
\* user, ends there.  After it the user's row is not read again.
Authenticate(l, n, w) ==
    /\ login[l].pc = "ready"
    /\ users[n] = [password |-> w, is_active |-> TRUE]
    /\ login' = [login EXCEPT ![l] = [pc |-> "checked", sub |-> n, password |-> w,
                                      read |-> clock]]
    /\ UNCHANGED <<clock, users, grants, before, run, changed>>

\* create_access_token.  A login whose process dies never gets here.
CreateToken(l) ==
    LET q == login[l] IN
    /\ q.pc = "checked"
    /\ login' = [login EXCEPT ![l] = [pc |-> "issued", sub |-> q.sub,
                                      password |-> q.password,
                                      exp |-> clock + Lifetime, took |-> clock - q.read]]
    /\ UNCHANGED <<clock, users, grants, before, run, changed>>

\* decode_user_id.
\* Fault: the expiry is not verified.
Decoded_Expired(k) == TRUE
Decoded(k) == clock <= k.exp

\* get_user_by_token, and the check of the user by require_permission, taken at
\* one moment.  (The SELECT comes after the decode; OldPasswordExpires holds by
\* the decode alone.)
Accepted(k) ==
    /\ Decoded(k)
    /\ users[k.sub] # NoUser
    /\ users[k.sub].is_active

\* The rows with granted = TRUE: every row but those withdrawn before.
GrantedRows(n, p) == IF <<n, p>> \in before.withdrawn THEN grants[n][p] - 1 ELSE grants[n][p]

HasPermission(n, p) == GrantedRows(n, p) > 0 \/ GrantedRows(n, 1) > 0

-----------------------------------------------------------------------------
Next ==
    \/ Tick
    \/ \E r \in Runs, n \in Names, w \in Passwords : FindUser(r, n, w)
    \/ \E r \in Runs :
          \/ InsertUser(r) \/ InsertRefused(r)
          \/ FindPermission(r) \/ FindTwoPermissions(r) \/ CommitAdmin(r)
          \/ RunFails(r) \/ RunAgain(r)
    \/ \E l \in Logins :
          \/ \E n \in Names, w \in Passwords : Authenticate(l, n, w)
          \/ CreateToken(l)

Spec == Init /\ [][Next]_vars

-----------------------------------------------------------------------------
(* Properties. *)

\* Every variable has its type; only users have permissions, as the foreign
\* key demands, and tokens.
TypeOK ==
    /\ clock \in 0 .. MaxTime
    /\ users \in [Names -> User \cup {NoUser}]
    /\ grants \in [Names -> [Permissions -> Nat]]
    /\ before \in Before
    /\ run \in [Runs -> RunState \cup Ended]
    /\ login \in [Logins -> {[pc |-> "ready"]} \cup Checked \cup Token]
    /\ changed \in [Names -> 0 .. MaxTime]
    /\ \A n \in Names : users[n] = NoUser => \A p \in Permissions : grants[n][p] = 0
    /\ \A l \in Logins : login[l].pc = "issued" => users[login[l].sub] # NoUser

\* An admin is complete from the moment that anyone can see it: a user created
\* meanwhile is permitted everything, although its row and those of its
\* permissions are written by different statements and other runs fail or are
\* killed in between.  A run that succeeds leaves a user, old or new, with
\* a row of every default permission (a permission that was withdrawn stays so).
AdminIsComplete ==
    /\ \A n \in Names : users[n] # NoUser /\ n \notin before.users =>
          \A p \in Permissions : HasPermission(n, p)
    /\ \A r \in Runs : run[r].pc = "done" =>
          /\ users[run[r].name] # NoUser
          /\ \A p \in Permissions : grants[run[r].name][p] > 0

\* A permission is stored twice only for a user who was there before the
\* permission was a default one, by runs that overlap: no reset, and no pair of
\* runs that create one user, ends in the state that one_or_none raises on.
DuplicatesExplained ==
    \A n \in Names, p \in Permissions :
        grants[n][p] > 1 => n \in before.users /\ <<n, p>> \notin before.grants

\* A token issued for a password that was replaced since is accepted at most for
\* access_token_expire_minutes after the reset, and for the time that its login
\* took from the SELECT to the token: the reset may have come in between.
OldPasswordExpires ==
    \A l \in Logins :
        LET k == login[l] IN
        k.pc = "issued" /\ Accepted(k) /\ k.password # users[k.sub].password
            => clock <= changed[k.sub] + Lifetime + k.took
=============================================================================
