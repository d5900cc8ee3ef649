---------------------------- MODULE AccountsProofs ----------------------------
(***************************************************************************)
(* Theorems about Accounts, for any number of users, of default            *)
(* permissions and of overlapping calls of create_admin.                   *)
(***************************************************************************)
EXTENDS Accounts, TLAPS

-----------------------------------------------------------------------------
(* The inductive invariant. *)

\* What a run has read still holds, and its list of missing permissions
\* accounts for every permission it has passed.
RunOK(q) ==
    /\ q.pc = "insert" => q.new /\ q.next = 1 /\ q.missing = {}
    /\ q.pc = "grant" => q.next <= Defaults
    /\ q.pc = "commit" => q.next = Defaults + 1
    /\ q.pc \in {"grant", "commit"} /\ q.new => q.missing = 1 .. (q.next - 1)
    /\ q.pc \in {"grant", "commit"} /\ ~q.new =>
          /\ users[q.name] # NoUser
          /\ \A p \in Permissions :
                /\ p < q.next => p \in q.missing \/ grants[q.name][p] > 0
                /\ p \in q.missing => q.name \in before.users /\ <<q.name, p>> \notin before.grants
    /\ q.pc = "done" =>
          /\ users[q.name] # NoUser
          /\ \A p \in Permissions : grants[q.name][p] > 0

RunsOK == \A r \in Runs : RunOK(run[r])

\* A run that has inserted a user is the only one of that name.
OpenAlone == \A r \in Runs : Open(r) =>
    /\ users[run[r].name] = NoUser
    /\ \A s \in Runs : Open(s) /\ run[s].name = run[r].name => s = r

\* The users and permissions of before are there still, and a user who was
\* created since has every permission.
RowsKept ==
    /\ \A n \in before.users : users[n] # NoUser
    /\ \A n \in Names, p \in Permissions :
          /\ <<n, p>> \in before.withdrawn => n \in before.users
          /\ <<n, p>> \in before.grants => grants[n][p] > 0
          /\ users[n] # NoUser /\ n \notin before.users => grants[n][p] > 0

\* A login with an old password has read its user before the password was set.
LoginOK(k) ==
    /\ k.pc = "checked" =>
          /\ k.read <= clock
          /\ users[k.sub] # NoUser
          /\ k.password # users[k.sub].password => k.read <= changed[k.sub]
    /\ k.pc = "issued" =>
          /\ k.exp <= clock + Lifetime + k.took
          /\ k.password # users[k.sub].password =>
                k.exp <= changed[k.sub] + Lifetime + k.took

TokensOld ==
    /\ \A n \in Names : changed[n] <= clock
    /\ \A l \in Logins : LoginOK(login[l])

IInv == TypeOK /\ RunsOK /\ OpenAlone /\ RowsKept /\ DuplicatesExplained /\ TokensOld

-----------------------------------------------------------------------------
\* A run that is in progress has a name, a password and its list.
LEMMA InProgress ==
    ASSUME TypeOK, NEW r \in Runs, run[r].pc \in PCs
    PROVE  run[r] \in RunState
BY DEF TypeOK, Ended, PCs

\* What a login that has read its user, or has its token, looks like.
LEMMA LoginTypes ==
    ASSUME TypeOK, NEW l \in Logins
    PROVE  /\ login[l].pc = "checked" => login[l] \in Checked
           /\ login[l].pc = "issued" => login[l] \in Token
BY DEF TypeOK, Checked, Token

LEMMA PermissionsNat == /\ Permissions \subseteq Nat \ {0}
                        /\ \A p \in Permissions : p < Defaults + 1
                        /\ 1 \in Permissions
BY DefaultsAssumption DEF Permissions

LEMMA InitInv == Init => IInv
<1> SUFFICES ASSUME Init PROVE IInv
  OBVIOUS
<1>1. \A r \in Runs : run[r] = [pc |-> "ready"]
  BY DEF Init
<1>2. run \in [Runs -> RunState \cup Ended]
  BY DEF Init, Ended
<1>3. grants \in [Names -> [Permissions -> Nat]]
  BY DEF Init
<1>4. \A n \in Names, p \in Permissions :
         /\ grants[n][p] = IF <<n, p>> \in before.grants THEN 1 ELSE 0
         /\ <<n, p>> \in before.grants => n \in before.users
  BY DEF Init
<1>5. \A n \in Names : users[n] # NoUser <=> n \in before.users
  BY DEF Init
<1>6. TypeOK
  BY <1>2, <1>3, <1>4, <1>5, TimeAssumption DEF Init, TypeOK
<1>7. RunsOK /\ OpenAlone
  BY <1>1 DEF RunsOK, RunOK, OpenAlone, Open
<1>8. RowsKept /\ DuplicatesExplained
  BY <1>4, <1>5 DEF RowsKept, DuplicatesExplained, Init, Before
<1>9. TokensOld
  BY DEF Init, TokensOld, LoginOK
<1> QED
  BY <1>6, <1>7, <1>8, <1>9 DEF IInv

\* A step of one run that writes no row.
LEMMA SetRunInv ==
    ASSUME IInv, NEW r \in Runs, NEW s \in RunState \cup Ended, SetRun(r, s), RunOK(s),
           s.pc \in {"grant", "commit"} /\ s.new =>
               /\ users[s.name] = NoUser
               /\ \A t \in Runs \ {r} : Open(t) => run[t].name # s.name
    PROVE  IInv'
<1>1. /\ run'[r] = s
      /\ \A t \in Runs \ {r} : run'[t] = run[t]
      /\ run' \in [Runs -> RunState \cup Ended]
  BY DEF SetRun, IInv, TypeOK
<1>2. UNCHANGED <<clock, users, grants, before, login, changed>>
  BY DEF SetRun
<1>3. TypeOK'
  BY <1>1, <1>2 DEF IInv, TypeOK
<1>4. RunsOK'
  BY <1>1, <1>2 DEF IInv, RunsOK, RunOK
<1>5. OpenAlone'
  BY <1>1, <1>2 DEF IInv, OpenAlone, Open
<1>6. RowsKept' /\ DuplicatesExplained' /\ TokensOld'
  BY <1>2 DEF IInv, RowsKept, DuplicatesExplained, TokensOld, LoginOK
<1> QED
  BY <1>3, <1>4, <1>5, <1>6 DEF IInv

LEMMA EndInv ==
    ASSUME IInv, NEW r \in Runs, NEW how \in {"ready", "failed"}, End(r, how)
    PROVE  IInv'
<1> DEFINE s == [pc |-> how]
<1>1. s \in Ended /\ s.pc \notin {"insert", "grant", "commit", "done"}
  BY DEF Ended
<1>2. RunOK(s)
  BY <1>1 DEF RunOK
<1>3. SetRun(r, s)
  BY DEF End
<1> HIDE DEF s
<1> QED
  BY <1>1, <1>2, <1>3, SetRunInv

LEMMA FindUserInv ==
    ASSUME IInv, NEW r \in Runs, NEW n \in Names, NEW w \in Passwords, FindUser(r, n, w)
    PROVE  IInv'
<1> DEFINE s == [pc |-> IF users[n] = NoUser THEN "insert" ELSE "grant",
                 name |-> n, password |-> w, new |-> users[n] = NoUser,
                 next |-> 1, missing |-> {}]
<1>1. s \in RunState
  BY DefaultsAssumption DEF RunState, PCs
<1>2. /\ s.new <=> users[n] = NoUser
      /\ s.pc = IF users[n] = NoUser THEN "insert" ELSE "grant"
      /\ s.next = 1 /\ s.missing = {} /\ s.name = n
  OBVIOUS
<1>3. SetRun(r, s)
  BY DEF FindUser
<1> HIDE DEF s
<1>4. RunOK(s)
  BY <1>2, DefaultsAssumption, PermissionsNat DEF RunOK
<1> QED
  BY <1>1, <1>2, <1>3, <1>4, SetRunInv

\* The insert found the name free, and no other run holding it.
LEMMA InsertUserInv ==
    ASSUME IInv, NEW r \in Runs, InsertUser(r)
    PROVE  IInv'
<1> DEFINE q == run[r]
           s == [q EXCEPT !.pc = "grant"]
<1>1. q \in RunState
  BY InProgress DEF IInv, InsertUser, PCs
<1>2. s \in RunState
  BY <1>1 DEF RunState, PCs
<1>3. /\ s.pc = "grant" /\ s.name = q.name /\ s.new = q.new
      /\ s.next = q.next /\ s.missing = q.missing
  BY <1>1 DEF RunState
<1>4. q.new /\ q.next = 1 /\ q.missing = {}
  BY DEF IInv, RunsOK, RunOK, InsertUser
<1>5. SetRun(r, s)
  BY DEF InsertUser
<1>6. users[q.name] = NoUser /\ \A t \in Runs \ {r} : Open(t) => run[t].name # q.name
  BY DEF InsertUser, InsertWaits
<1> HIDE DEF s
<1>7. RunOK(s)
  BY <1>3, <1>4, DefaultsAssumption DEF RunOK
<1> QED
  BY <1>2, <1>3, <1>5, <1>6, <1>7, SetRunInv

\* A permission that an old user lacks was never theirs: those of before, and
\* all of a user created since, are there.
LEMMA FindPermissionInv ==
    ASSUME IInv, NEW r \in Runs, FindPermission(r)
    PROVE  IInv'
<1> DEFINE q == run[r]
           s == [q EXCEPT !.pc = IF q.next = Defaults THEN "commit" ELSE "grant",
                          !.next = @ + 1,
                          !.missing = IF Absent(r) THEN @ \cup {q.next} ELSE @]
<1>1. q \in RunState /\ q.pc = "grant"
  BY InProgress DEF IInv, FindPermission, PCs
<1>2. q.next \in Permissions /\ q.next \in Nat /\ q.missing \subseteq Permissions
  BY <1>1, DefaultsAssumption DEF IInv, RunsOK, RunOK, RunState, Permissions
<1>3. /\ s.pc = IF q.next = Defaults THEN "commit" ELSE "grant"
      /\ s.name = q.name /\ s.new = q.new /\ s.next = q.next + 1
      /\ s.missing = IF Absent(r) THEN q.missing \cup {q.next} ELSE q.missing
  BY <1>1 DEF RunState
<1>4. s \in RunState
  <2>1. q.next + 1 \in 1 .. Defaults + 1
    BY <1>2, DefaultsAssumption DEF Permissions
  <2>2. (IF Absent(r) THEN q.missing \cup {q.next} ELSE q.missing) \subseteq Permissions
    BY <1>2
  <2> QED
    BY <1>1, <2>1, <2>2 DEF RunState, PCs
<1>5. SetRun(r, s)
  BY DEF FindPermission
<1> HIDE DEF s
<1>6. RunOK(s)
  <2>1. q.next <= Defaults
    BY <1>1 DEF IInv, RunsOK, RunOK
  <2>2. CASE q.new
    <3>1. Absent(r) /\ q.missing = 1 .. (q.next - 1)
      BY <1>1, <2>2 DEF Absent, Rows, IInv, RunsOK, RunOK
    <3>2. s.missing = 1 .. (s.next - 1)
      <4>1. q.next - 1 \in Nat /\ q.next >= 1 /\ s.next - 1 = q.next
        BY <1>2, <1>3, PermissionsNat
      <4>2. (1 .. (q.next - 1)) \cup {q.next} = 1 .. q.next
        BY <1>2, <4>1
      <4> QED
        BY <1>3, <3>1, <4>1, <4>2
    <3> QED
      BY <1>2, <1>3, <2>1, <2>2, <3>2, DefaultsAssumption DEF RunOK
  <2>3. CASE ~q.new
    <3>1. /\ users[q.name] # NoUser
          /\ \A p \in Permissions :
                /\ p < q.next => p \in q.missing \/ grants[q.name][p] > 0
                /\ p \in q.missing => /\ q.name \in before.users
                                      /\ <<q.name, p>> \notin before.grants
      BY <1>1, <2>3 DEF IInv, RunsOK, RunOK
    <3>2. grants[q.name][q.next] \in Nat /\ q.name \in Names
      BY <1>1, <1>2 DEF IInv, TypeOK, RunState
    <3>3. Absent(r) <=> grants[q.name][q.next] = 0
      BY <2>3 DEF Absent, Rows
    <3>4. Absent(r) => q.name \in before.users /\ <<q.name, q.next>> \notin before.grants
      BY <1>2, <3>1, <3>2, <3>3 DEF IInv, RowsKept
    <3>5. \A p \in Permissions : p < q.next + 1 => p < q.next \/ p = q.next
      BY <1>2, PermissionsNat
    <3>6. \A p \in Permissions :
             /\ p < s.next => p \in s.missing \/ grants[s.name][p] > 0
             /\ p \in s.missing => /\ s.name \in before.users
                                   /\ <<s.name, p>> \notin before.grants
      BY <1>3, <3>1, <3>2, <3>3, <3>4, <3>5
    <3> QED
      BY <1>2, <1>3, <2>1, <2>3, <3>1, <3>6, DefaultsAssumption DEF RunOK
  <2> QED
    BY <2>2, <2>3
<1>7. s.pc \in {"grant", "commit"} /\ s.new =>
         /\ users[s.name] = NoUser
         /\ \A t \in Runs \ {r} : Open(t) => run[t].name # s.name
  BY <1>1, <1>3 DEF IInv, OpenAlone, Open
<1> QED
  BY <1>4, <1>5, <1>6, <1>7, SetRunInv

-----------------------------------------------------------------------------
\* The commit.  A new user appears with every permission at once; no other run
\* that found the name free is past its insert; and what is added to an old
\* user was no permission of before.
LEMMA CommitAdminInv ==
    ASSUME IInv, NEW r \in Runs, CommitAdmin(r)
    PROVE  IInv'
<1> DEFINE q == run[r]
<1>1. q \in RunState /\ q.pc = "commit" /\ q.next = Defaults + 1 /\ q.name \in Names
  BY InProgress DEF IInv, CommitAdmin, PCs, RunsOK, RunOK, RunState
<1>2. PICK n \in Names, m \in SUBSET Permissions : n = q.name /\ m = q.missing
  BY <1>1 DEF RunState
<1>3. Saved(q) \in User /\ Saved(q) # NoUser
  <2>1. q.password \in Passwords
    BY <1>1 DEF RunState
  <2>2. Saved(q) \in User
    BY <2>1 DEF Saved, User
  <2> QED
    BY <2>2, NoUserAssumption
<1>4. /\ users' \in [Names -> User \cup {NoUser}]
      /\ users'[n] \in User /\ users'[n] # NoUser
      /\ \A o \in Names \ {n} : users'[o] = users[o]
  BY <1>2, <1>3 DEF CommitAdmin, IInv, TypeOK
<1>5. /\ grants' \in [Names -> [Permissions -> Nat]]
      /\ \A p \in Permissions : grants'[n][p] = IF p \in m THEN grants[n][p] + 1 ELSE grants[n][p]
      /\ \A o \in Names \ {n} : grants'[o] = grants[o]
  BY <1>2 DEF CommitAdmin, Granted, IInv, TypeOK
<1>6. /\ changed' \in [Names -> 0 .. MaxTime]
      /\ changed'[n] = clock
      /\ \A o \in Names \ {n} : changed'[o] = changed[o]
  BY <1>2 DEF CommitAdmin, IInv, TypeOK
<1>7. /\ run' \in [Runs -> RunState \cup Ended]
      /\ run'[r] = [pc |-> "done", name |-> n]
      /\ \A s \in Runs \ {r} : run'[s] = run[s]
  BY <1>2 DEF CommitAdmin, IInv, TypeOK, Ended
<1>8. UNCHANGED <<clock, before, login>>
  BY DEF CommitAdmin
<1>9. \A o \in Names, p \in Permissions :
         grants[o][p] \in Nat /\ grants'[o][p] \in Nat /\ grants'[o][p] >= grants[o][p]
  <2> SUFFICES ASSUME NEW o \in Names, NEW p \in Permissions
               PROVE  grants[o][p] \in Nat /\ grants'[o][p] \in Nat /\ grants'[o][p] >= grants[o][p]
    OBVIOUS
  <2>1. grants \in [Names -> [Permissions -> Nat]]
    BY DEF IInv, TypeOK
  <2>2. grants[o][p] \in Nat
    BY <2>1
  <2>3. grants'[o][p] = grants[o][p] \/ grants'[o][p] = grants[o][p] + 1
    BY <1>5
  <2> QED
    BY <2>2, <2>3
<1>10. \A o \in Names : users[o] # NoUser => users'[o] # NoUser
  BY <1>4
<1>11. TypeOK'
  <2>1. \A l \in Logins : login[l].pc = "issued" =>
           login[l].sub \in Names /\ users[login[l].sub] # NoUser
    BY LoginTypes DEF IInv, TypeOK, Token
  <2>2. \A l \in Logins : login'[l].pc = "issued" => users'[login'[l].sub] # NoUser
    BY <1>8, <1>10, <2>1
  <2>3. \A o \in Names : users'[o] = NoUser => \A p \in Permissions : grants'[o][p] = 0
    BY <1>4, <1>5 DEF IInv, TypeOK
  <2> QED
    BY <1>4, <1>5, <1>6, <1>7, <1>8, <2>2, <2>3 DEF IInv, TypeOK
<1>12. q.new => users[n] = NoUser /\ m = Permissions
  BY <1>1, <1>2, DefaultsAssumption DEF IInv, RunsOK, RunOK, OpenAlone, Open, Permissions
<1>13. ~q.new => /\ users[n] # NoUser
                 /\ \A p \in Permissions :
                       /\ p \in m \/ grants[n][p] > 0
                       /\ p \in m => n \in before.users /\ <<n, p>> \notin before.grants
  BY <1>1, <1>2, PermissionsNat DEF IInv, RunsOK, RunOK
<1>14. \A p \in Permissions : grants'[n][p] > 0
  <2>1. ASSUME NEW p \in Permissions PROVE p \in m \/ grants[n][p] > 0
    BY <1>12, <1>13
  <2>2. \A p \in Permissions : grants[n][p] \in Nat
    BY DEF IInv, TypeOK
  <2> QED
    BY <1>5, <2>1, <2>2
<1>15. RunsOK'
  <2> SUFFICES ASSUME NEW s \in Runs PROVE RunOK(run[s])'
    BY DEF RunsOK
  <2>1. CASE s = r
    BY <1>4, <1>7, <1>14, <2>1 DEF RunOK
  <2>2. CASE s # r
    <3>1. RunOK(run[s]) /\ run'[s] = run[s]
      BY <1>7, <2>2 DEF IInv, RunsOK
    <3>2. run[s].pc \in {"grant", "commit", "done"} => run[s].name \in Names
      BY DEF IInv, TypeOK, RunState, Ended
    <3> QED
      BY <1>8, <1>9, <1>10, <3>1, <3>2 DEF RunOK
  <2> QED
    BY <2>1, <2>2
<1>16. OpenAlone'
  <2> SUFFICES ASSUME NEW s \in Runs, Open(s)'
               PROVE  (/\ users[run[s].name] = NoUser
                       /\ \A t \in Runs : Open(t) /\ run[t].name = run[s].name => t = s)'
    BY DEF OpenAlone
  <2>1. s # r /\ Open(s)
    BY <1>7 DEF Open
  <2>2. \A t \in Runs : Open(t)' => t # r /\ Open(t) /\ run'[t] = run[t]
    BY <1>7 DEF Open
  <2>3. users[run[s].name] = NoUser /\ run[s].name \in Names
    BY <2>1 DEF IInv, OpenAlone, TypeOK, Open, RunState, Ended
  <2>4. run[s].name # n
    BY <1>1, <1>2, <1>13, <2>1, <2>3 DEF IInv, OpenAlone, Open
  <2> QED
    BY <1>4, <2>1, <2>2, <2>3, <2>4 DEF IInv, OpenAlone
<1>17. RowsKept'
  <2>1. \A o \in before.users : o \in Names
    BY DEF IInv, TypeOK, Before
  <2>2. \A o \in Names, p \in Permissions :
           users'[o] # NoUser /\ o \notin before.users => grants'[o][p] > 0
    BY <1>4, <1>5, <1>14 DEF IInv, RowsKept
  <2>3. \A o \in Names, p \in Permissions : <<o, p>> \in before.grants => grants'[o][p] > 0
    BY <1>9 DEF IInv, RowsKept
  <2> QED
    BY <1>8, <1>10, <2>1, <2>2, <2>3 DEF IInv, RowsKept
<1>18. DuplicatesExplained'
  <2> SUFFICES ASSUME NEW o \in Names, NEW p \in Permissions, grants'[o][p] > 1
               PROVE  o \in before.users /\ <<o, p>> \notin before.grants
    BY <1>8 DEF DuplicatesExplained
  <2>1. CASE grants[o][p] > 1
    BY <2>1 DEF IInv, DuplicatesExplained
  <2>2. CASE ~(grants[o][p] > 1)
    <3>1. o = n /\ p \in m
      BY <1>5, <1>9, <2>2
    <3>2. ~q.new
      BY <1>5, <1>12, <3>1 DEF IInv, TypeOK
    <3> QED
      BY <1>13, <3>1, <3>2
  <2> QED
    BY <2>1, <2>2
<1>19. TokensOld'
  <2>1. clock \in Nat /\ Lifetime \in Nat /\ \A o \in Names : changed[o] <= clock
    BY TimeAssumption DEF IInv, TypeOK, TokensOld
  <2>2. ASSUME NEW l \in Logins PROVE LoginOK(login[l])'
    <3> DEFINE k == login[l]
    <3>1. LoginOK(k) /\ login'[l] = k
      BY <1>8 DEF IInv, TokensOld
    <3>2. CASE k.pc = "checked"
      <4>1. k.sub \in Names /\ k.read \in Nat
        BY <3>2, LoginTypes DEF IInv, Checked
      <4> QED
        BY <1>4, <1>6, <1>8, <1>10, <2>1, <3>1, <3>2, <4>1 DEF LoginOK
    <3>3. CASE k.pc = "issued"
      <4>1. k.sub \in Names /\ k.exp \in Nat /\ k.took \in Nat
        BY <3>3, LoginTypes DEF IInv, Token
      <4> QED
        BY <1>4, <1>6, <1>8, <2>1, <3>1, <3>3, <4>1 DEF LoginOK
    <3> QED
      BY <3>1, <3>2, <3>3 DEF LoginOK
  <2> QED
    BY <1>6, <1>8, <2>1, <2>2 DEF TokensOld
<1> QED
  BY <1>11, <1>15, <1>16, <1>17, <1>18, <1>19 DEF IInv

\* A step of one login, which writes no row.
LEMMA SetLoginInv ==
    ASSUME IInv, NEW l \in Logins, NEW k \in Checked \cup Token,
           login' = [login EXCEPT ![l] = k],
           UNCHANGED <<clock, users, grants, before, run, changed>>,
           LoginOK(k), k.pc = "issued" => users[k.sub] # NoUser
    PROVE  IInv'
<1>1. /\ login'[l] = k
      /\ \A m \in Logins \ {l} : login'[m] = login[m]
      /\ login' \in [Logins -> {[pc |-> "ready"]} \cup Checked \cup Token]
  BY DEF IInv, TypeOK
<1>2. TypeOK'
  BY <1>1 DEF IInv, TypeOK
<1>3. TokensOld'
  BY <1>1 DEF IInv, TokensOld, LoginOK
<1> QED
  BY <1>2, <1>3 DEF IInv, RunsOK, RunOK, OpenAlone, Open, RowsKept, DuplicatesExplained

\* The password that a login has checked is in force.
LEMMA AuthenticateInv ==
    ASSUME IInv, NEW l \in Logins, NEW n \in Names, NEW w \in Passwords,
           Authenticate(l, n, w)
    PROVE  IInv'
<1> DEFINE k == [pc |-> "checked", sub |-> n, password |-> w, read |-> clock]
<1>1. clock \in Nat
  BY TimeAssumption DEF IInv, TypeOK
<1>2. /\ k \in Checked /\ k.pc = "checked" /\ k.sub = n /\ k.password = w
      /\ k.read = clock
  BY <1>1 DEF Checked
<1>3. users[n] = [password |-> w, is_active |-> TRUE] /\ users[n] \in User
  BY DEF Authenticate, User
<1>4. users[n].password = w /\ users[n] # NoUser
  <2>1. users[n].password = w
    BY <1>3
  <2>2. users[n] # NoUser
    BY <1>3, NoUserAssumption
  <2> QED
    BY <2>1, <2>2
<1>5. /\ login' = [login EXCEPT ![l] = k]
      /\ UNCHANGED <<clock, users, grants, before, run, changed>>
  BY DEF Authenticate
<1> HIDE DEF k
<1>6. LoginOK(k)
  BY <1>1, <1>2, <1>4 DEF LoginOK
<1> QED
  BY <1>2, <1>5, <1>6, SetLoginInv

\* A reset that came after the SELECT was committed at `changed`: the time that
\* the login took since is all that its token gains on it.
LEMMA CreateTokenInv ==
    ASSUME IInv, NEW l \in Logins, CreateToken(l)
    PROVE  IInv'
<1> DEFINE q == login[l]
           k == [pc |-> "issued", sub |-> q.sub, password |-> q.password,
                 exp |-> clock + Lifetime, took |-> clock - q.read]
<1>1. q \in Checked /\ LoginOK(q) /\ q.pc = "checked"
  BY LoginTypes DEF IInv, TokensOld, CreateToken
<1>2. /\ q.sub \in Names /\ q.password \in Passwords /\ q.read \in Nat
      /\ clock \in Nat /\ Lifetime \in Nat /\ changed[q.sub] \in Nat
  BY <1>1, TimeAssumption DEF IInv, TypeOK, Checked
<1>3. /\ q.read <= clock /\ users[q.sub] # NoUser
      /\ q.password # users[q.sub].password => q.read <= changed[q.sub]
  BY <1>1 DEF LoginOK
<1>4. clock - q.read \in Nat
  BY <1>2, <1>3
<1>5. /\ k \in Token /\ k.pc = "issued" /\ k.sub = q.sub /\ k.password = q.password
      /\ k.exp = clock + Lifetime /\ k.took = clock - q.read
  BY <1>2, <1>4 DEF Token
<1>6. /\ login' = [login EXCEPT ![l] = k]
      /\ UNCHANGED <<clock, users, grants, before, run, changed>>
  BY DEF CreateToken
<1> HIDE DEF k
<1>7. LoginOK(k)
  BY <1>2, <1>3, <1>4, <1>5 DEF LoginOK
<1> QED
  BY <1>3, <1>5, <1>6, <1>7, SetLoginInv

LEMMA TickInv ==
    ASSUME IInv, Tick
    PROVE  IInv'
<1>1. clock' = clock + 1 /\ clock \in Nat /\ clock' \in 0 .. MaxTime
  BY TimeAssumption DEF Tick, IInv, TypeOK
<1>2. UNCHANGED <<users, grants, before, run, login, changed>>
  BY DEF Tick
<1>3. TypeOK'
  BY <1>1, <1>2 DEF IInv, TypeOK
<1>4. TokensOld'
  <2>1. ASSUME NEW l \in Logins PROVE LoginOK(login[l])'
    <3>1. LoginOK(login[l]) /\ login'[l] = login[l]
      BY <1>2 DEF IInv, TokensOld
    <3>2. login[l].pc = "checked" => login[l].read \in Nat
      BY LoginTypes DEF IInv, Checked
    <3>3. login[l].pc = "issued" => login[l].exp \in Nat /\ login[l].took \in Nat
      BY LoginTypes DEF IInv, Token
    <3> QED
      BY <1>1, <1>2, <3>1, <3>2, <3>3, TimeAssumption DEF LoginOK
  <2>2. \A n \in Names : changed[n] \in Nat /\ changed[n] <= clock
    <3> SUFFICES ASSUME NEW n \in Names PROVE changed[n] \in Nat /\ changed[n] <= clock
      OBVIOUS
    <3>1. changed[n] \in 0 .. MaxTime
      BY DEF IInv, TypeOK
    <3>2. changed[n] <= clock
      BY DEF IInv, TokensOld
    <3>3. 0 .. MaxTime \subseteq Nat
      BY TimeAssumption
    <3>4. changed[n] \in Nat
      BY <3>1, <3>3
    <3> QED
      BY <3>2, <3>4
  <2> QED
    BY <1>1, <1>2, <2>1, <2>2, TimeAssumption DEF IInv, TokensOld
<1> QED
  BY <1>2, <1>3, <1>4 DEF IInv, RunsOK, RunOK, OpenAlone, Open, RowsKept, DuplicatesExplained

-----------------------------------------------------------------------------
LEMMA StepInv == IInv /\ [Next]_vars => IInv'
<1> SUFFICES ASSUME IInv, [Next]_vars PROVE IInv'
  OBVIOUS
<1>1. CASE UNCHANGED vars
  BY <1>1 DEF vars, IInv, TypeOK, RunsOK, RunOK, OpenAlone, Open, RowsKept,
              DuplicatesExplained, TokensOld, LoginOK
<1>2. ASSUME NEW r \in Runs,
             \/ InsertUser(r) \/ InsertRefused(r) \/ FindPermission(r)
             \/ FindTwoPermissions(r) \/ CommitAdmin(r) \/ RunFails(r) \/ RunAgain(r)
      PROVE  IInv'
  <2>1. InsertRefused(r) \/ FindTwoPermissions(r) \/ RunFails(r) => End(r, "failed")
    BY DEF InsertRefused, FindTwoPermissions, RunFails
  <2>2. RunAgain(r) => End(r, "ready")
    BY DEF RunAgain
  <2> QED
    BY <1>2, <2>1, <2>2, EndInv, InsertUserInv, FindPermissionInv, CommitAdminInv
<1> QED
  BY <1>1, <1>2, TickInv, FindUserInv, AuthenticateInv, CreateTokenInv DEF Next

LEMMA Invariance == Spec => []IInv
  BY InitInv, StepInv, PTL DEF Spec

\* Every variable has its type; only users have permissions and tokens.
THEOREM TypeCorrect == Spec => []TypeOK
<1>1. IInv => TypeOK
  BY DEF IInv
<1> QED
  BY <1>1, Invariance, PTL

\* Whatever runs overlap, fail or are killed, a user who is created is visible
\* with every permission or not at all, and a run that succeeds leaves an admin.
THEOREM AdminsAreComplete == Spec => []AdminIsComplete
<1>1. IInv => AdminIsComplete
  BY DEF IInv, RunsOK, RunOK, RowsKept, AdminIsComplete, HasPermission, GrantedRows
<1> QED
  BY <1>1, Invariance, PTL

\* Two rows of a permission, on which every later reset fails, need a user who
\* is older than the permission.
THEOREM DuplicatesAreExplained == Spec => []DuplicatesExplained
<1>1. IInv => DuplicatesExplained
  BY DEF IInv
<1> QED
  BY <1>1, Invariance, PTL

\* A token for a replaced password is refused access_token_expire_minutes after
\* the reset, and the time that its login took.
THEOREM OldPasswordsExpire == Spec => []OldPasswordExpires
<1>1. IInv => OldPasswordExpires
  <2> SUFFICES ASSUME IInv, NEW l \in Logins, login[l].pc = "issued", Accepted(login[l]),
                      login[l].password # users[login[l].sub].password
               PROVE  clock <= changed[login[l].sub] + Lifetime + login[l].took
    BY DEF OldPasswordExpires
  <2> DEFINE k == login[l]
  <2>1. k.exp \in Nat /\ k.took \in Nat /\ k.sub \in Names
    BY LoginTypes DEF IInv, Token
  <2>2. clock <= k.exp
    BY DEF Accepted, Decoded
  <2>3. k.exp <= changed[k.sub] + Lifetime + k.took
    BY DEF IInv, TokensOld, LoginOK
  <2>4. clock \in Nat /\ changed[k.sub] \in Nat /\ Lifetime \in Nat
    BY <2>1, TimeAssumption DEF IInv, TypeOK
  <2> QED
    BY <2>1, <2>2, <2>3, <2>4
<1> QED
  BY <1>1, Invariance, PTL
=============================================================================
