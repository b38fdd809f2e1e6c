------------------------------ MODULE Accounts ------------------------------
(***************************************************************************)
(* UserManage.cpp over MySQLConnector.cpp: the checks of a login and of a  *)
(* registration, and the queries that the workers of the server make over  *)
(* one connection to the database, which no mutex protects.                *)
(*                                                                         *)
(* A call into libmysqlclient is one step.  mysql_query leaves the rows of *)
(* a select pending on the connection until mysql_store_result takes them, *)
(* and fails while rows are pending ("commands out of sync").  Two calls   *)
(* at the same time are undefined: the model stops there, with ub TRUE.    *)
(***************************************************************************)
EXTENDS Integers

CONSTANTS
    Workers,        \* the threads of the pool
    AccountTexts,   \* what users enter as their account
    PasswordTexts   \* and as their password

\* A text is what the checks look at: its length, whether its characters are all
\* allowed, and the number it denotes (a password: which one it is).
AccountText  == [size : Nat, digits : BOOLEAN, value : Nat]
PasswordText == [size : Nat, alnum : BOOLEAN, id : Nat]

ASSUME AccountsAssumption ==
    /\ AccountTexts \subseteq AccountText
    /\ PasswordTexts \subseteq PasswordText

VARIABLES
    table,          \* the rows of table user
    conn,           \* the connection of MySQLConnector
    job,            \* the query or registration each worker is at
    ub              \* two calls into the library at once

accountVars == <<table, conn, job, ub>>

-----------------------------------------------------------------------------

\* Mutant: an account need not fit the two bytes that a heading has for it.
CheckAccountUnbounded(a) == a.size \in 3 .. 6 /\ a.digits

checkAccount(a)  == a.size \in 3 .. 6 /\ a.digits /\ a.value <= 65535
checkPassword(p) == p.size \in 6 .. 16 /\ p.alnum

\* The SQL has the account as a number: "0100" and "100" are one account.
Row(a, p) == [account |-> a.value, password |-> p.id]

ValidRows == {Row(a, p) : a \in {x \in AccountTexts : checkAccount(x)},
                          p \in {y \in PasswordTexts : checkPassword(y)}}

Registered(account) == \E r \in table : r.account = account

\* The rows that the select of worker w asks for.
Selected(w) ==
    {r \in table :
        /\ r.account = job[w].account.value
        /\ job[w].op = "LOGIN" => r.password = job[w].password.id}

\* No rows are pending.
NoResult == [pending |-> FALSE, rows |-> {}]

Job == [pc       : {"idle", "query", "store", "insert", "done"},
        op       : {"LOGIN", "REGISTER"},
        account  : AccountText,
        password : PasswordText,
        success  : BOOLEAN,
        known    : BOOLEAN,     \* was the row, or the account, there at the start?
        failed   : BOOLEAN]     \* did the select fail?

AccountsTypeOK ==
    /\ table \subseteq ValidRows
    /\ conn \in [pending : BOOLEAN, rows : SUBSET ValidRows]
    /\ job \in [Workers -> Job]
    /\ ub \in BOOLEAN

NoJob ==
    [pc |-> "idle", op |-> "LOGIN", account |-> [size |-> 0, digits |-> TRUE, value |-> 0],
     password |-> [size |-> 0, alnum |-> TRUE, id |-> 0],
     success |-> FALSE, known |-> FALSE, failed |-> FALSE]

\* Some users have registered before.
AccountsInit ==
    /\ table \in SUBSET ValidRows
    /\ conn = NoResult
    /\ job = [w \in Workers |-> NoJob]
    /\ ub = FALSE

-----------------------------------------------------------------------------

\* Worker w starts with op; accepted are the checks before its select.
Start(w, op, a, p, known, accepted) ==
    /\ job[w].pc = "idle"
    /\ job' = [job EXCEPT ![w] =
                  [pc |-> IF accepted THEN "query" ELSE "done", op |-> op, account |-> a,
                   password |-> p, success |-> FALSE, known |-> known, failed |-> FALSE]]
    /\ UNCHANGED <<table, conn, ub>>

CheckLogin(w, a, p) ==
    Start(w, "LOGIN", a, p, Row(a, p) \in table, checkAccount(a) /\ checkPassword(p))

\* isRegistered comes first; without a valid account registerUser refuses as well.
IsRegistered(w, a, p) ==
    Start(w, "REGISTER", a, p, Registered(a.value), checkAccount(a))

\* Worker w has its answer.
Return(w, success) == job' = [job EXCEPT ![w].pc = "done", ![w].success = success]

\* isRegistered returned FALSE: registerUser checks the password and inserts.
RegisterUser(w, failed) ==
    job' = [job EXCEPT ![w].pc = IF checkPassword(job[w].password) THEN "insert" ELSE "done",
                       ![w].failed = failed]

\* The select of worker w failed: a login is refused, a registration goes on.
SelectFails(w) ==
    IF job[w].op = "LOGIN" THEN job' = [job EXCEPT ![w].pc = "done", ![w].failed = TRUE]
                           ELSE RegisterUser(w, TRUE)

\* Mutants: the rows pending for another worker are not in the way, and are taken
\* for one's own; and the rows of the own select replace them.
QueryTakesPending(w) ==
    /\ job[w].pc = "query"
    /\ conn' = IF conn.pending THEN conn ELSE [pending |-> TRUE, rows |-> Selected(w)]
    /\ job' = [job EXCEPT ![w].pc = "store"]
    /\ UNCHANGED <<table, ub>>

QueryReplacesPending(w) ==
    /\ job[w].pc = "query"
    /\ conn' = [pending |-> TRUE, rows |-> Selected(w)]
    /\ job' = [job EXCEPT ![w].pc = "store"]
    /\ UNCHANGED <<table, ub>>

\* mysql_query of a select.  It fails while rows are pending, and whenever the
\* database cannot be reached.
QueryUser(w) ==
    /\ job[w].pc = "query"
    /\ \/ /\ ~conn.pending
          /\ conn' = [pending |-> TRUE, rows |-> Selected(w)]
          /\ job' = [job EXCEPT ![w].pc = "store"]
       \/ SelectFails(w) /\ UNCHANGED conn
    /\ UNCHANGED <<table, ub>>

\* Mutant: whoever is registered already is registered again.
StoreResultUnchecked(w) ==
    /\ job[w].pc = "store"
    /\ conn' = NoResult
    /\ IF job[w].op = "LOGIN" THEN Return(w, conn.rows # {} /\ job[w].account.value # 0)
                              ELSE RegisterUser(w, FALSE)
    /\ UNCHANGED <<table, ub>>

\* mysql_store_result takes the pending rows, or loses them.  A login returns the
\* account of the row, and the server takes 0 for a failure.
StoreResult(w) ==
    /\ job[w].pc = "store"
    /\ conn' = NoResult
    /\ \/ /\ job[w].op = "LOGIN"
          /\ Return(w, conn.rows # {} /\ job[w].account.value # 0)
       \/ /\ job[w].op = "REGISTER"
          /\ IF conn.rows # {} THEN Return(w, FALSE) ELSE RegisterUser(w, FALSE)
       \/ SelectFails(w)
    /\ UNCHANGED <<table, ub>>

\* mysql_query of an insert, which the database may refuse: it is not known whether
\* an account is a key of the table.
InsertUser(w) ==
    /\ job[w].pc = "insert"
    /\ \/ /\ ~conn.pending
          /\ table' = table \union {Row(job[w].account, job[w].password)}
          /\ Return(w, TRUE)
       \/ /\ Return(w, FALSE)
          /\ UNCHANGED table
    /\ UNCHANGED <<conn, ub>>

\* The request goes on with the answer.
Finish(w) ==
    /\ job[w].pc = "done"
    /\ job' = [job EXCEPT ![w].pc = "idle"]
    /\ UNCHANGED <<table, conn, ub>>

InLibrary(w) == job[w].pc \in {"query", "store", "insert"}

\* The build may run two calls one after the other, which the other steps say, or in
\* a way that leaves nothing to say.
ConnectorRace ==
    /\ \E v, w \in Workers : v # w /\ InLibrary(v) /\ InLibrary(w)
    /\ ub' = TRUE
    /\ UNCHANGED <<table, conn, job>>

DatabaseStep(w) == QueryUser(w) \/ StoreResult(w) \/ InsertUser(w)

AccountsNext ==
    /\ ~ub
    /\ \/ \E w \in Workers :
             \/ \E a \in AccountTexts, p \in PasswordTexts :
                   CheckLogin(w, a, p) \/ IsRegistered(w, a, p)
             \/ DatabaseStep(w)
             \/ Finish(w)
       \/ ConnectorRace

AccountsSpec == AccountsInit /\ [][AccountsNext]_accountVars

-----------------------------------------------------------------------------
(***************************************************************************)
(* Properties.                                                             *)
(***************************************************************************)

\* When checkLogin returns an account, or registerUser TRUE, the table has a row with the
\* account and the password they were called with, although all workers read their rows
\* from one connection, as long as no two calls into the library overlap: a worker that
\* asks between the calls of another one neither takes the rows of that one nor is
\* answered from them.  It is about what UserManage returns, not about what a window
\* shows: the register window does not read the answer to REGISTER (registerfrom.cpp:33).
SuccessIsStored ==
    \A w \in Workers :
        job[w].pc = "done" /\ job[w].success
            => Row(job[w].account, job[w].password) \in table

\* A login that passes the checks, with an account and a password that were in the
\* table when it began, is refused only if its select failed, or the account is 0:
\* checkAccount lets "000" register, and the server takes a first of 0 for a failure
\* (Server.cpp:187).
RefusedIsUnknown ==
    \A w \in Workers :
        /\ job[w].pc = "done" /\ job[w].op = "LOGIN" /\ job[w].known /\ ~job[w].success
        /\ checkAccount(job[w].account) /\ checkPassword(job[w].password)
        => job[w].failed \/ job[w].account.value = 0

\* An account that was in the table when a registration began is registered again
\* only if isRegistered could not ask for it: a select that fails is taken for an
\* account that is not there.
RegisteredOnce ==
    \A w \in Workers :
        job[w].pc = "done" /\ job[w].op = "REGISTER" /\ job[w].known /\ job[w].success
            => job[w].failed
=============================================================================
