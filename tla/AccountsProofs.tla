--------------------------- MODULE AccountsProofs ---------------------------
(***************************************************************************)
(* What the server tells its users of logins and registrations agrees with *)
(* the table, however many workers share the connection to the database.   *)
(***************************************************************************)
EXTENDS Accounts, TLAPS

\* Before worker w asks the database it has checked the account, and before it
\* inserts the password as well; it has not answered yet.
Checked(w) ==
    /\ InLibrary(w) =>
          /\ job[w].account \in AccountTexts /\ checkAccount(job[w].account)
          /\ job[w].password \in PasswordTexts
          /\ ~job[w].success
    /\ job[w].pc = "insert" => job[w].op = "REGISTER" /\ checkPassword(job[w].password)

\* No row ever leaves the table: what was there when w began still is.
KnownStays(w) ==
    job[w].pc # "idle" /\ job[w].known
        => IF job[w].op = "LOGIN" THEN Row(job[w].account, job[w].password) \in table
                                  ELSE Registered(job[w].account.value)

\* Between its two calls, w finds rows of its own select pending; whatever it knew of
\* is among them.
RowsAreOwn(w) ==
    job[w].pc = "store" =>
        /\ conn.pending
        /\ conn.rows \subseteq Selected(w)
        /\ job[w].known => conn.rows # {}

\* Who knows an account inserts it only because the select failed.
InsertsUnknown(w) == job[w].pc = "insert" /\ job[w].known => job[w].failed

\* The three properties, of worker w; and nobody logs in as account 0.
AnswerAgrees(w) ==
    job[w].pc = "done" =>
        /\ job[w].success => Row(job[w].account, job[w].password) \in table
        /\ job[w].op = "LOGIN" /\ job[w].known /\ ~job[w].success
           /\ checkAccount(job[w].account) /\ checkPassword(job[w].password)
             => job[w].failed \/ job[w].account.value = 0
        /\ job[w].op = "REGISTER" /\ job[w].known /\ job[w].success => job[w].failed
        /\ job[w].op = "LOGIN" /\ job[w].success => job[w].account.value # 0

WorkerOK(w) ==
    Checked(w) /\ KnownStays(w) /\ RowsAreOwn(w) /\ InsertsUnknown(w) /\ AnswerAgrees(w)

\* mysql_query fails while rows are pending, so only one worker is between its calls.
OneStores ==
    \A v, w \in Workers : job[v].pc = "store" /\ job[w].pc = "store" => v = w

Inv ==
    /\ AccountsTypeOK
    /\ \A w \in Workers : WorkerOK(w)
    /\ OneStores

-----------------------------------------------------------------------------

LEMMA InitInv == AccountsInit => Inv
<1> SUFFICES ASSUME AccountsInit PROVE Inv
    OBVIOUS
<1>1. \A w \in Workers : job[w] = NoJob
    BY DEF AccountsInit
<1>2. NoJob.pc = "idle"
    BY DEF NoJob
<1>3. AccountsTypeOK
    <2>1. NoJob \in Job
        BY DEF NoJob, Job, AccountText, PasswordText
    <2> QED
        BY <2>1 DEF AccountsInit, AccountsTypeOK, NoResult
<1>4. \A w \in Workers : WorkerOK(w)
    BY <1>1, <1>2 DEF WorkerOK, Checked, KnownStays, RowsAreOwn, InsertsUnknown,
                      AnswerAgrees, InLibrary
<1> QED
    BY <1>1, <1>2, <1>3, <1>4 DEF Inv, OneStores

\* Rows that are added do not disturb a worker, nor does the connection, unless it is
\* between its two calls.
LEMMA Undisturbed ==
    ASSUME NEW v \in Workers, WorkerOK(v), job'[v] = job[v], table \subseteq table',
           job[v].pc = "store" => UNCHANGED conn
    PROVE  WorkerOK(v)'
<1>1. Checked(v)'
    BY DEF WorkerOK, Checked, InLibrary
<1>2. KnownStays(v)'
    BY DEF WorkerOK, KnownStays, Registered
<1>3. RowsAreOwn(v)'
    BY DEF WorkerOK, RowsAreOwn, Selected
<1>4. InsertsUnknown(v)' /\ AnswerAgrees(v)'
    BY DEF WorkerOK, InsertsUnknown, AnswerAgrees
<1> QED
    BY <1>1, <1>2, <1>3, <1>4 DEF WorkerOK

\* A step of worker w that leaves it in order leaves all in order.
LEMMA OneMoves ==
    ASSUME Inv, NEW w \in Workers,
           job' \in [Workers -> Job],
           \A v \in Workers \ {w} : job'[v] = job[v],
           table \subseteq table', table' \subseteq ValidRows,
           conn' \in [pending : BOOLEAN, rows : SUBSET ValidRows], ub' \in BOOLEAN,
           \A v \in Workers \ {w} : job[v].pc = "store" => UNCHANGED conn,
           \A v \in Workers \ {w} : ~(job[v].pc = "store" /\ job'[w].pc = "store"),
           WorkerOK(w)'
    PROVE  Inv'
<1>1. AccountsTypeOK'
    BY DEF AccountsTypeOK
<1>2. ASSUME NEW v \in Workers PROVE WorkerOK(v)'
    <2>1. CASE v = w
        BY <2>1
    <2>2. CASE v # w
        BY <2>2, Undisturbed DEF Inv
    <2> QED
        BY <2>1, <2>2
<1>3. OneStores'
    BY DEF Inv, OneStores
<1> QED
    BY <1>1, <1>2, <1>3 DEF Inv

\* Types of the new job.
LEMMA JobType ==
    ASSUME Inv, NEW w \in Workers, NEW j \in Job, job' = [job EXCEPT ![w] = j]
    PROVE  /\ job' \in [Workers -> Job]
           /\ job'[w] = j
           /\ \A v \in Workers \ {w} : job'[v] = job[v]
    BY DEF Inv, AccountsTypeOK

LEMMA StartInv ==
    ASSUME Inv, NEW w \in Workers, NEW op \in {"LOGIN", "REGISTER"},
           NEW a \in AccountTexts, NEW p \in PasswordTexts,
           NEW known \in BOOLEAN, NEW accepted \in BOOLEAN,
           known => IF op = "LOGIN" THEN Row(a, p) \in table ELSE Registered(a.value),
           accepted => checkAccount(a),
           op = "LOGIN" /\ ~accepted => ~(checkAccount(a) /\ checkPassword(p)),
           Start(w, op, a, p, known, accepted)
    PROVE  Inv'
<1> DEFINE j == [pc |-> IF accepted THEN "query" ELSE "done", op |-> op, account |-> a,
                 password |-> p, success |-> FALSE, known |-> known, failed |-> FALSE]
<1>1. j \in Job /\ job' = [job EXCEPT ![w] = j]
    BY AccountsAssumption DEF Start, Job
<1>2. /\ job' \in [Workers -> Job]
      /\ job'[w] = j
      /\ \A v \in Workers \ {w} : job'[v] = job[v]
    <2> HIDE DEF j
    <2> QED
        BY <1>1, JobType
<1>3. UNCHANGED <<table, conn, ub>>
    BY DEF Start
<1>4. WorkerOK(w)'
    <2>1. Checked(w)'
        BY <1>2 DEF Checked, InLibrary
    <2>2. KnownStays(w)'
        BY <1>2, <1>3 DEF KnownStays, Registered
    <2>3. RowsAreOwn(w)' /\ InsertsUnknown(w)'
        BY <1>2 DEF RowsAreOwn, InsertsUnknown
    <2>4. AnswerAgrees(w)'
        BY <1>2 DEF AnswerAgrees
    <2> QED
        BY <2>1, <2>2, <2>3, <2>4 DEF WorkerOK
<1>5. job'[w].pc # "store"
    BY <1>2
<1> QED
    BY <1>2, <1>3, <1>4, <1>5, OneMoves DEF Inv, AccountsTypeOK

\* What a step of w needs of Inv.
LEMMA Facts ==
    ASSUME Inv, NEW w \in Workers
    PROVE  /\ job[w] \in Job /\ WorkerOK(w)
           /\ table \subseteq ValidRows
           /\ conn \in [pending : BOOLEAN, rows : SUBSET ValidRows]
           /\ ub \in BOOLEAN
           /\ job[w].pc = "store" => \A v \in Workers \ {w} : job[v].pc # "store"
    BY DEF Inv, AccountsTypeOK, OneStores

\* A select that failed, or that found nothing for a registration.
LEMMA RefusedInv ==
    ASSUME Inv, NEW w \in Workers, job[w].pc \in {"query", "store"},
           NEW failed \in BOOLEAN,
           \/ failed /\ SelectFails(w)
           \/ RegisterUser(w, failed) /\ job[w].op = "REGISTER" /\ (job[w].known => failed),
           UNCHANGED <<table, ub>>,
           conn' \in [pending : BOOLEAN, rows : SUBSET ValidRows],
           conn' # conn => job[w].pc = "store"
    PROVE  Inv'
<1> DEFINE next == IF job[w].op = "REGISTER" /\ checkPassword(job[w].password)
                   THEN "insert" ELSE "done"
           j == [job[w] EXCEPT !.pc = next, !.failed = failed]
<1>1. job[w] \in Job /\ WorkerOK(w)
    BY Facts
<1>2. job' = [job EXCEPT ![w] = j] /\ j \in Job
    <2>1. job[w].op \in {"LOGIN", "REGISTER"}
        BY <1>1 DEF Job
    <2>2. job' = [job EXCEPT ![w] = j]
        <3>1. job \in [Workers -> Job]
            BY DEF Inv, AccountsTypeOK
        <3> QED
            BY <2>1, <3>1, <1>1 DEF SelectFails, RegisterUser, Job
    <2> QED
        BY <1>1, <2>2 DEF Job
<1>3. /\ job' \in [Workers -> Job]
      /\ job'[w] = j
      /\ \A v \in Workers \ {w} : job'[v] = job[v]
    <2> HIDE DEF j
    <2> QED
        BY <1>2, JobType
<1>4. /\ j.pc = next /\ j.failed = failed /\ j.op = job[w].op
      /\ j.account = job[w].account /\ j.password = job[w].password
      /\ j.known = job[w].known /\ j.success = job[w].success
    BY <1>1 DEF Job
<1>5. InLibrary(w) /\ (failed \/ ~job[w].known)
    BY DEF InLibrary
<1> HIDE DEF j
<1>6. WorkerOK(w)'
    <2>1. Checked(w)'
        BY <1>1, <1>3, <1>4, <1>5 DEF Checked, InLibrary, WorkerOK
    <2>2. KnownStays(w)'
        BY <1>1, <1>3, <1>4 DEF KnownStays, WorkerOK, Registered
    <2>3. RowsAreOwn(w)' /\ InsertsUnknown(w)'
        BY <1>3, <1>4, <1>5 DEF RowsAreOwn, InsertsUnknown
    <2>4. AnswerAgrees(w)'
        BY <1>1, <1>3, <1>4, <1>5 DEF AnswerAgrees, Checked, WorkerOK
    <2> QED
        BY <2>1, <2>2, <2>3, <2>4 DEF WorkerOK
<1> QED
    BY <1>3, <1>4, <1>6, Facts, OneMoves

\* Worker w returns an answer that agrees with the table.
LEMMA ReturnInv ==
    ASSUME Inv, NEW w \in Workers, InLibrary(w), NEW success \in BOOLEAN,
           Return(w, success), UNCHANGED ub,
           table \subseteq table', table' \subseteq ValidRows,
           conn' \in [pending : BOOLEAN, rows : SUBSET ValidRows],
           conn' # conn => job[w].pc = "store",
           success => Row(job[w].account, job[w].password) \in table',
           ~success /\ job[w].op = "LOGIN" /\ job[w].known => job[w].account.value = 0,
           success /\ job[w].op = "REGISTER" /\ job[w].known => job[w].failed,
           success /\ job[w].op = "LOGIN" => job[w].account.value # 0
    PROVE  Inv'
<1> DEFINE j == [job[w] EXCEPT !.pc = "done", !.success = success]
<1>1. job[w] \in Job /\ WorkerOK(w)
    BY Facts
<1>2. job' = [job EXCEPT ![w] = j] /\ j \in Job
    <2>1. job \in [Workers -> Job]
        BY DEF Inv, AccountsTypeOK
    <2> QED
        BY <1>1, <2>1 DEF Return, Job
<1>3. /\ job' \in [Workers -> Job]
      /\ job'[w] = j
      /\ \A v \in Workers \ {w} : job'[v] = job[v]
    <2> HIDE DEF j
    <2> QED
        BY <1>2, JobType
<1>4. /\ j.pc = "done" /\ j.failed = job[w].failed /\ j.op = job[w].op
      /\ j.account = job[w].account /\ j.password = job[w].password
      /\ j.known = job[w].known /\ j.success = success
    BY <1>1 DEF Job
<1> HIDE DEF j
<1>5. WorkerOK(w)'
    <2>1. Checked(w)'
        BY <1>3, <1>4 DEF Checked, InLibrary
    <2>2. KnownStays(w)'
        BY <1>1, <1>3, <1>4 DEF KnownStays, WorkerOK, Registered, InLibrary
    <2>3. RowsAreOwn(w)' /\ InsertsUnknown(w)'
        BY <1>3, <1>4 DEF RowsAreOwn, InsertsUnknown
    <2>4. AnswerAgrees(w)'
        BY <1>1, <1>3, <1>4 DEF AnswerAgrees
    <2> QED
        BY <2>1, <2>2, <2>3, <2>4 DEF WorkerOK
<1> QED
    BY <1>3, <1>4, <1>5, Facts, OneMoves

LEMMA QueryUserInv ==
    ASSUME Inv, NEW w \in Workers, QueryUser(w)
    PROVE  Inv'
<1>1. CASE SelectFails(w) /\ UNCHANGED conn
    BY <1>1, RefusedInv, Facts DEF QueryUser
<1>2. ASSUME ~conn.pending, conn' = [pending |-> TRUE, rows |-> Selected(w)],
             job' = [job EXCEPT ![w].pc = "store"]
      PROVE  Inv'
    <2> DEFINE j == [job[w] EXCEPT !.pc = "store"]
    <2>1. job[w] \in Job /\ WorkerOK(w) /\ job[w].pc = "query"
        BY Facts DEF QueryUser
    <2>2. job' = [job EXCEPT ![w] = j] /\ j \in Job
        BY <1>2, <2>1 DEF Job
    <2>3. /\ job' \in [Workers -> Job]
          /\ job'[w] = j
          /\ \A v \in Workers \ {w} : job'[v] = job[v]
        <3> HIDE DEF j
        <3> QED
            BY <2>2, JobType
    <2>4. /\ j.pc = "store" /\ j.failed = job[w].failed /\ j.op = job[w].op
          /\ j.account = job[w].account /\ j.password = job[w].password
          /\ j.known = job[w].known /\ j.success = job[w].success
        BY <2>1 DEF Job
    <2> HIDE DEF j
    <2>5. \A v \in Workers : job[v].pc # "store"
        BY <1>2, Facts DEF WorkerOK, RowsAreOwn
    <2>6. Selected(w)' = Selected(w) /\ UNCHANGED <<table, ub>>
        BY <2>3, <2>4 DEF QueryUser, Selected
    <2>7. WorkerOK(w)'
        <3>1. Checked(w)'
            BY <2>1, <2>3, <2>4 DEF Checked, InLibrary, WorkerOK
        <3>2. KnownStays(w)'
            BY <2>1, <2>3, <2>4, <2>6 DEF KnownStays, WorkerOK, Registered
        <3>3. RowsAreOwn(w)'
            <4>1. ASSUME job[w].known
                  PROVE  Selected(w) # {}
                <5>1. job[w].op \in {"LOGIN", "REGISTER"}
                    BY <2>1 DEF Job
                <5> QED
                    BY <4>1, <2>1, <5>1 DEF WorkerOK, KnownStays, Registered, Selected, Row
            <4> QED
                BY <1>2, <2>3, <2>4, <2>6, <4>1 DEF RowsAreOwn
        <3>4. InsertsUnknown(w)' /\ AnswerAgrees(w)'
            BY <2>3, <2>4 DEF InsertsUnknown, AnswerAgrees
        <3> QED
            BY <3>1, <3>2, <3>3, <3>4 DEF WorkerOK
    <2>8. conn' \in [pending : BOOLEAN, rows : SUBSET ValidRows]
        BY <1>2, Facts DEF Selected
    <2> QED
        BY <2>3, <2>5, <2>6, <2>7, <2>8, Facts, OneMoves
<1> QED
    BY <1>1, <1>2 DEF QueryUser

LEMMA StoreResultInv ==
    ASSUME Inv, NEW w \in Workers, StoreResult(w)
    PROVE  Inv'
<1>1. /\ job[w] \in Job /\ WorkerOK(w) /\ table \subseteq ValidRows
      /\ job[w].pc = "store" /\ UNCHANGED <<table, ub>>
    BY Facts DEF StoreResult
<1>2. conn' \in [pending : BOOLEAN, rows : SUBSET ValidRows]
    BY DEF StoreResult, NoResult
<1>3. /\ conn.rows \subseteq Selected(w)
      /\ job[w].known => conn.rows # {}
    BY <1>1 DEF WorkerOK, RowsAreOwn
<1>4. CASE SelectFails(w)
    BY <1>1, <1>2, <1>4, RefusedInv
<1>5. CASE job[w].op = "LOGIN" /\ Return(w, conn.rows # {} /\ job[w].account.value # 0)
    <2>1. ASSUME conn.rows # {}
          PROVE  Row(job[w].account, job[w].password) \in table
        <3>1. PICK r \in table : /\ r.account = job[w].account.value
                                 /\ r.password = job[w].password.id
            BY <1>3, <1>5, <2>1 DEF Selected
        <3>2. r = Row(job[w].account, job[w].password)
            BY <1>1, <3>1 DEF ValidRows, Row
        <3> QED
            BY <3>1, <3>2
    <2> QED
        BY <1>1, <1>2, <1>3, <1>5, <2>1, ReturnInv DEF InLibrary
<1>6. CASE job[w].op = "REGISTER" /\ conn.rows # {} /\ Return(w, FALSE)
    BY <1>1, <1>2, <1>6, ReturnInv DEF InLibrary
<1>7. CASE job[w].op = "REGISTER" /\ conn.rows = {} /\ RegisterUser(w, FALSE)
    BY <1>1, <1>2, <1>3, <1>7, RefusedInv
<1> QED
    BY <1>4, <1>5, <1>6, <1>7 DEF StoreResult

LEMMA InsertUserInv ==
    ASSUME Inv, NEW w \in Workers, InsertUser(w)
    PROVE  Inv'
<1> DEFINE row == Row(job[w].account, job[w].password)
<1>1. WorkerOK(w) /\ InLibrary(w) /\ job[w].pc = "insert" /\ UNCHANGED <<conn, ub>>
    BY Facts DEF InsertUser, InLibrary
<1>2. row \in ValidRows
    BY <1>1 DEF WorkerOK, Checked, ValidRows
<1>3. job[w].op = "REGISTER" /\ (job[w].known => job[w].failed)
    BY <1>1 DEF WorkerOK, Checked, InsertsUnknown
<1> HIDE DEF row
<1>4. CASE table' = table \union {row} /\ Return(w, TRUE)
    <2>1. table \subseteq table' /\ table' \subseteq ValidRows /\ row \in table'
        BY <1>2, <1>4, Facts
    <2> QED
        BY <1>1, <1>3, <1>4, <2>1, Facts, ReturnInv DEF row
<1>5. CASE Return(w, FALSE) /\ UNCHANGED table
    BY <1>1, <1>3, <1>5, Facts, ReturnInv
<1> QED
    BY <1>4, <1>5 DEF InsertUser, row

LEMMA FinishInv ==
    ASSUME Inv, NEW w \in Workers, Finish(w)
    PROVE  Inv'
<1> DEFINE j == [job[w] EXCEPT !.pc = "idle"]
<1>1. job[w] \in Job
    BY Facts
<1>2. job' = [job EXCEPT ![w] = j] /\ j \in Job /\ j.pc = "idle"
    BY <1>1 DEF Finish, Job
<1>3. /\ job' \in [Workers -> Job]
      /\ job'[w] = j
      /\ \A v \in Workers \ {w} : job'[v] = job[v]
    <2> HIDE DEF j
    <2> QED
        BY <1>2, JobType
<1>4. WorkerOK(w)'
    BY <1>2, <1>3 DEF WorkerOK, Checked, InLibrary, KnownStays, RowsAreOwn, InsertsUnknown,
                      AnswerAgrees
<1> QED
    BY <1>2, <1>3, <1>4, Facts, OneMoves DEF Finish

LEMMA CheckLoginInv ==
    ASSUME Inv, NEW w \in Workers, NEW a \in AccountTexts, NEW p \in PasswordTexts,
           CheckLogin(w, a, p)
    PROVE  Inv'
<1> DEFINE known    == Row(a, p) \in table
           accepted == checkAccount(a) /\ checkPassword(p)
<1>1. known \in BOOLEAN /\ (known => Row(a, p) \in table)
    OBVIOUS
<1>2. accepted \in BOOLEAN /\ (accepted <=> checkAccount(a) /\ checkPassword(p))
    BY AccountsAssumption DEF checkAccount, checkPassword, AccountText, PasswordText
<1>3. Start(w, "LOGIN", a, p, known, accepted)
    BY DEF CheckLogin
<1> HIDE DEF known, accepted
<1> QED
    BY <1>1, <1>2, <1>3, StartInv

LEMMA IsRegisteredInv ==
    ASSUME Inv, NEW w \in Workers, NEW a \in AccountTexts, NEW p \in PasswordTexts,
           IsRegistered(w, a, p)
    PROVE  Inv'
<1>1. checkAccount(a) \in BOOLEAN /\ Registered(a.value) \in BOOLEAN
    BY AccountsAssumption DEF checkAccount, AccountText, Registered
<1> QED
    BY <1>1, StartInv DEF IsRegistered

LEMMA UnchangedInv ==
    ASSUME Inv, UNCHANGED <<table, conn, job>>, ub' \in BOOLEAN
    PROVE  Inv'
<1>1. \A v \in Workers : WorkerOK(v)'
    BY Undisturbed DEF Inv
<1> QED
    BY <1>1 DEF Inv, AccountsTypeOK, OneStores

LEMMA StepInv == Inv /\ [AccountsNext]_accountVars => Inv'
<1> SUFFICES ASSUME Inv, [AccountsNext]_accountVars PROVE Inv'
    OBVIOUS
<1>1. ASSUME NEW w \in Workers, NEW a \in AccountTexts, NEW p \in PasswordTexts,
             CheckLogin(w, a, p) \/ IsRegistered(w, a, p)
      PROVE  Inv'
    BY <1>1, CheckLoginInv, IsRegisteredInv
<1>2. ASSUME NEW w \in Workers, DatabaseStep(w) PROVE Inv'
    BY <1>2, QueryUserInv, StoreResultInv, InsertUserInv DEF DatabaseStep
<1>3. ASSUME NEW w \in Workers, Finish(w) PROVE Inv'
    BY <1>3, FinishInv
<1>4. CASE ConnectorRace
    BY <1>4, UnchangedInv DEF ConnectorRace
<1>5. CASE UNCHANGED accountVars
    BY <1>5, UnchangedInv DEF accountVars, Inv, AccountsTypeOK
<1> QED
    BY <1>1, <1>2, <1>3, <1>4, <1>5 DEF AccountsNext

LEMMA InvAlways == AccountsSpec => []Inv
<1>1. AccountsInit => Inv
    BY InitInv
<1>2. Inv /\ [AccountsNext]_accountVars => Inv'
    BY StepInv
<1> QED
    BY <1>1, <1>2, PTL DEF AccountsSpec

-----------------------------------------------------------------------------

\* The table has valid rows only, and whatever is pending on the connection are rows of
\* it (UserManage's checks before each call of MySQLConnector).
THEOREM AccountsTypeCorrect == AccountsSpec => []AccountsTypeOK
<1>1. Inv => AccountsTypeOK
    BY DEF Inv
<1> QED
    BY <1>1, InvAlways, PTL

\* checkLogin and registerUser return a success only for an account and a password that
\* are in the table, for any number of workers that share the connection, as long as no
\* two of their calls into the library overlap: after such a pair nothing is claimed (ub).
THEOREM SuccessAlwaysStored == AccountsSpec => []SuccessIsStored
<1>1. Inv => SuccessIsStored
    BY DEF Inv, WorkerOK, AnswerAgrees, SuccessIsStored
<1> QED
    BY <1>1, InvAlways, PTL

\* Who is in the table and is refused has the account 0, or a select failed (checkLogin).
THEOREM RefusedAlwaysUnknown == AccountsSpec => []RefusedIsUnknown
<1>1. Inv => RefusedIsUnknown
    BY DEF Inv, WorkerOK, AnswerAgrees, RefusedIsUnknown
<1> QED
    BY <1>1, InvAlways, PTL

\* Nobody registers an account that was there before, but for a select that failed
\* (isRegistered, registerUser).
THEOREM AlwaysRegisteredOnce == AccountsSpec => []RegisteredOnce
<1>1. Inv => RegisteredOnce
    BY DEF Inv, WorkerOK, AnswerAgrees, RegisteredOnce
<1> QED
    BY <1>1, InvAlways, PTL
=============================================================================
