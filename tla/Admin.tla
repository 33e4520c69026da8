------------------------------- MODULE Admin -------------------------------
(* internal/admin and internal/auth: the telnet port.  Per connection a     *)
(* goroutine reads lines and one (handle) hands them to the dispatcher, a   *)
(* line at a time: Exec queues a closure and waits until it has run.  The   *)
(* closure logs in, adds users, changes passwords, and writes to the        *)
(* socket, where a client that does not read holds up the dispatcher.       *)
(* botje adduser is a process of its own that writes the same table.        *)
EXTENDS Integers, FiniteSets, Sequences

CONSTANTS
    Clients,        \* connections
    Names, Passwords, TooLong,  \* TooLong: what bcrypt refuses to hash
    superName, superPass,       \* BOTJE_SUPERUSER
    Inputs,         \* lines people type, see Line
    CliPasswords,   \* what botje adduser is called with
    maxTries,
    Buffer,         \* answers a socket holds that nobody reads
    MaxLines, MaxAhead, MaxFails, MaxBoots, MaxRuns

Line == [verb : {"word", "quit", "adduser", "passwd"}, name : Names \cup Passwords \cup {superName},
         pass : Passwords]
AdminConstants ==
    /\ IsFiniteSet(Clients) /\ Inputs \subseteq Line
    /\ \A l \in Inputs : l.verb \in {"adduser", "passwd"} => l.name \in Names
    /\ TooLong \subseteq Passwords /\ CliPasswords \subseteq Passwords \ TooLong
    /\ maxTries \in Nat \ {0} /\ Buffer \in Nat \ {0}
    /\ {MaxLines, MaxAhead, MaxFails, MaxBoots, MaxRuns} \subseteq Nat

VARIABLES
    \* a connection: the client's side, what it typed that handle has not
    \* taken, the answers it has not read, the session, what handle is at
    client, typed, unread, sess, handler,
    work,           \* Seq of [client, line]: the closures in the work channel
    stuck,          \* clients the dispatcher is writing to: none or one
    users, stored,  \* name -> password: in memory, in the store
    cli,            \* the table botje adduser has read, or NoTable
    lines, fails, boots, runs,
    \* history: lines handled per connection, of which the last said goodbye;
    \* the passwords a name may have: the one acknowledged, and those in doubt
    handled, bye, accept

net == <<client, typed, unread, handler, work, stuck>>
accounts == <<users, stored, accept>>
vars == <<net, sess, accounts, cli, lines, fails, boots, runs, handled, bye>>

NoName == "?"
NoPass == "-"
NoUsers == [n \in {} |-> NoPass]
NoTable == {}                 \* else the table, in a set of its own
Greeted == [state |-> "user", username |-> NoName, su |-> FALSE, tries |-> 0]
Word(line) == IF line.verb = "word" THEN line.name ELSE NoName
Password(table, n) == IF n \in DOMAIN table THEN table[n] ELSE NoPass
Set(table, n, p) == [m \in DOMAIN table \cup {n} |-> IF m = n THEN p ELSE table[m]]

(***************************************************************************)
(* auth                                                                    *)
(***************************************************************************)
Check(name, password) ==
    IF name = superName THEN IF password = superPass THEN "super" ELSE "badpass"
    ELSE IF name \in DOMAIN users /\ users[name] = password THEN "valid" ELSE "refused"

\* Mutant: the table is left for a later change to write.
SetLater(name, password) ==
    /\ users' = Set(users, name, password)
    /\ accept' = [accept EXCEPT ![name] = {password}]
    /\ UNCHANGED <<stored, fails>>

\* Memory is changed before the store, and stays so when the store fails.
setHash(name, password) ==
    IF password \in TooLong THEN UNCHANGED <<accounts, fails>>
    ELSE /\ users' = Set(users, name, password)
         /\ \/ /\ stored' = users' /\ UNCHANGED fails
               /\ accept' = [accept EXCEPT ![name] = {password}]
            \/ /\ fails < MaxFails /\ fails' = fails + 1 /\ UNCHANGED stored
               /\ accept' = [accept EXCEPT ![name] = @ \cup {password}]

AddUser(name, password) ==
    IF name \in DOMAIN users THEN UNCHANGED <<accounts, fails>> ELSE setHash(name, password)
SetPassword(name, password) ==
    IF name \notin DOMAIN users THEN UNCHANGED <<accounts, fails>> ELSE setHash(name, password)

(***************************************************************************)
(* The connection                                                          *)
(***************************************************************************)
Connect(c) ==
    /\ client[c] = "none"
    /\ client' = [client EXCEPT ![c] = "open"]
    /\ handler' = [handler EXCEPT ![c] = "waits"]
    /\ UNCHANGED <<typed, unread, sess, work, stuck, accounts, cli, lines, fails, boots, runs, handled, bye>>

Type(c, line) ==
    /\ client[c] = "open" /\ lines < MaxLines /\ Len(typed[c]) < MaxAhead
    /\ lines' = lines + 1
    /\ typed' = [typed EXCEPT ![c] = Append(@, line)]
    /\ UNCHANGED <<client, unread, sess, handler, work, stuck, accounts, cli, fails, boots, runs, handled, bye>>

\* The client reads what was written, and frees the dispatcher.
Read(c) ==
    /\ unread[c] > 0 /\ client[c] = "open"
    /\ unread' = [unread EXCEPT ![c] = @ - 1]
    /\ stuck' = stuck \ {c}
    /\ UNCHANGED <<client, typed, sess, handler, work, accounts, cli, lines, fails, boots, runs, handled, bye>>

\* The client closes, and what it typed may still come or be lost; to write to
\* it is an error at once.
HangUp(c) ==
    /\ client[c] = "open"
    /\ client' = [client EXCEPT ![c] = "gone"]
    /\ stuck' = stuck \ {c}
    /\ typed' \in {typed, [typed EXCEPT ![c] = <<>>]}
    /\ UNCHANGED <<unread, sess, handler, work, accounts, cli, lines, fails, boots, runs, handled, bye>>

\* Mutant: Exec does not wait for the closure it queued.
Hasty(c) == handler[c] \in {"waits", "posted"}

\* The closure has run, its answer written.
Free(c) == handler[c] = "waits" /\ c \notin stuck

Take(c) ==
    /\ Free(c) /\ typed[c] # <<>>
    /\ work' = Append(work, [client |-> c, line |-> Head(typed[c])])
    /\ typed' = [typed EXCEPT ![c] = Tail(@)]
    /\ handler' = [handler EXCEPT ![c] = "posted"]
    /\ UNCHANGED <<client, unread, sess, stuck, accounts, cli, lines, fails, boots, runs, handled, bye>>

\* handle returns when a line said so or no more lines come: the connection is
\* closed.
Leave(c) ==
    /\ c \notin stuck
    /\ \/ handler[c] = "done"
       \/ handler[c] = "waits" /\ typed[c] = <<>> /\ client[c] = "gone"
    /\ handler' = [handler EXCEPT ![c] = "left"]
    /\ client' = [client EXCEPT ![c] = "gone"]
    /\ UNCHANGED <<typed, unread, sess, work, stuck, accounts, cli, lines, fails, boots, runs, handled, bye>>

(***************************************************************************)
(* The dispatcher                                                          *)
(***************************************************************************)
\* The answer goes to the socket: the dispatcher is stuck while it is full, and
\* handle goes on when the closure has run.
Answer(c, done) ==
    /\ work' = Tail(work)
    /\ handler' = [handler EXCEPT ![c] = IF done THEN "done" ELSE "waits"]
    /\ unread' = [unread EXCEPT ![c] = IF client[c] = "open" THEN @ + 1 ELSE @]
    /\ stuck' = IF client[c] = "open" /\ unread[c] = Buffer THEN {c} ELSE {}
    /\ handled' = [handled EXCEPT ![c] = @ + 1]
    /\ bye' = [bye EXCEPT ![c] = IF done THEN handled[c] + 1 ELSE @]
    /\ UNCHANGED <<client, typed, cli, lines, boots, runs>>

checkLogin(c, password) ==
    LET s == sess[c]
        res == Check(s.username, password) IN
    /\ IF res \in {"valid", "super"}
       THEN /\ sess' = [sess EXCEPT ![c] = [s EXCEPT !.state = "in", !.su = (res = "super")]]
            /\ Answer(c, FALSE)
       ELSE LET done == s.tries + 1 >= maxTries IN
            /\ sess' = [sess EXCEPT ![c] = [s EXCEPT !.tries = @ + 1, !.state = IF done THEN @ ELSE "user"]]
            /\ Answer(c, done)
    /\ UNCHANGED <<accounts, fails>>

dispatch(c, line) ==
    CASE line.verb = "adduser" /\ sess[c].su -> AddUser(line.name, line.pass)
      [] line.verb = "passwd" /\ sess[c].su -> SetPassword(line.name, line.pass)
      [] OTHER -> UNCHANGED <<accounts, fails>>

handleLine ==
    /\ work # <<>> /\ stuck = {}
    /\ LET c == Head(work).client
           line == Head(work).line IN
       CASE sess[c].state = "user" ->
              /\ sess' = [sess EXCEPT ![c] = [@ EXCEPT !.username = Word(line), !.state = "pass"]]
              /\ Answer(c, FALSE) /\ UNCHANGED <<accounts, fails>>
         [] sess[c].state = "pass" -> checkLogin(c, Word(line))
         [] OTHER ->
              /\ IF line.verb = "quit" THEN UNCHANGED <<accounts, fails>> ELSE dispatch(c, line)
              /\ Answer(c, line.verb = "quit") /\ UNCHANGED sess

(***************************************************************************)
(* The process, and the other one                                          *)
(***************************************************************************)
\* The core starts anew, whatever it was at: connections end, the table is read
\* from the store.
Restart ==
    /\ boots < MaxBoots /\ boots' = boots + 1
    /\ client' = [c \in Clients |-> "none"] /\ typed' = [c \in Clients |-> <<>>]
    /\ unread' = [c \in Clients |-> 0] /\ sess' = [c \in Clients |-> Greeted]
    /\ handler' = [c \in Clients |-> "none"] /\ work' = <<>> /\ stuck' = {}
    /\ users' = stored /\ accept' = [n \in Names |-> {Password(stored, n)}]
    /\ handled' = [c \in Clients |-> 0] /\ bye' = [c \in Clients |-> 0]
    /\ UNCHANGED <<stored, cli, lines, fails, runs>>

\* botje adduser: reads the table, and writes it back with one more.
adduserReads ==
    /\ cli = NoTable /\ runs < MaxRuns /\ runs' = runs + 1
    /\ cli' = {stored}
    /\ UNCHANGED <<net, sess, accounts, lines, fails, boots, handled, bye>>
adduserWrites ==
    /\ \E n \in Names, p \in CliPasswords, table \in cli :
          /\ stored' = Set(table, n, p)
          /\ accept' = [m \in Names |-> accept[m] \cup {Password(stored', m)}]
    /\ cli' = NoTable
    /\ UNCHANGED <<net, sess, users, lines, fails, boots, runs, handled, bye>>

------------------------------------------------------------------------------
Init ==
    /\ client = [c \in Clients |-> "none"] /\ typed = [c \in Clients |-> <<>>]
    /\ unread = [c \in Clients |-> 0] /\ sess = [c \in Clients |-> Greeted]
    /\ handler = [c \in Clients |-> "none"] /\ work = <<>> /\ stuck = {}
    /\ users = NoUsers /\ stored = NoUsers /\ accept = [n \in Names |-> {NoPass}]
    /\ cli = NoTable /\ lines = 0 /\ fails = 0 /\ boots = 0 /\ runs = 0
    /\ handled = [c \in Clients |-> 0] /\ bye = [c \in Clients |-> 0]

Next ==
    \/ \E c \in Clients :
          \/ Connect(c) \/ Read(c) \/ HangUp(c) \/ Take(c) \/ Leave(c)
          \/ \E line \in Inputs : Type(c, line)
    \/ handleLine
    \/ Restart \/ adduserReads \/ adduserWrites

Spec == Init /\ [][Next]_vars

------------------------------------------------------------------------------
TypeOK ==
    /\ \A c \in Clients :
          /\ client[c] \in {"none", "open", "gone"} /\ typed[c] \in Seq(Inputs)
          /\ unread[c] \in 0..(Buffer + 1) /\ sess[c].tries \in 0..maxTries
          /\ handler[c] \in {"none", "waits", "posted", "done", "left"}
    /\ stuck \subseteq Clients /\ Cardinality(stuck) <= 1
    /\ DOMAIN users \subseteq Names /\ DOMAIN stored \subseteq Names

Closures(c) == {i \in DOMAIN work : work[i].client = c}

(* A session has one line at a time with the dispatcher, and the one that   *)
(* ends it, be it quit or the last failed login, is its last: whatever was  *)
(* typed behind it is not carried out.                                      *)
LastWord ==
    \A c \in Clients :
        /\ Cardinality(Closures(c)) = IF handler[c] = "posted" THEN 1 ELSE 0
        /\ bye[c] # 0 => handled[c] = bye[c]
        /\ sess[c].tries = maxTries => bye[c] # 0 /\ ~sess[c].su

(* A name opens with the password that was acknowledged last, now and after *)
(* every restart, or with one in doubt since: whose store reported an error *)
(* or that botje adduser wrote meanwhile.  What the port acknowledged is in *)
(* the store.                                                               *)
AccountsKept ==
    \A n \in Names : {Password(users, n), Password(stored, n)} \subseteq accept[n]

(* The port's sessions and its accounts.                                    *)
AdminHolds == LastWord /\ AccountsKept
=============================================================================
