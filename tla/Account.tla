------------------------------ MODULE Account -------------------------------
(***************************************************************************)
(* Accounts: verification codes (VarifyServer), registration, password     *)
(* reset and login (GateServer), tokens (StatusServer, LoginHandler).      *)
(*                                                                         *)
(* A client makes one call after the other; the handlers of different      *)
(* clients run on different threads.  A step is one Redis command, one SQL *)
(* statement or transaction end, or the sending of a mail.                 *)
(***************************************************************************)
EXTENDS Integers, FiniteSets

CONSTANTS
  Client,     \* browsers
  Name,       \* account names
  Email,      \* mailboxes; each has one reader, who has one password
  Code,       \* verification codes
  None,
  Unique,     \* the table user has unique keys on name and on email
  Settings,   \* bound: who uses which browser, and the rows at the start
  MaxUid,     \* bound: uids that can be given out
  MaxCalls,   \* bound: calls of each client
  MaxFaults   \* bound: crashes of VarifyServer and commands it sees rejected

ASSUME AccountAssumption ==
  /\ None \notin Code \cup Client \cup Email
  /\ Unique \in BOOLEAN
  /\ \A s \in Settings :
       /\ s.owner \in [Client -> Email]
       /\ s.rows \subseteq [uid : {1}, name : Name, email : Email, pwd : Email]
       /\ \A u \in s.rows : u.pwd = u.email /\ s.rows = {u}
  /\ MaxUid \in Nat \ {0} /\ MaxCalls \in Nat /\ MaxFaults \in Nat

VARIABLES
  owner,    \* the mailbox of a browser's user; never changes
  code,     \* Redis code_<email>: its value and whether it has a TTL
  issued,   \* codes created so far: createCode repeats none
  mails,    \* the codes mailed to an address
  users,    \* the table user, committed
  userId,   \* the table user_id, committed
  idLock,   \* the client whose transaction holds the row of user_id
  utoken,   \* Redis utoken_<uid>
  pc,       \* what the call of a client does next
  req,      \* what it asked: name, email, code
  local,    \* what its handler has computed: a code, a uid
  token,    \* the token a client has, and the uid it is for
  outcome,  \* of its last chat login: "", "accepted", "rejected"
  tokens,   \* tokens issued
  calls, faults,
  orphans   \* addresses whose code lost its EXPIRE to a fault

verifyVars == <<code, issued, mails, orphans, faults>>
tokenVars == <<utoken, tokens, token, outcome>>
mysqlVars == <<users, userId, idLock>>
callVars == <<req, local, calls>>
vars == <<owner, verifyVars, tokenVars, mysqlVars, callVars, pc>>

Uid == 1 .. MaxUid

NoCode == [val |-> None, ttl |-> FALSE]

Init ==
  /\ code = [e \in Email |-> NoCode] /\ issued = {}
  /\ mails = [e \in Email |-> {}]
  /\ \E s \in Settings :
       owner = s.owner /\ users = s.rows /\ userId = Cardinality(s.rows)
  /\ idLock = None
  /\ utoken = [i \in Uid |-> 0] /\ tokens = 0
  /\ pc = [c \in Client |-> "out"]
  /\ req = [c \in Client |-> None] /\ local = [c \in Client |-> None]
  /\ token = [c \in Client |-> None] /\ outcome = [c \in Client |-> ""]
  /\ calls = [c \in Client |-> 0] /\ faults = 0 /\ orphans = {}

-----------------------------------------------------------------------------
Goto(c, step) == pc' = [pc EXCEPT ![c] = step]

Call(c, step, request) ==
  /\ pc[c] = "out" /\ calls[c] < MaxCalls
  /\ calls' = [calls EXCEPT ![c] = @ + 1]
  /\ req' = [req EXCEPT ![c] = request]
  /\ Goto(c, step)

-----------------------------------------------------------------------------
(* Verification codes: GetVarifyCode.                                      *)

(* The handler of /get_varifycode calls VarifyServer, which makes a code.  *)
AskCode(c) ==
  /\ \E e \in Email : Call(c, "set", [email |-> e])
  /\ \E k \in Code \ issued :
       issued' = issued \cup {k} /\ local' = [local EXCEPT ![c] = k]
  /\ UNCHANGED <<owner, tokenVars, mysqlVars, code, mails, faults, orphans>>

(* Mutant: a key that is there is thought to keep its TTL.                 *)
ThenIfNew(c) == IF code[req[c].email].val = None THEN "expire" ELSE "mail"

Then(c) == "expire"

(* SetRedisExpire: SET makes a key without a TTL, whatever it was before.  *)
Write(c) ==
  code' = [code EXCEPT ![req[c].email] = [val |-> local[c], ttl |-> FALSE]]

(* EXPIRE is on the key, whoever has set it.                               *)
SetTTL(c) == code' = [code EXCEPT ![req[c].email].ttl = code[req[c].email].val # None]

SetCode(c) ==
  /\ pc[c] = "set" /\ Goto(c, Then(c))
  /\ Write(c)
  /\ orphans' = orphans \ {req[c].email}
  /\ UNCHANGED <<owner, tokenVars, mysqlVars, callVars, issued, mails,
                 faults>>

ExpireCode(c) ==
  /\ pc[c] = "expire" /\ Goto(c, "mail")
  /\ SetTTL(c)
  /\ orphans' = orphans \ {req[c].email}
  /\ UNCHANGED <<owner, tokenVars, mysqlVars, callVars, issued, mails,
                 faults>>

Fault == faults < MaxFaults /\ faults' = faults + 1

(* A command is rejected, before or after it took effect: SetRedisExpire   *)
(* returns false, and the handler answers RedisErr and sends no mail.      *)
SetFails(c) ==
  /\ pc[c] = "set" /\ Goto(c, "out") /\ Fault
  /\ \/ UNCHANGED <<code, orphans>>
     \/ Write(c) /\ orphans' = orphans \cup {req[c].email}
  /\ UNCHANGED <<owner, tokenVars, mysqlVars, callVars, issued, mails>>

ExpireFails(c) ==
  /\ pc[c] = "expire" /\ Goto(c, "out") /\ Fault
  /\ \/ UNCHANGED code /\ orphans' = orphans \cup {req[c].email}
     \/ SetTTL(c) /\ orphans' = orphans \ {req[c].email}
  /\ UNCHANGED <<owner, tokenVars, mysqlVars, callVars, issued, mails>>

(* The mail arrives, or SMTP refuses it.                                   *)
SendMail(c) ==
  /\ pc[c] = "mail" /\ Goto(c, "out")
  /\ \/ mails' = [mails EXCEPT ![req[c].email] = @ \cup {local[c]}]
     \/ UNCHANGED mails
  /\ UNCHANGED <<owner, tokenVars, mysqlVars, callVars, code, issued, faults,
                 orphans>>

(* VarifyServer stops; GateServer answers its callers with an error.       *)
Crash ==
  /\ Fault
  /\ orphans' = orphans \cup {e \in Email :
                     \E c \in Client : pc[c] = "expire" /\ req[c].email = e}
  /\ pc' = [c \in Client |->
              IF pc[c] \in {"set", "expire", "mail"} THEN "out" ELSE pc[c]]
  /\ UNCHANGED <<owner, tokenVars, mysqlVars, callVars, code, issued, mails>>

(* 60 s have passed.                                                       *)
CodeEnds(e) ==
  /\ code[e].val # None /\ code[e].ttl
  /\ code' = [code EXCEPT ![e] = NoCode]
  /\ UNCHANGED <<owner, tokenVars, mysqlVars, callVars, issued, mails, pc,
                 faults, orphans>>

-----------------------------------------------------------------------------
(* Registration: /user_register and RegUserTransaction.                    *)

(* A form with any name and address and a code from the client's mailbox.  *)
Form(c) == [name : Name, email : Email, code : mails[owner[c]]]

AskRegister(c) ==
  /\ \E f \in Form(c) : Call(c, "regCode", f)
  /\ UNCHANGED <<owner, verifyVars, tokenVars, mysqlVars, local>>

(* Mutant: the code is looked up under any address.                        *)
SomeCode(c) == \E e \in Email : code[e].val = req[c].code

CodeMatches(c) == code[req[c].email].val = req[c].code

RegCheckCode(c) ==
  /\ pc[c] = "regCode"
  /\ Goto(c, IF CodeMatches(c) THEN "regSelect" ELSE "out")
  /\ UNCHANGED <<owner, verifyVars, tokenVars, mysqlVars, callVars>>

Taken(f) == \E u \in users : u.email = f.email \/ u.name = f.name

(* The two SELECTs read the snapshot of the transaction.                   *)
RegSelect(c) ==
  /\ pc[c] = "regSelect"
  /\ Goto(c, IF Taken(req[c]) THEN "out" ELSE "regId")
  /\ UNCHANGED <<owner, verifyVars, tokenVars, mysqlVars, callVars>>

(* Mutant: the id is read without updating it first.                       *)
IdReadable == TRUE

(* UPDATE user_id waits for the row until the other transaction has ended. *)
IdFree == idLock = None

RegNextId(c) ==
  /\ pc[c] = "regId" /\ IdFree /\ userId < MaxUid
  /\ Goto(c, "regInsert")
  /\ idLock' = c /\ local' = [local EXCEPT ![c] = userId + 1]
  /\ UNCHANGED <<owner, verifyVars, tokenVars, users, userId, req, calls>>

(* INSERT and COMMIT.  Or all is rolled back, the id too: a unique key      *)
(* refuses the row, or the connection fails.                               *)
RegInsert(c) ==
  /\ pc[c] = "regInsert" /\ Goto(c, "out")
  /\ idLock' = None
  /\ \/ UNCHANGED <<users, userId>>
     \/ /\ ~(Unique /\ Taken(req[c]))
        /\ users' = users \cup {[uid |-> local[c], name |-> req[c].name,
                                 email |-> req[c].email, pwd |-> owner[c]]}
        /\ userId' = local[c]
  /\ UNCHANGED <<owner, verifyVars, tokenVars, callVars>>

-----------------------------------------------------------------------------
(* Password reset: /reset_pwd, CheckEmail, UpdatePwd.                      *)

AskReset(c) ==
  /\ \E f \in Form(c) : Call(c, "rstCode", f)
  /\ UNCHANGED <<owner, verifyVars, tokenVars, mysqlVars, local>>

RstCheckCode(c) ==
  /\ pc[c] = "rstCode"
  /\ Goto(c, IF CodeMatches(c) THEN "rstEmail" ELSE "out")
  /\ UNCHANGED <<owner, verifyVars, tokenVars, mysqlVars, callVars>>

(* CheckEmail looks at the first row with the name.                        *)
RstCheckEmail(c) ==
  /\ pc[c] = "rstEmail"
  /\ \/ \E u \in users : u.name = req[c].name /\
           Goto(c, IF u.email = req[c].email THEN "rstUpdate" ELSE "out")
     \/ (\A u \in users : u.name # req[c].name) /\ Goto(c, "out")
  /\ UNCHANGED <<owner, verifyVars, tokenVars, mysqlVars, callVars>>

(* UpdatePwd changes every row with the name.                              *)
RstUpdate(c) ==
  /\ pc[c] = "rstUpdate" /\ Goto(c, "out")
  /\ LET hit == {u \in users : u.name = req[c].name}
     IN  users' = (users \ hit) \cup {[u EXCEPT !.pwd = owner[c]] : u \in hit}
  /\ UNCHANGED <<owner, verifyVars, tokenVars, callVars, userId, idLock>>

-----------------------------------------------------------------------------
(* Login: /user_login, GetChatServer, and the check in LoginHandler.       *)

AskLogin(c) ==
  /\ \E e \in Email : Call(c, "lgPwd", [email |-> e])
  /\ token' = [token EXCEPT ![c] = None]
  /\ outcome' = [outcome EXCEPT ![c] = ""]
  /\ UNCHANGED <<owner, verifyVars, mysqlVars, utoken, tokens, local>>

(* CheckPwd: the password of the first row with the address.               *)
CheckPwd(c) ==
  /\ pc[c] = "lgPwd"
  /\ \/ \E u \in users :
           /\ u.email = req[c].email
           /\ Goto(c, IF u.pwd = owner[c] THEN "lgToken" ELSE "out")
           /\ local' = [local EXCEPT ![c] = u.uid]
     \/ /\ \A u \in users : u.email # req[c].email
        /\ Goto(c, "out") /\ UNCHANGED local
  /\ UNCHANGED <<owner, verifyVars, tokenVars, mysqlVars, req, calls>>

(* Mutant: the counter is increased once more.                             *)
StoreNext(uid, t) == utoken' = [utoken EXCEPT ![uid] = t + 1]

(* Mutant: a token that is there is kept.                                  *)
StoreFirst(uid, t) ==
  utoken' = [utoken EXCEPT ![uid] = IF @ = 0 THEN t ELSE @]

Store(uid, t) == utoken' = [utoken EXCEPT ![uid] = t]

(* GetChatServer makes a new token, stores it and replies with it.         *)
GetChatServer(c) ==
  /\ pc[c] = "lgToken" /\ Goto(c, "chat")
  /\ tokens' = tokens + 1
  /\ Store(local[c], tokens + 1)
  /\ token' = [token EXCEPT ![c] = [uid |-> local[c], val |-> tokens + 1]]
  /\ UNCHANGED <<owner, verifyVars, mysqlVars, callVars, outcome>>

(* LoginHandler compares it with utoken_<uid>.                             *)
ChatLogin(c) ==
  /\ pc[c] = "chat" /\ Goto(c, "out")
  /\ outcome' = [outcome EXCEPT ![c] =
                   IF utoken[token[c].uid] = token[c].val
                   THEN "accepted" ELSE "rejected"]
  /\ UNCHANGED <<owner, verifyVars, mysqlVars, callVars, utoken, tokens,
                 token>>

-----------------------------------------------------------------------------
Step(c) ==
  \/ AskCode(c) \/ SetCode(c) \/ ExpireCode(c) \/ SendMail(c)
  \/ SetFails(c) \/ ExpireFails(c)
  \/ AskRegister(c) \/ RegCheckCode(c) \/ RegSelect(c)
  \/ RegNextId(c) \/ RegInsert(c)
  \/ AskReset(c) \/ RstCheckCode(c) \/ RstCheckEmail(c) \/ RstUpdate(c)
  \/ AskLogin(c) \/ CheckPwd(c) \/ GetChatServer(c) \/ ChatLogin(c)

Next ==
  \/ \E c \in Client : Step(c)
  \/ Crash
  \/ \E e \in Email : CodeEnds(e)

Spec == Init /\ [][Next]_vars

-----------------------------------------------------------------------------
Calls == {"out", "set", "expire", "mail", "regCode", "regSelect", "regId",
          "regInsert", "rstCode", "rstEmail", "rstUpdate", "lgPwd", "lgToken",
          "chat"}

TypeOK ==
  /\ code \in [Email -> [val : Code \cup {None}, ttl : BOOLEAN]]
  /\ issued \subseteq Code /\ mails \in [Email -> SUBSET issued]
  /\ users \subseteq [uid : Uid, name : Name, email : Email, pwd : Email]
  /\ idLock \in Client \cup {None}
  /\ userId \in Uid \cup {0}
  /\ utoken \in [Uid -> 0 .. tokens]
  /\ pc \in [Client -> Calls]

(* Every code has a TTL, or the VarifyServer that set it is about to give  *)
(* it one, or has crashed or had a command rejected in between             *)
(* (SetRedisExpire).                                                       *)
CodeExpires ==
  \A e \in Email :
    code[e].val # None /\ ~code[e].ttl =>
      e \in orphans \/ \E c \in Client : pc[c] = "expire" /\ req[c].email = e

(* With unique keys, the password of an account was chosen by the reader   *)
(* of its mailbox, however codes, names and addresses are mixed up in      *)
(* forms and however calls overlap (user_register, reset_pwd).             *)
PasswordOwned == Unique => \A u \in users : u.pwd = u.email

(* Registrations that overlap get different uids (RegUserTransaction).     *)
UidsDistinct == \A u, v \in users : u.uid = v.uid => u = v

(* A chat login is rejected only if a later login of the same account has  *)
(* replaced its token: the token is valid before it is handed out, and     *)
(* exactly the last one is (GetChatServer, LoginHandler).                  *)
RejectedOnlyIfReplaced ==
  \A c \in Client :
    outcome[c] = "rejected" => utoken[token[c].uid] > token[c].val

Accounts == INSTANCE Directory WITH mailed <- {e \in Email : mails[e] # {}}

(* The handlers and VarifyServer do what Directory promises: a row is      *)
(* inserted or its password set only for who has been mailed a code at its *)
(* address, and rows neither vanish nor change otherwise (user_register,   *)
(* reset_pwd).                                                             *)
DirectorySpec == Accounts!Spec
=============================================================================
