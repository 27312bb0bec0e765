--------------------------- MODULE Account_proofs ---------------------------
(***************************************************************************)
(* Accounts: what holds for any clients, names, mailboxes, codes and       *)
(* bounds.                                                                 *)
(***************************************************************************)
EXTENDS Account, FiniteSetTheorems, TLAPS

(* Steps of VarifyServer, and steps of the two forms before and after      *)
(* their code has been accepted.                                           *)
Verifying == {"set", "expire", "mail"}
Unchecked == {"regCode", "rstCode"}
Checked == {"regSelect", "regId", "regInsert", "rstEmail", "rstUpdate"}

FormSet == [name : Name, email : Email, code : Code]

(* What a call has computed where it is.                                   *)
CallOK(c) ==
  /\ pc[c] \in Verifying => req[c].email \in Email /\ local[c] \in issued
  /\ pc[c] \in Unchecked \cup Checked => req[c] \in FormSet
  /\ pc[c] \in {"regInsert", "lgToken"} => local[c] \in Uid
  /\ pc[c] = "chat" \/ outcome[c] = "rejected" =>
       token[c] \in [uid : Uid, val : 0 .. tokens]

TInv ==
  /\ TypeOK /\ \A c \in Client : CallOK(c)
  /\ owner \in [Client -> Email] /\ issued \subseteq Code
  /\ tokens \in Nat
  /\ req = [c \in Client |-> req[c]] /\ local = [c \in Client |-> local[c]]
  /\ token = [c \in Client |-> token[c]]
  /\ outcome = [c \in Client |-> outcome[c]]

(* Only one registration is between its id and its insertion.              *)
IdInv ==
  /\ \A u \in users : u.uid <= userId
  /\ \A c \in Client :
       pc[c] = "regInsert" => idLock = c /\ local[c] = userId + 1

(* A code in a mailbox, in Redis or on its way there belongs to one        *)
(* address.                                                                *)
Belongs(k, e) ==
  \/ k \in mails[e]
  \/ code[e].val = k
  \/ \E c \in Client : pc[c] \in Verifying /\ local[c] = k /\ req[c].email = e

CodeInv ==
  \A k \in Code : \A e \in Email : Belongs(k, e) =>
    /\ k \in issued
    /\ \A d \in Email : Belongs(k, d) => d = e

(* A form has a code of its sender's, and once the code has been accepted, *)
(* his address.                                                            *)
FormInv ==
  \A c \in Client :
    /\ pc[c] \in Unchecked \cup Checked => req[c].code \in mails[owner[c]]
    /\ pc[c] \in Checked => req[c].email = owner[c]

(* With unique keys a name has one row; CheckEmail's row stays.            *)
NameInv ==
  /\ Unique => \A u, v \in users : u.name = v.name => u.email = v.email
  /\ \A c \in Client : pc[c] = "rstUpdate" =>
       \E u \in users : u.name = req[c].name /\ u.email = req[c].email

(* No token is newer than the one stored for its account; a login forgets  *)
(* the outcome of the last one.                                            *)
TokenInv ==
  \A c \in Client :
    /\ pc[c] = "chat" \/ outcome[c] = "rejected" =>
         token[c].val <= utoken[token[c].uid]
    /\ pc[c] \in {"lgPwd", "lgToken"} => outcome[c] # "rejected"

-----------------------------------------------------------------------------
(* A step of one client leaves the calls of the others as they are.        *)
Alone(c) ==
  /\ \A d \in Client \ {c} :
       /\ pc'[d] = pc[d] /\ req'[d] = req[d] /\ local'[d] = local[d]
       /\ token'[d] = token[d] /\ outcome'[d] = outcome[d]
  /\ issued \subseteq issued' /\ tokens' \in Nat /\ tokens <= tokens'

LEMMA OthersOK ==
  ASSUME TInv, NEW c \in Client, Alone(c), CallOK(c)'
  PROVE  \A d \in Client : CallOK(d)'
<1>1. TAKE d \in Client
<1>2. CASE d = c
  BY <1>2
<1>3. CASE d # c
  <2>1. CallOK(d) /\ tokens \in Nat
    BY DEF TInv
  <2>2. /\ pc'[d] = pc[d] /\ req'[d] = req[d] /\ local'[d] = local[d]
        /\ token'[d] = token[d] /\ outcome'[d] = outcome[d]
        /\ issued \subseteq issued' /\ tokens' \in Nat /\ tokens <= tokens'
    BY <1>3 DEF Alone
  <2>3. [uid : Uid, val : 0 .. tokens] \subseteq [uid : Uid, val : 0 .. tokens']
    BY <2>1, <2>2
  <2> QED
    BY <2>1, <2>2, <2>3 DEF CallOK
<1> QED
  BY <1>2, <1>3

LEMMA StepAlone ==
  ASSUME TInv, NEW c \in Client, Step(c)
  PROVE  Alone(c)
<1> USE DEF TInv, TypeOK, Goto, callVars, verifyVars, tokenVars, mysqlVars
<1>1. CASE AskCode(c)
  BY <1>1 DEF AskCode, Call, Alone
<1>2. CASE SetCode(c)
  BY <1>2 DEF SetCode, Then, Alone
<1>3. CASE ExpireCode(c)
  BY <1>3 DEF ExpireCode, SetTTL, Alone
<1>4. CASE SendMail(c)
  BY <1>4 DEF SendMail, Alone
<1>5. CASE AskRegister(c)
  BY <1>5 DEF AskRegister, Call, Form, Alone
<1>6. CASE RegCheckCode(c)
  BY <1>6 DEF RegCheckCode, Alone
<1>7. CASE RegSelect(c)
  BY <1>7 DEF RegSelect, Alone
<1>8. CASE RegNextId(c)
  BY <1>8 DEF RegNextId, Alone
<1>9. CASE RegInsert(c)
  BY <1>9 DEF RegInsert, Alone
<1>10. CASE AskReset(c)
  BY <1>10 DEF AskReset, Call, Form, Alone
<1>11. CASE RstCheckCode(c)
  BY <1>11 DEF RstCheckCode, Alone
<1>12. CASE RstCheckEmail(c)
  BY <1>12 DEF RstCheckEmail, Alone
<1>13. CASE RstUpdate(c)
  BY <1>13 DEF RstUpdate, Alone
<1>14. CASE AskLogin(c)
  <2>1. PICK e \in Email : Call(c, "lgPwd", [email |-> e])
    BY <1>14 DEF AskLogin
  <2>2. ASSUME NEW d \in Client, d # c
        PROVE  /\ pc'[d] = pc[d] /\ req'[d] = req[d] /\ local'[d] = local[d]
               /\ token'[d] = token[d] /\ outcome'[d] = outcome[d]
    BY <1>14, <2>1, <2>2 DEF AskLogin, Call
  <2>3. issued' = issued /\ tokens' = tokens
    BY <1>14 DEF AskLogin
  <2> QED
    BY <2>2, <2>3 DEF Alone
<1>15. CASE CheckPwd(c)
  BY <1>15 DEF CheckPwd, Alone
<1>16. CASE GetChatServer(c)
  BY <1>16 DEF GetChatServer, Store, Alone
<1>17. CASE ChatLogin(c)
  BY <1>17 DEF ChatLogin, Alone
<1>18. CASE SetFails(c) \/ ExpireFails(c)
  BY <1>18 DEF SetFails, ExpireFails, Alone
<1> QED
  BY <1>1, <1>2, <1>3, <1>4, <1>5, <1>6, <1>7, <1>8, <1>9,
     <1>10, <1>11, <1>12, <1>13, <1>14, <1>15, <1>16, <1>17, <1>18 DEF Step

(* SET and EXPIRE leave every key a code or nothing, with or without a TTL.*)
LEMMA CommandTypes ==
  ASSUME TInv, NEW c \in Client, pc[c] \in Verifying, Write(c) \/ SetTTL(c)
  PROVE  /\ code' \in [Email -> [val : Code \cup {None}, ttl : BOOLEAN]]
         /\ \A e \in Email \ {req[c].email} : code'[e] = code[e]
<1> USE DEF TInv, TypeOK
<1>1. req[c].email \in Email /\ local[c] \in Code
  BY DEF CallOK
<1>2. CASE Write(c)
  BY <1>1, <1>2 DEF Write
<1>3. CASE SetTTL(c)
  <2>1. code[req[c].email] \in [val : Code \cup {None}, ttl : BOOLEAN]
    BY <1>1
  <2>2. [code[req[c].email] EXCEPT !.ttl = code[req[c].email].val # None]
          \in [val : Code \cup {None}, ttl : BOOLEAN]
    BY <2>1
  <2>3. code' = [code EXCEPT ![req[c].email] =
                   [code[req[c].email] EXCEPT !.ttl = code[req[c].email].val # None]]
    BY <1>1, <1>3 DEF SetTTL
  <2> QED
    BY <1>1, <2>2, <2>3
<1> QED
  BY <1>2, <1>3

LEMMA TypeStep ==
  ASSUME TInv, NEW c \in Client, Step(c)
  PROVE  TInv'
<1> USE AccountAssumption
<1>0. CallOK(c)' => \A d \in Client : CallOK(d)'
  BY StepAlone, OthersOK
<1> USE DEF TInv, TypeOK, Calls, callVars, verifyVars, tokenVars, mysqlVars
<1>1. CASE AskCode(c)
  <2>1. CallOK(c)'
    BY <1>1 DEF AskCode, Goto, Call, CallOK, Verifying, Unchecked, Checked, FormSet
  <2>3. \A d \in Client : CallOK(d)'
    BY <2>1, <1>0
  <2> QED
    BY <1>1, <2>3, ZenonT(30)
    DEF AskCode, Goto, Call, CallOK, Verifying, Unchecked, Checked, FormSet
<1>2. CASE SetCode(c)
  <2>1. CallOK(c)'
    BY <1>2 DEF SetCode, Write, Goto, Then, CallOK, Verifying, Unchecked, Checked, FormSet
  <2>3. \A d \in Client : CallOK(d)'
    BY <2>1, <1>0
  <2> QED
    BY <1>2, <2>3 DEF SetCode, Write, Goto, Then, CallOK, Verifying, Unchecked, Checked, FormSet
<1>3. CASE ExpireCode(c)
  <2>1. CallOK(c)'
    BY <1>3 DEF ExpireCode, SetTTL, Goto, CallOK, Verifying, Unchecked, Checked, FormSet
  <2>3. \A d \in Client : CallOK(d)'
    BY <2>1, <1>0
  <2>5. code' \in [Email -> [val : Code \cup {None}, ttl : BOOLEAN]]
    BY <1>3, CommandTypes DEF ExpireCode, Verifying
  <2>6. /\ pc' = [pc EXCEPT ![c] = "mail"]
        /\ UNCHANGED <<owner, tokenVars, mysqlVars, callVars, issued, mails>>
    BY <1>3 DEF ExpireCode, SetTTL, Goto
  <2> QED
    BY <2>3, <2>5, <2>6
<1>4. CASE SendMail(c)
  <2>1. CallOK(c)'
    BY <1>4 DEF SendMail, Goto, CallOK, Verifying, Unchecked, Checked, FormSet
  <2>3. \A d \in Client : CallOK(d)'
    BY <2>1, <1>0
  <2> QED
    BY <1>4, <2>3, SMTT(30)
       DEF SendMail, Goto, CallOK, Verifying, Unchecked, Checked, FormSet
<1>5. CASE AskRegister(c)
  <2>1. CallOK(c)'
    BY <1>5 DEF AskRegister, Goto, Call, Form, CallOK, Verifying, Unchecked, Checked, FormSet
  <2>3. \A d \in Client : CallOK(d)'
    BY <2>1, <1>0
  <2> QED
    BY <1>5, <2>3, ZenonT(30)
    DEF AskRegister, Goto, Call, Form, CallOK, Verifying, Unchecked, Checked, FormSet
<1>6. CASE RegCheckCode(c)
  <2>1. CallOK(c)'
    BY <1>6 DEF RegCheckCode, Goto, CallOK, Verifying, Unchecked, Checked, FormSet
  <2>3. \A d \in Client : CallOK(d)'
    BY <2>1, <1>0
  <2> QED
    BY <1>6, <2>3 DEF RegCheckCode, Goto, CallOK, Verifying, Unchecked, Checked, FormSet
<1>7. CASE RegSelect(c)
  <2>1. CallOK(c)'
    BY <1>7 DEF RegSelect, Goto, CallOK, Verifying, Unchecked, Checked, FormSet
  <2>3. \A d \in Client : CallOK(d)'
    BY <2>1, <1>0
  <2> QED
    BY <1>7, <2>3 DEF RegSelect, Goto, CallOK, Verifying, Unchecked, Checked, FormSet
<1>8. CASE RegNextId(c)
  <2>1. CallOK(c)'
    BY <1>8 DEF RegNextId, Goto, Uid, CallOK, Verifying, Unchecked, Checked, FormSet
  <2>3. \A d \in Client : CallOK(d)'
    BY <2>1, <1>0
  <2> QED
    BY <1>8, <2>3 DEF RegNextId, Goto, Uid, CallOK, Verifying, Unchecked, Checked, FormSet
<1>9. CASE RegInsert(c)
  <2>1. CallOK(c)'
    BY <1>9 DEF RegInsert, Goto, Uid, CallOK, Verifying, Unchecked, Checked, FormSet
  <2>3. \A d \in Client : CallOK(d)'
    BY <2>1, <1>0
  <2> QED
    BY <1>9, <2>3 DEF RegInsert, Goto, Uid, CallOK, Verifying, Unchecked, Checked, FormSet
<1>10. CASE AskReset(c)
  <2>1. CallOK(c)'
    BY <1>10 DEF AskReset, Goto, Call, Form, CallOK, Verifying, Unchecked, Checked, FormSet
  <2>3. \A d \in Client : CallOK(d)'
    BY <2>1, <1>0
  <2> QED
    BY <1>10, <2>3, ZenonT(30)
    DEF AskReset, Goto, Call, Form, CallOK, Verifying, Unchecked, Checked, FormSet
<1>11. CASE RstCheckCode(c)
  <2>1. CallOK(c)'
    BY <1>11 DEF RstCheckCode, Goto, CallOK, Verifying, Unchecked, Checked, FormSet
  <2>3. \A d \in Client : CallOK(d)'
    BY <2>1, <1>0
  <2> QED
    BY <1>11, <2>3 DEF RstCheckCode, Goto, CallOK, Verifying, Unchecked, Checked, FormSet
<1>12. CASE RstCheckEmail(c)
  <2>1. CallOK(c)'
    BY <1>12 DEF RstCheckEmail, Goto, CallOK, Verifying, Unchecked, Checked, FormSet
  <2>3. \A d \in Client : CallOK(d)'
    BY <2>1, <1>0
  <2> QED
    BY <1>12, <2>3 DEF RstCheckEmail, Goto, CallOK, Verifying, Unchecked, Checked, FormSet
<1>13. CASE RstUpdate(c)
  <2>1. CallOK(c)'
    BY <1>13 DEF RstUpdate, Goto, CallOK, Verifying, Unchecked, Checked, FormSet
  <2>3. \A d \in Client : CallOK(d)'
    BY <2>1, <1>0
  <2>4. /\ pc' = [pc EXCEPT ![c] = "out"]
        /\ \A u \in users' : u \in users \/ \E v \in users : u = [v EXCEPT !.pwd = owner[c]]
        /\ UNCHANGED <<owner, verifyVars, tokenVars, callVars, userId, idLock>>
    BY <1>13 DEF RstUpdate, Goto
  <2>5. users' \subseteq [uid : Uid, name : Name, email : Email, pwd : Email]
    <3>1. ASSUME NEW v \in users
          PROVE  [v EXCEPT !.pwd = owner[c]] \in
                   [uid : Uid, name : Name, email : Email, pwd : Email]
      <4>1. v \in [uid : Uid, name : Name, email : Email, pwd : Email]
        OBVIOUS
      <4>2. owner[c] \in Email
        OBVIOUS
      <4> QED
        BY ONLY <4>1, <4>2
    <3> QED
      BY <2>4, <3>1
  <2> QED
    BY <2>3, <2>4, <2>5
<1>14. CASE AskLogin(c)
  <2>1. PICK e \in Email : Call(c, "lgPwd", [email |-> e])
    BY <1>14 DEF AskLogin
  <2>2. /\ pc' = [pc EXCEPT ![c] = "lgPwd"] /\ req' = [req EXCEPT ![c] = [email |-> e]]
        /\ token' = [token EXCEPT ![c] = None] /\ outcome' = [outcome EXCEPT ![c] = ""]
        /\ UNCHANGED <<owner, verifyVars, mysqlVars, utoken, tokens, local>>
    BY <1>14, <2>1 DEF AskLogin, Call, Goto
  <2>3. CallOK(c)'
    BY <2>2 DEF CallOK, Verifying, Unchecked, Checked
  <2>5. \A d \in Client : CallOK(d)'
    BY <2>3, <1>0
  <2> QED
    BY <2>2, <2>5
<1>15. CASE CheckPwd(c)
  <2>1. CallOK(c)'
    BY <1>15 DEF CheckPwd, Goto, CallOK, Verifying, Unchecked, Checked, FormSet
  <2>3. \A d \in Client : CallOK(d)'
    BY <2>1, <1>0
  <2>4. /\ \E x \in {"lgToken", "out"} : pc' = [pc EXCEPT ![c] = x]
        /\ local' = [d \in Client |-> local'[d]]
    <3>1. CASE \E u \in users :
                 /\ Goto(c, IF u.pwd = owner[c] THEN "lgToken" ELSE "out")
                 /\ local' = [local EXCEPT ![c] = u.uid]
      BY <3>1 DEF Goto
    <3>2. CASE Goto(c, "out") /\ UNCHANGED local
      BY <3>2 DEF Goto
    <3> QED
      BY <1>15, <3>1, <3>2 DEF CheckPwd
  <2>5. UNCHANGED <<owner, verifyVars, tokenVars, mysqlVars, req>>
    BY <1>15 DEF CheckPwd
  <2>6. pc' \in [Client -> Calls]
    BY <2>4
  <2> QED
    BY <2>3, <2>4, <2>5, <2>6
<1>16. CASE GetChatServer(c)
  <2>1. CallOK(c)'
    BY <1>16 DEF GetChatServer, Goto, Store, CallOK, Verifying, Unchecked, Checked, FormSet
  <2>3. \A d \in Client : CallOK(d)'
    BY <2>1, <1>0
  <2>4. local[c] \in Uid
    BY <1>16 DEF GetChatServer, CallOK
  <2>5. utoken' \in [Uid -> 0 .. tokens'] /\ tokens' \in Nat
    <3>1. utoken' = [utoken EXCEPT ![local[c]] = tokens + 1] /\ tokens' = tokens + 1
      BY <1>16 DEF GetChatServer, Store
    <3>2. 0 .. tokens \subseteq 0 .. tokens' /\ tokens + 1 \in 0 .. tokens'
      BY <3>1
    <3> QED
      BY <2>4, <3>1, <3>2
  <2>6. UNCHANGED <<owner, verifyVars, mysqlVars, callVars, outcome>>
    BY <1>16 DEF GetChatServer
  <2>7. pc' = [pc EXCEPT ![c] = "chat"]
        /\ token' = [token EXCEPT ![c] = [uid |-> local[c], val |-> tokens + 1]]
    BY <1>16 DEF GetChatServer, Goto
  <2> QED
    BY <2>3, <2>5, <2>6, <2>7
<1>17. CASE ChatLogin(c)
  <2>1. CallOK(c)'
    BY <1>17 DEF ChatLogin, Goto, CallOK, Verifying, Unchecked, Checked, FormSet
  <2>3. \A d \in Client : CallOK(d)'
    BY <2>1, <1>0
  <2> QED
    BY <1>17, <2>3 DEF ChatLogin, Goto, CallOK, Verifying, Unchecked, Checked, FormSet
<1>18. CASE SetFails(c) \/ ExpireFails(c)
  <2>1. /\ pc' = [pc EXCEPT ![c] = "out"]
        /\ UNCHANGED <<owner, tokenVars, mysqlVars, callVars, issued, mails>>
    BY <1>18 DEF SetFails, ExpireFails, Goto
  <2>2. CallOK(c)'
    BY <2>1 DEF CallOK, Verifying, Unchecked, Checked
  <2>3. \A d \in Client : CallOK(d)'
    BY <2>2, <1>0
  <2>4. code' \in [Email -> [val : Code \cup {None}, ttl : BOOLEAN]]
    BY <1>18, CommandTypes DEF SetFails, ExpireFails, Verifying
  <2> QED
    BY <2>1, <2>3, <2>4
<1> QED
  BY <1>1, <1>2, <1>3, <1>4, <1>5, <1>6, <1>7, <1>8, <1>9,
     <1>10, <1>11, <1>12, <1>13, <1>14, <1>15, <1>16, <1>17, <1>18 DEF Step

LEMMA TypeCrash == ASSUME TInv, Crash PROVE TInv'
<1> USE DEF TInv, TypeOK, Crash, Calls, callVars, tokenVars, mysqlVars
<1>1. \A d \in Client : CallOK(d)'
  BY DEF CallOK, Verifying, Unchecked, Checked
<1> QED
  BY <1>1

LEMMA TypeCodeEnds == ASSUME TInv, NEW e \in Email, CodeEnds(e) PROVE TInv'
<1> USE DEF TInv, TypeOK, CodeEnds, Calls, callVars, tokenVars, mysqlVars
<1>1. \A d \in Client : CallOK(d)'
  BY DEF CallOK, Verifying, Unchecked, Checked
<1> QED
  BY <1>1 DEF NoCode

LEMMA TypeStutter == ASSUME TInv, UNCHANGED vars PROVE TInv'
<1> USE DEF TInv, TypeOK, vars, Calls, callVars, tokenVars, mysqlVars, verifyVars
<1>1. \A d \in Client : CallOK(d)'
  BY DEF CallOK, Verifying, Unchecked, Checked
<1> QED
  BY <1>1

LEMMA TypeNext == ASSUME TInv, [Next]_vars PROVE TInv'
BY TypeStep, TypeCrash, TypeCodeEnds, TypeStutter DEF Next

(* The rows at the start, and the id that comes with them.                 *)
LEMMA FirstRows ==
  ASSUME NEW s \in Settings
  PROVE  /\ s.owner \in [Client -> Email]
         /\ s.rows \subseteq [uid : Uid, name : Name, email : Email, pwd : Email]
         /\ Cardinality(s.rows) \in Uid \cup {0}
         /\ \A u \in s.rows : u.uid = Cardinality(s.rows) /\ u.pwd = u.email
         /\ \A u, v \in s.rows : u = v
<1>1. /\ s.owner \in [Client -> Email]
      /\ s.rows \subseteq [uid : {1}, name : Name, email : Email, pwd : Email]
      /\ \A u \in s.rows : u.pwd = u.email /\ s.rows = {u}
      /\ 1 \in Uid
  BY AccountAssumption DEF Uid
<1>2. CASE s.rows = {}
  BY <1>1, <1>2, FS_EmptySet
<1>3. CASE s.rows # {}
  <2>1. PICK u \in s.rows : s.rows = {u}
    BY <1>1, <1>3
  <2>2. Cardinality(s.rows) = 1
    BY <2>1, FS_Singleton
  <2> QED
    BY <1>1, <2>1, <2>2
<1> QED
  BY <1>2, <1>3

LEMMA TypeInit == ASSUME Init PROVE TInv
<1>1. PICK s \in Settings : owner = s.owner /\ users = s.rows
                            /\ userId = Cardinality(s.rows)
  BY DEF Init
<1>2. /\ owner \in [Client -> Email] /\ userId \in Uid \cup {0}
      /\ users \subseteq [uid : Uid, name : Name, email : Email, pwd : Email]
  BY <1>1, FirstRows
<1>3. \A c \in Client : CallOK(c)
  BY DEF Init, CallOK, Verifying, Unchecked, Checked
<1>4. /\ code \in [Email -> [val : Code \cup {None}, ttl : BOOLEAN]]
      /\ issued \subseteq Code /\ mails \in [Email -> SUBSET issued]
      /\ idLock = None /\ pc \in [Client -> Calls]
  BY DEF Init, NoCode, Calls
<1>5. utoken \in [Uid -> 0 .. tokens] /\ tokens \in Nat
  <2>1. 0 \in 0 .. 0
    OBVIOUS
  <2> QED
    BY <2>1 DEF Init
<1>6. /\ req = [c \in Client |-> req[c]] /\ local = [c \in Client |-> local[c]]
      /\ token = [c \in Client |-> token[c]]
      /\ outcome = [c \in Client |-> outcome[c]]
  BY DEF Init
<1> QED
  BY <1>2, <1>3, <1>4, <1>5, <1>6 DEF TInv, TypeOK

(* Every variable keeps its type (the handlers of GateServer, VarifyServer *)
(* and StatusServer).                                                      *)
THEOREM TypeCorrect == Spec => []TypeOK
<1>1. Init => TInv
  BY TypeInit
<1>2. TInv /\ [Next]_vars => TInv'
  BY TypeNext
<1>3. TInv => TypeOK
  BY DEF TInv
<1> QED
  BY <1>1, <1>2, <1>3, PTL DEF Spec

-----------------------------------------------------------------------------
(* The TTL of a code.                                                      *)
LEMMA ExpiresStep ==
  ASSUME TInv, CodeExpires, [Next]_vars
  PROVE  CodeExpires'
<1> DEFINE Pending(e) == \E c \in Client : pc[c] = "expire" /\ req[c].email = e
<1>1. ASSUME NEW c \in Client, SetCode(c)
      PROVE  CodeExpires'
  <2>1. /\ pc'[c] = "expire" /\ req' = req
        /\ \A d \in Client \ {c} : pc'[d] = pc[d]
        /\ \A e \in Email \ {req[c].email} :
             code'[e] = code[e] /\ (e \in orphans => e \in orphans')
    BY <1>1 DEF SetCode, Write, Goto, Then, callVars, TInv, TypeOK
  <2>2. \A d \in Client : pc[d] = "expire" => pc'[d] = "expire"
    BY <2>1
  <2> QED
    BY <2>1, <2>2 DEF CodeExpires
<1>2. ASSUME NEW c \in Client, ExpireCode(c)
      PROVE  CodeExpires'
  <2>1. /\ pc[c] = "expire" /\ req' = req
        /\ \A d \in Client \ {c} : pc'[d] = pc[d]
        /\ \A e \in Email \ {req[c].email} :
             code'[e] = code[e] /\ (e \in orphans => e \in orphans')
    BY <1>2 DEF ExpireCode, SetTTL, Goto, callVars, TInv, TypeOK
  <2>2. req[c].email \in Email
    BY <2>1 DEF TInv, CallOK, Verifying
  <2>3. code'[req[c].email].val # None => code'[req[c].email].ttl
    BY <1>2, <2>2, ZenonT(30) DEF ExpireCode, SetTTL, TInv, TypeOK
  <2>4. ASSUME NEW e \in Email, e # req[c].email, Pending(e)
        PROVE  Pending(e)'
    BY <2>1, <2>4
  <2> QED
    BY <2>1, <2>3, <2>4 DEF CodeExpires
<1>3. ASSUME Crash
      PROVE  CodeExpires'
  BY <1>3 DEF Crash, CodeExpires
<1>4. ASSUME NEW e \in Email, CodeEnds(e)
      PROVE  CodeExpires'
  BY <1>4 DEF CodeEnds, NoCode, CodeExpires, TInv, TypeOK, callVars
<1>5. ASSUME UNCHANGED <<code, orphans>>,
             \A d \in Client : pc[d] = "expire" => pc'[d] = "expire" /\ req'[d] = req[d]
      PROVE  CodeExpires'
  BY <1>5 DEF CodeExpires
<1>6. ASSUME NEW c \in Client, Step(c), ~SetCode(c), ~ExpireCode(c), ~SetFails(c), ~ExpireFails(c)
      PROVE  /\ UNCHANGED <<code, orphans>>
             /\ \A d \in Client : pc[d] = "expire" => pc'[d] = "expire" /\ req'[d] = req[d]
  <2>1. UNCHANGED <<code, orphans>>
    BY <1>6 DEF Step, AskCode, SendMail, AskRegister, RegCheckCode, RegSelect,
         RegNextId, RegInsert, AskReset, RstCheckCode, RstCheckEmail, RstUpdate,
         AskLogin, CheckPwd, GetChatServer, ChatLogin, verifyVars
  <2>2. \A d \in Client \ {c} : pc'[d] = pc[d] /\ req'[d] = req[d]
    BY <1>6, StepAlone DEF Alone
  <2>3. pc[c] # "expire"
    BY <1>6 DEF Step, AskCode, SendMail, AskRegister, RegCheckCode, RegSelect,
         RegNextId, RegInsert, AskReset, RstCheckCode, RstCheckEmail, RstUpdate,
         AskLogin, CheckPwd, GetChatServer, ChatLogin, Call
  <2> QED
    BY <2>1, <2>2, <2>3
<1>7. CASE UNCHANGED vars
  BY <1>5, <1>7 DEF vars, verifyVars, callVars
<1>8. ASSUME NEW c \in Client, SetFails(c) \/ ExpireFails(c)
      PROVE  CodeExpires'
  <2>1. /\ pc[c] \in Verifying /\ pc' = [pc EXCEPT ![c] = "out"] /\ req' = req
        /\ orphans \ {req[c].email} \subseteq orphans'
        /\ UNCHANGED code \/ Write(c) \/ SetTTL(c)
    BY <1>8 DEF SetFails, ExpireFails, Goto, Verifying, callVars
  <2>2. req[c].email \in Email
    BY <2>1 DEF TInv, CallOK
  <2>3. \A e \in Email \ {req[c].email} : code'[e] = code[e]
    BY <2>1, CommandTypes
  <2>4. ASSUME NEW e \in Email, e # req[c].email, Pending(e)
        PROVE  Pending(e)'
    BY <2>1, <2>4 DEF TInv, TypeOK
  <2>5. \/ req[c].email \in orphans'
        \/ code'[req[c].email].val # None => code'[req[c].email].ttl
        \/ pc[c] = "set" /\ UNCHANGED <<code, orphans>>
    <3>1. CASE req[c].email \in orphans' \/ (pc[c] = "set" /\ UNCHANGED <<code, orphans>>)
      BY <3>1
    <3>2. CASE SetTTL(c)
      <4>1. code'[req[c].email].val # None => code'[req[c].email].ttl
        BY <2>2, <3>2, ZenonT(30) DEF SetTTL, TInv, TypeOK
      <4> QED
        BY <4>1
    <3> QED
      BY <1>8, <3>1, <3>2 DEF SetFails, ExpireFails
  <2>6. pc[c] = "set" => \A e \in Email : Pending(e) => Pending(e)'
    BY <2>1 DEF TInv, TypeOK
  <2> QED
    BY <2>1, <2>2, <2>3, <2>4, <2>5, <2>6 DEF CodeExpires
<1> QED
  BY <1>1, <1>2, <1>3, <1>4, <1>5, <1>6, <1>7, <1>8 DEF Next

(* Every code in Redis expires, unless its VarifyServer has crashed, or    *)
(* had a command rejected, before it could say so (SetRedisExpire).        *)
THEOREM CodesExpire == Spec => []CodeExpires
<1>1. ASSUME Init PROVE TInv /\ CodeExpires
  <2>1. \A e \in Email : code[e].val = None
    BY <1>1 DEF Init, NoCode
  <2> QED
    BY <1>1, <2>1, TypeInit DEF CodeExpires
<1>2. TInv /\ CodeExpires /\ [Next]_vars => (TInv /\ CodeExpires)'
  BY TypeNext, ExpiresStep
<1> QED
  BY <1>1, <1>2, PTL DEF Spec

-----------------------------------------------------------------------------
(* The uids.                                                               *)
LEMMA UidStep ==
  ASSUME TInv, IdInv, UidsDistinct, [Next]_vars
  PROVE  IdInv' /\ UidsDistinct'
<1>0. userId \in Nat /\ \A u \in users : u.uid \in Nat
  BY DEF TInv, TypeOK, Uid
<1>1. ASSUME UNCHANGED <<users, userId, idLock>>,
             \A d \in Client : pc'[d] = "regInsert" =>
               pc[d] = "regInsert" /\ local'[d] = local[d]
      PROVE  IdInv' /\ UidsDistinct'
  BY <1>1 DEF IdInv, UidsDistinct
<1>2. ASSUME NEW c \in Client, RegNextId(c)
      PROVE  IdInv' /\ UidsDistinct'
  <2>1. \A d \in Client : pc[d] # "regInsert"
    BY <1>2, AccountAssumption DEF RegNextId, IdFree, IdInv
  <2>2. /\ idLock' = c /\ UNCHANGED <<users, userId>>
        /\ pc' = [pc EXCEPT ![c] = "regInsert"]
        /\ local' = [local EXCEPT ![c] = userId + 1]
    BY <1>2 DEF RegNextId, Goto
  <2>3. local'[c] = userId' + 1 /\ \A d \in Client \ {c} : pc'[d] # "regInsert"
    BY <2>1, <2>2 DEF TInv, TypeOK
  <2> QED
    BY <2>2, <2>3 DEF IdInv, UidsDistinct
<1>3. ASSUME NEW c \in Client, RegInsert(c)
      PROVE  IdInv' /\ UidsDistinct'
  <2>1. /\ pc' = [pc EXCEPT ![c] = "out"] /\ local' = local
        /\ local[c] = userId + 1
        /\ \A d \in Client : pc[d] = "regInsert" => d = c
    BY <1>3 DEF RegInsert, Goto, callVars, IdInv
  <2>2. \A d \in Client : pc'[d] # "regInsert"
    BY <2>1 DEF TInv, TypeOK
  <2>3. CASE UNCHANGED <<users, userId>>
    BY <2>2, <2>3 DEF IdInv, UidsDistinct
  <2>4. CASE /\ users' = users \cup {[uid |-> local[c], name |-> req[c].name,
                                    email |-> req[c].email, pwd |-> owner[c]]}
             /\ userId' = local[c]
    <3>1. \A u \in users' : u \in users \/ u.uid = userId'
      BY <2>4
    <3>2. \A u \in users : u.uid < userId'
      BY <1>0, <2>1, <2>4 DEF IdInv
    <3>3. \A u, v \in users' : u \notin users /\ v \notin users => u = v
      BY <2>4
    <3>4. userId' \in Nat
      BY <1>0, <2>1, <2>4
    <3>5. IdInv'
      BY <1>0, <2>2, <3>1, <3>2, <3>4 DEF IdInv
    <3>6. ASSUME NEW u \in users', NEW v \in users', u.uid = v.uid
          PROVE  u = v
      BY <1>0, <3>1, <3>2, <3>3, <3>4, <3>6 DEF UidsDistinct
    <3> QED
      BY <3>5, <3>6 DEF UidsDistinct
  <2> QED
    BY <1>3, <2>3, <2>4 DEF RegInsert
<1>4. ASSUME NEW c \in Client, RstUpdate(c)
      PROVE  IdInv' /\ UidsDistinct'
  <2> DEFINE New(u) == IF u.name = req[c].name THEN [u EXCEPT !.pwd = owner[c]] ELSE u
  <2>1. /\ pc' = [pc EXCEPT ![c] = "out"]
        /\ UNCHANGED <<userId, idLock, local>>
    BY <1>4 DEF RstUpdate, Goto, callVars
  <2>2. \A u \in users' : \E v \in users : u = New(v)
    BY <1>4 DEF RstUpdate
  <2>3. \A v \in users : New(v).uid = v.uid
    BY DEF TInv, TypeOK
  <2> HIDE DEF New
  <2>4. ASSUME NEW u \in users', NEW v \in users', u.uid = v.uid
        PROVE  u = v
    BY <2>2, <2>3, <2>4 DEF UidsDistinct
  <2>5. \A u \in users' : u.uid <= userId'
    BY <2>1, <2>2, <2>3 DEF IdInv
  <2>6. \A d \in Client : pc'[d] = "regInsert" => pc[d] = "regInsert"
    BY <2>1 DEF TInv, TypeOK
  <2> QED
    BY <2>1, <2>4, <2>5, <2>6 DEF IdInv, UidsDistinct
<1>5. ASSUME NEW c \in Client, Step(c), ~RegNextId(c), ~RegInsert(c), ~RstUpdate(c)
      PROVE  /\ UNCHANGED <<users, userId, idLock>>
             /\ \A d \in Client : pc'[d] = "regInsert" =>
                  pc[d] = "regInsert" /\ local'[d] = local[d]
  <2>1. UNCHANGED <<users, userId, idLock>>
    BY <1>5 DEF Step, AskCode, SetCode, ExpireCode, SetFails, ExpireFails, SendMail, AskRegister, RegCheckCode,
         RegSelect, AskReset, RstCheckCode, RstCheckEmail, AskLogin, CheckPwd,
         GetChatServer, ChatLogin, mysqlVars
  <2>2. \A d \in Client \ {c} : pc'[d] = pc[d] /\ local'[d] = local[d]
    BY <1>5, StepAlone DEF Alone
  <2>3. pc'[c] # "regInsert"
    BY <1>5 DEF Step, AskCode, SetCode, Then, ExpireCode, SetFails, ExpireFails, SendMail, AskRegister,
         RegCheckCode, RegSelect, AskReset, RstCheckCode, RstCheckEmail, AskLogin,
         CheckPwd, GetChatServer, ChatLogin, Call, Goto, TInv, TypeOK
  <2> QED
    BY <2>1, <2>2, <2>3
<1>6. ASSUME Crash \/ (\E e \in Email : CodeEnds(e)) \/ UNCHANGED vars
      PROVE  IdInv' /\ UidsDistinct'
  BY <1>1, <1>6 DEF Crash, CodeEnds, vars, mysqlVars, callVars
<1> QED
  BY <1>1, <1>2, <1>3, <1>4, <1>5, <1>6 DEF Next

LEMMA UidsInit == ASSUME Init PROVE TInv /\ IdInv /\ UidsDistinct
<1>1. PICK s \in Settings : owner = s.owner /\ users = s.rows
                            /\ userId = Cardinality(s.rows)
  BY DEF Init
<1>2. \A u \in users : u.uid = userId
  BY <1>1, FirstRows
<1>3. UidsDistinct
  BY <1>1, FirstRows DEF UidsDistinct
<1>4. userId \in Nat
  BY <1>1, FirstRows DEF Uid
<1>5. \A c \in Client : pc[c] # "regInsert"
  BY DEF Init
<1>6. IdInv
  BY <1>2, <1>4, <1>5 DEF IdInv
<1> QED
  BY <1>3, <1>6, TypeInit

(* Registrations get different uids however their transactions overlap     *)
(* (RegUserTransaction).                                                   *)
THEOREM UidsApart == Spec => []UidsDistinct
<1>1. Init => TInv /\ IdInv /\ UidsDistinct
  BY UidsInit
<1>2. TInv /\ IdInv /\ UidsDistinct /\ [Next]_vars => (TInv /\ IdInv /\ UidsDistinct)'
  BY TypeNext, UidStep
<1> QED
  BY <1>1, <1>2, PTL DEF Spec

-----------------------------------------------------------------------------
(* The tokens.                                                             *)
LEMMA TokenStep ==
  ASSUME TInv, TokenInv, RejectedOnlyIfReplaced, [Next]_vars
  PROVE  TokenInv' /\ RejectedOnlyIfReplaced'
<1> DEFINE HasToken(c) == pc[c] = "chat" \/ outcome[c] = "rejected"
<1>0. /\ tokens \in Nat /\ utoken \in [Uid -> 0 .. tokens]
      /\ \A c \in Client : HasToken(c) =>
           token[c].uid \in Uid /\ token[c].val \in 0 .. tokens
  BY DEF TInv, TypeOK, CallOK
<1>1. ASSUME UNCHANGED <<utoken, token, outcome>>,
             \A d \in Client :
               /\ pc'[d] = "chat" => pc[d] = "chat"
               /\ pc'[d] \in {"lgPwd", "lgToken"} => pc[d] \in {"lgPwd", "lgToken"}
      PROVE  TokenInv' /\ RejectedOnlyIfReplaced'
  BY <1>1 DEF TokenInv, RejectedOnlyIfReplaced
<1>2. ASSUME NEW c \in Client, AskLogin(c)
      PROVE  TokenInv' /\ RejectedOnlyIfReplaced'
  <2>1. pc'[c] # "chat" /\ outcome'[c] # "rejected" /\ utoken' = utoken
    BY <1>2 DEF AskLogin, Call, Goto, TInv, TypeOK
  <2>2. \A d \in Client \ {c} :
          pc'[d] = pc[d] /\ token'[d] = token[d] /\ outcome'[d] = outcome[d]
    BY <1>2, StepAlone DEF Step, Alone
  <2> QED
    BY <2>1, <2>2 DEF TokenInv, RejectedOnlyIfReplaced
<1>3. ASSUME NEW c \in Client, GetChatServer(c)
      PROVE  TokenInv' /\ RejectedOnlyIfReplaced'
  <2>1. /\ local[c] \in Uid
        /\ utoken' = [utoken EXCEPT ![local[c]] = tokens + 1]
        /\ token' = [token EXCEPT ![c] = [uid |-> local[c], val |-> tokens + 1]]
        /\ outcome' = outcome /\ pc[c] = "lgToken" /\ pc'[c] = "chat"
    BY <1>3 DEF GetChatServer, Goto, Store, TInv, TypeOK, CallOK
  <2>2. \A d \in Client \ {c} : pc'[d] = pc[d] /\ token'[d] = token[d]
    BY <1>3, StepAlone DEF Step, Alone
  <2>3. /\ \A i \in Uid : utoken[i] <= utoken'[i]
        /\ token'[c].uid = local[c] /\ token'[c].val = tokens + 1
        /\ utoken'[local[c]] = tokens + 1
    BY <1>0, <2>1 DEF TInv
  <2>4. outcome[c] # "rejected"
    BY <2>1 DEF TokenInv
  <2>5. \A i \in Uid : utoken[i] \in Nat /\ utoken'[i] \in Nat
    BY <1>0, <2>1
  <2> QED
    BY <1>0, <2>1, <2>2, <2>3, <2>4, <2>5 DEF TokenInv, RejectedOnlyIfReplaced
<1>4. ASSUME NEW c \in Client, ChatLogin(c)
      PROVE  TokenInv' /\ RejectedOnlyIfReplaced'
  <2>1. /\ pc[c] = "chat" /\ pc'[c] = "out"
        /\ UNCHANGED <<utoken, token>>
        /\ outcome'[c] = "rejected" => utoken[token[c].uid] # token[c].val
    BY <1>4 DEF ChatLogin, Goto, TInv, TypeOK
  <2>2. \A d \in Client \ {c} : pc'[d] = pc[d] /\ outcome'[d] = outcome[d]
    BY <1>4, StepAlone DEF Step, Alone
  <2>3. utoken[token[c].uid] \in Nat /\ token[c].val \in Nat
    BY <1>0, <2>1
  <2> QED
    BY <2>1, <2>2, <2>3 DEF TokenInv, RejectedOnlyIfReplaced
<1>5. ASSUME NEW c \in Client, Step(c), ~AskLogin(c), ~GetChatServer(c), ~ChatLogin(c)
      PROVE  /\ UNCHANGED <<utoken, token, outcome>>
             /\ \A d \in Client :
                  /\ pc'[d] = "chat" => pc[d] = "chat"
                  /\ pc'[d] \in {"lgPwd", "lgToken"} => pc[d] \in {"lgPwd", "lgToken"}
  <2>1. UNCHANGED <<utoken, token, outcome>>
    BY <1>5 DEF Step, AskCode, SetCode, ExpireCode, SetFails, ExpireFails, SendMail, AskRegister, RegCheckCode,
         RegSelect, RegNextId, RegInsert, AskReset, RstCheckCode, RstCheckEmail,
         RstUpdate, CheckPwd, tokenVars
  <2>2. /\ pc'[c] # "chat"
        /\ pc'[c] \in {"lgPwd", "lgToken"} => pc[c] \in {"lgPwd", "lgToken"}
    BY <1>5 DEF Step, AskCode, SetCode, Then, ExpireCode, SetFails, ExpireFails, SendMail, AskRegister,
         RegCheckCode, RegSelect, RegNextId, RegInsert, AskReset, RstCheckCode,
         RstCheckEmail, RstUpdate, CheckPwd, Call, Goto, TInv, TypeOK
  <2>3. \A d \in Client \ {c} : pc'[d] = pc[d]
    BY <1>5, StepAlone DEF Alone
  <2> QED
    BY <2>1, <2>2, <2>3
<1>6. ASSUME Crash \/ (\E e \in Email : CodeEnds(e)) \/ UNCHANGED vars
      PROVE  TokenInv' /\ RejectedOnlyIfReplaced'
  BY <1>1, <1>6 DEF Crash, CodeEnds, vars, tokenVars
<1> QED
  BY <1>1, <1>2, <1>3, <1>4, <1>5, <1>6 DEF Next

(* A rejected login has lost its token to a later login of the account     *)
(* (GetChatServer, LoginHandler).                                          *)
THEOREM TokensHold == Spec => []RejectedOnlyIfReplaced
<1>1. ASSUME Init PROVE TInv /\ TokenInv /\ RejectedOnlyIfReplaced
  <2>1. \A c \in Client : pc[c] = "out" /\ outcome[c] = ""
    BY <1>1 DEF Init
  <2> QED
    BY <1>1, <2>1, TypeInit DEF TokenInv, RejectedOnlyIfReplaced
<1>2. TInv /\ TokenInv /\ RejectedOnlyIfReplaced /\ [Next]_vars
        => (TInv /\ TokenInv /\ RejectedOnlyIfReplaced)'
  BY TypeNext, TokenStep
<1> QED
  BY <1>1, <1>2, PTL DEF Spec

-----------------------------------------------------------------------------
(* The passwords.                                                          *)

(* Only a new code gets an address.                                        *)
LEMMA BelongsKept ==
  ASSUME TInv, [Next]_vars, \A c \in Client : ~AskCode(c),
         NEW k \in Code, NEW e \in Email, Belongs(k, e)'
  PROVE  Belongs(k, e)
<1> DEFINE OnTheWay(d) == pc[d] \in Verifying /\ local[d] = k /\ req[d].email = e
<1>0. k # None
  BY AccountAssumption
<1>1. ASSUME NEW c \in Client, SetCode(c)
      PROVE  Belongs(k, e)
  <2>1. /\ code' = [code EXCEPT ![req[c].email] = [val |-> local[c], ttl |-> FALSE]]
        /\ mails' = mails /\ req' = req /\ local' = local /\ pc[c] \in Verifying
    BY <1>1 DEF SetCode, Write, callVars, Verifying
  <2>2. \A d \in Client \ {c} : pc'[d] = pc[d]
    BY <1>1, StepAlone DEF Step, Alone
  <2>3. code'[e].val = code[e].val \/ (e = req[c].email /\ code'[e].val = local[c])
    BY <2>1 DEF TInv, TypeOK
  <2> QED
    BY <2>1, <2>2, <2>3 DEF Belongs
<1>2. ASSUME NEW c \in Client, ExpireCode(c)
      PROVE  Belongs(k, e)
  <2>1. mails' = mails /\ req' = req /\ local' = local /\ pc[c] \in Verifying
    BY <1>2 DEF ExpireCode, SetTTL, callVars, Verifying
  <2>2. code'[e].val = code[e].val
    BY <1>2 DEF ExpireCode, SetTTL, TInv, TypeOK
  <2>3. \A d \in Client \ {c} : pc'[d] = pc[d]
    BY <1>2, StepAlone DEF Step, Alone
  <2> QED
    BY <2>1, <2>2, <2>3 DEF Belongs
<1>3. ASSUME NEW c \in Client, SendMail(c)
      PROVE  Belongs(k, e)
  <2>1. /\ code' = code /\ req' = req /\ local' = local
        /\ pc[c] \in Verifying /\ pc'[c] \notin Verifying
    BY <1>3 DEF SendMail, Goto, callVars, Verifying, TInv, TypeOK
  <2>2. k \in mails'[e] => k \in mails[e] \/ OnTheWay(c)
    BY <1>3, <2>1 DEF SendMail, TInv, TypeOK
  <2>3. \A d \in Client \ {c} : pc'[d] = pc[d]
    BY <1>3, StepAlone DEF Step, Alone
  <2> QED
    BY <2>1, <2>2, <2>3 DEF Belongs
<1>4. ASSUME mails' = mails,
             code'[e].val = code[e].val \/ code'[e].val = None,
             \A d \in Client : pc'[d] \in Verifying =>
               pc[d] \in Verifying /\ local'[d] = local[d] /\ req'[d] = req[d]
      PROVE  Belongs(k, e)
  BY <1>0, <1>4 DEF Belongs
<1>5. ASSUME NEW c \in Client, Step(c), ~SetCode(c), ~ExpireCode(c), ~SetFails(c), ~ExpireFails(c), ~SendMail(c)
      PROVE  /\ mails' = mails /\ code' = code
             /\ \A d \in Client : pc'[d] \in Verifying =>
                  pc[d] \in Verifying /\ local'[d] = local[d] /\ req'[d] = req[d]
  <2>0. ~AskCode(c)
    OBVIOUS
  <2>1. mails' = mails /\ code' = code
    BY <1>5, <2>0 DEF Step, AskRegister, RegCheckCode, RegSelect, RegNextId, RegInsert,
         AskReset, RstCheckCode, RstCheckEmail, RstUpdate, AskLogin, CheckPwd,
         GetChatServer, ChatLogin, verifyVars
  <2>2. pc'[c] \notin Verifying
    BY <1>5, <2>0 DEF Step, AskRegister, RegCheckCode, RegSelect, RegNextId, RegInsert,
         AskReset, RstCheckCode, RstCheckEmail, RstUpdate, AskLogin, CheckPwd,
         GetChatServer, ChatLogin, Call, Goto, Verifying, TInv, TypeOK
  <2>3. \A d \in Client \ {c} :
          pc'[d] = pc[d] /\ local'[d] = local[d] /\ req'[d] = req[d]
    BY <1>5, StepAlone DEF Alone
  <2> QED
    BY <2>1, <2>2, <2>3
<1>6. ASSUME Crash
      PROVE  Belongs(k, e)
  BY <1>4, <1>6 DEF Crash, Verifying, callVars
<1>7. ASSUME NEW f \in Email, CodeEnds(f)
      PROVE  Belongs(k, e)
  <2>1. code'[e].val = code[e].val \/ code'[e].val = None
    BY <1>7 DEF CodeEnds, NoCode, TInv, TypeOK
  <2> QED
    BY <1>4, <1>7, <2>1 DEF CodeEnds, callVars
<1>8. ASSUME UNCHANGED vars
      PROVE  Belongs(k, e)
  BY <1>4, <1>8 DEF vars, verifyVars, callVars
<1>9. ASSUME NEW c \in Client, SetFails(c) \/ ExpireFails(c)
      PROVE  Belongs(k, e)
  <2>1. /\ mails' = mails /\ req' = req /\ local' = local
        /\ pc[c] \in Verifying /\ pc'[c] \notin Verifying
        /\ UNCHANGED code \/ Write(c) \/ SetTTL(c)
    BY <1>9 DEF SetFails, ExpireFails, Goto, callVars, Verifying, TInv, TypeOK
  <2>2. \A d \in Client \ {c} : pc'[d] = pc[d]
    BY <1>9, StepAlone DEF Step, Alone
  <2>3. code'[e].val = code[e].val \/ (e = req[c].email /\ code'[e].val = local[c])
    BY <2>1 DEF Write, SetTTL, TInv, TypeOK
  <2> QED
    BY <2>1, <2>2, <2>3 DEF Belongs
<1> QED
  BY <1>1, <1>2, <1>3, <1>4, <1>5, <1>6, <1>7, <1>8, <1>9 DEF Next

LEMMA CodeStep ==
  ASSUME TInv, CodeInv, [Next]_vars
  PROVE  CodeInv'
<1>1. ASSUME NEW c \in Client, AskCode(c)
      PROVE  CodeInv'
  <2>1. PICK f \in Email : Call(c, "set", [email |-> f])
    BY <1>1 DEF AskCode
  <2>2. PICK j \in Code \ issued : issued' = issued \cup {j}
                                   /\ local' = [local EXCEPT ![c] = j]
    BY <1>1 DEF AskCode
  <2>3. /\ code' = code /\ mails' = mails
        /\ pc'[c] \in Verifying /\ req'[c] = [email |-> f] /\ local'[c] = j
    BY <1>1, <2>1, <2>2 DEF AskCode, Call, Goto, Verifying, TInv, TypeOK
  <2>4. \A d \in Client \ {c} :
          pc'[d] = pc[d] /\ local'[d] = local[d] /\ req'[d] = req[d]
    BY <1>1, StepAlone DEF Step, Alone
  <2>5. ASSUME NEW k \in Code, NEW e \in Email, Belongs(k, e)'
        PROVE  Belongs(k, e) \/ (k = j /\ e = f)
    BY <2>3, <2>4, <2>5 DEF Belongs
  <2>6. \A e \in Email : ~Belongs(j, e)
    BY DEF CodeInv
  <2> QED
    BY <2>2, <2>5, <2>6 DEF CodeInv
<1>2. ASSUME \A c \in Client : ~AskCode(c)
      PROVE  CodeInv'
  <2>1. issued' = issued
    BY <1>2 DEF Next, Step, SetCode, ExpireCode, SetFails, ExpireFails, SendMail, AskRegister, RegCheckCode,
         RegSelect, RegNextId, RegInsert, AskReset, RstCheckCode, RstCheckEmail,
         RstUpdate, AskLogin, CheckPwd, GetChatServer, ChatLogin, Crash, CodeEnds,
         verifyVars, vars
  <2> QED
    BY <1>2, <2>1, BelongsKept DEF CodeInv
<1> QED
  BY <1>1, <1>2

LEMMA MailsGrow ==
  ASSUME TInv, [Next]_vars
  PROVE  owner' = owner /\ \A e \in Email : mails[e] \subseteq mails'[e]
<1>1. ASSUME NEW c \in Client, SendMail(c)
      PROVE  owner' = owner /\ \A e \in Email : mails[e] \subseteq mails'[e]
  BY <1>1 DEF SendMail, TInv, TypeOK
<1>2. ASSUME \A c \in Client : ~SendMail(c)
      PROVE  owner' = owner /\ mails' = mails
  BY <1>2 DEF Next, Step, AskCode, SetCode, ExpireCode, SetFails, ExpireFails, AskRegister, RegCheckCode,
       RegSelect, RegNextId, RegInsert, AskReset, RstCheckCode, RstCheckEmail,
       RstUpdate, AskLogin, CheckPwd, GetChatServer, ChatLogin, Crash, CodeEnds,
       verifyVars, vars
<1> QED
  BY <1>1, <1>2

(* An accepted code comes from the mailbox of the form's address.          *)
LEMMA CodeIsOwn ==
  ASSUME TInv, CodeInv, FormInv, NEW c \in Client, pc[c] \in Unchecked, CodeMatches(c)
  PROVE  req[c].email = owner[c]
<1>1. req[c].email \in Email /\ req[c].code \in Code /\ owner[c] \in Email
  BY DEF TInv, CallOK, FormSet
<1>2. Belongs(req[c].code, req[c].email)
  BY DEF CodeMatches, Belongs
<1>3. Belongs(req[c].code, owner[c])
  BY DEF FormInv, Belongs
<1> QED
  BY <1>1, <1>2, <1>3 DEF CodeInv

LEMMA FormStep ==
  ASSUME TInv, CodeInv, FormInv, [Next]_vars
  PROVE  FormInv'
<1> DEFINE FormOK(c) ==
             /\ pc[c] \in Unchecked \cup Checked => req[c].code \in mails[owner[c]]
             /\ pc[c] \in Checked => req[c].email = owner[c]
<1>0. owner' = owner /\ \A d \in Client : owner[d] \in Email /\ mails[owner[d]] \subseteq mails'[owner[d]]
  BY MailsGrow DEF TInv
<1>1. ASSUME NEW c \in Client, pc'[c] = pc[c], req'[c] = req[c]
      PROVE  FormOK(c)'
  BY <1>0, <1>1 DEF FormInv
<1>2. ASSUME NEW c \in Client, Step(c)
      PROVE  FormOK(c)'
  <2>1. CASE AskRegister(c) \/ AskReset(c)
    <3>1. /\ pc'[c] \in Unchecked /\ req'[c] \in Form(c)
      BY <2>1 DEF AskRegister, AskReset, Call, Goto, Unchecked, TInv, TypeOK
    <3>2. req'[c].code \in mails[owner[c]]
      BY <3>1 DEF Form
    <3> QED
      BY <1>0, <3>1, <3>2 DEF Unchecked, Checked
  <2>2. CASE RegCheckCode(c) \/ RstCheckCode(c)
    <3>1. /\ pc[c] \in Unchecked /\ req' = req /\ pc'[c] \notin Unchecked
          /\ pc'[c] \in Checked => CodeMatches(c)
      BY <2>2 DEF RegCheckCode, RstCheckCode, Goto, Unchecked, Checked, callVars,
           TInv, TypeOK
    <3> QED
      BY <1>0, <3>1, CodeIsOwn DEF FormInv
  <2>3. CASE RegSelect(c) \/ RegNextId(c) \/ RegInsert(c) \/ RstCheckEmail(c)
             \/ RstUpdate(c)
    <3>1. pc[c] \in Checked /\ req' = req /\ pc'[c] \notin Unchecked
      BY <2>3 DEF RegSelect, RegNextId, RegInsert, RstCheckEmail, RstUpdate, Goto,
           Unchecked, Checked, callVars, TInv, TypeOK
    <3> QED
      BY <1>0, <3>1 DEF FormInv
  <2>4. CASE AskCode(c) \/ SetCode(c) \/ ExpireCode(c) \/ SetFails(c) \/ ExpireFails(c) \/ SendMail(c) \/ AskLogin(c)
             \/ CheckPwd(c) \/ GetChatServer(c) \/ ChatLogin(c)
    <3>1. pc'[c] \notin Unchecked \cup Checked
      BY <2>4 DEF AskCode, SetCode, Then, ExpireCode, SetFails, ExpireFails, SendMail, AskLogin, CheckPwd,
           GetChatServer, ChatLogin, Call, Goto, Unchecked, Checked, TInv, TypeOK
    <3> QED
      BY <3>1
  <2> QED
    BY <1>2, <2>1, <2>2, <2>3, <2>4 DEF Step
<1>3. ASSUME NEW c \in Client, Step(c), NEW d \in Client
      PROVE  FormOK(d)'
  BY <1>1, <1>2, <1>3, StepAlone DEF Alone
<1>4. ASSUME Crash, NEW d \in Client
      PROVE  FormOK(d)'
  <2>1. pc'[d] = pc[d] \/ pc'[d] = "out"
    BY <1>4 DEF Crash
  <2>2. req'[d] = req[d]
    BY <1>4 DEF Crash, callVars
  <2> QED
    BY <1>1, <2>1, <2>2 DEF Unchecked, Checked
<1>5. ASSUME (\E e \in Email : CodeEnds(e)) \/ UNCHANGED vars, NEW d \in Client
      PROVE  FormOK(d)'
  BY <1>1, <1>5 DEF CodeEnds, callVars, vars
<1> QED
  BY <1>3, <1>4, <1>5 DEF Next, FormInv

(* How the table changes.                                                  *)
LEMMA UsersStep ==
  ASSUME TInv, [Next]_vars
  PROVE  \/ users' = users
         \/ \E c \in Client : RegInsert(c) \/ RstUpdate(c)
BY DEF Next, Step, AskCode, SetCode, ExpireCode, SetFails, ExpireFails, SendMail, AskRegister, RegCheckCode,
     RegSelect, RegNextId, AskReset, RstCheckCode, RstCheckEmail,
     AskLogin, CheckPwd, GetChatServer, ChatLogin, Crash, CodeEnds,
     mysqlVars, vars

Updated(u, c) == IF u.name = req[c].name THEN [u EXCEPT !.pwd = owner[c]] ELSE u

(* UpdatePwd changes passwords only.                                       *)
LEMMA RowsUpdated ==
  ASSUME TInv, NEW c \in Client, RstUpdate(c)
  PROVE  /\ \A u \in users : Updated(u, c) \in users'
         /\ \A u \in users' : \E v \in users : u = Updated(v, c)
         /\ \A v \in users : /\ Updated(v, c).name = v.name
                             /\ Updated(v, c).email = v.email
                             /\ v.name = req[c].name => Updated(v, c).pwd = owner[c]
                             /\ v.name # req[c].name => Updated(v, c) = v
<1>1. \A u \in users' : \E v \in users : u = Updated(v, c)
  BY DEF RstUpdate, Updated
<1>2. \A u \in users : Updated(u, c) \in users'
  BY DEF RstUpdate, Updated
<1>3. ASSUME NEW v \in users
      PROVE  /\ Updated(v, c).name = v.name
             /\ Updated(v, c).email = v.email
             /\ v.name = req[c].name => Updated(v, c).pwd = owner[c]
             /\ v.name # req[c].name => Updated(v, c) = v
  <2>1. v \in [uid : Uid, name : Name, email : Email, pwd : Email]
    BY DEF TInv, TypeOK
  <2> QED
    BY <2>1 DEF Updated
<1> QED
  BY <1>1, <1>2, <1>3

LEMMA NameStep ==
  ASSUME TInv, NameInv, [Next]_vars
  PROVE  NameInv'
<1> DEFINE Row(c) == \E u \in users : u.name = req[c].name /\ u.email = req[c].email
<1> DEFINE Named == Unique => \A u, v \in users : u.name = v.name => u.email = v.email
<1> USE DEF NameInv
<1>1. ASSUME NEW c \in Client, RegInsert(c)
      PROVE  NameInv'
  <2>1. pc'[c] # "rstUpdate" /\ req' = req
    BY <1>1 DEF RegInsert, Goto, callVars, TInv, TypeOK
  <2>2. \A d \in Client \ {c} : pc'[d] = pc[d]
    BY <1>1, StepAlone DEF Step, Alone
  <2>3. users \subseteq users'
    BY <1>1 DEF RegInsert
  <2>4. Named'
    BY <1>1 DEF RegInsert, Taken
  <2> QED
    BY <2>1, <2>2, <2>3, <2>4
<1>2. ASSUME NEW c \in Client, RstUpdate(c)
      PROVE  NameInv'
  <2>1. pc'[c] # "rstUpdate" /\ req' = req
    BY <1>2 DEF RstUpdate, Goto, callVars, TInv, TypeOK
  <2>2. \A d \in Client \ {c} : pc'[d] = pc[d]
    BY <1>2, StepAlone DEF Step, Alone
  <2>3. \A d \in Client : Row(d) => Row(d)'
    BY <1>2, <2>1, RowsUpdated
  <2>4. Named'
    BY <1>2, RowsUpdated
  <2> QED
    BY <2>1, <2>2, <2>3, <2>4
<1>3. ASSUME NEW c \in Client, RstCheckEmail(c)
      PROVE  NameInv'
  <2>1. users' = users /\ req' = req
    BY <1>3 DEF RstCheckEmail, mysqlVars, callVars
  <2>2. pc'[c] = "rstUpdate" => Row(c)
    BY <1>3 DEF RstCheckEmail, Goto, TInv, TypeOK
  <2>3. \A d \in Client \ {c} : pc'[d] = pc[d]
    BY <1>3, StepAlone DEF Step, Alone
  <2> QED
    BY <2>1, <2>2, <2>3
<1>4. ASSUME users' = users,
             \A d \in Client : pc'[d] = "rstUpdate" =>
               pc[d] = "rstUpdate" /\ req'[d] = req[d]
      PROVE  NameInv'
  BY <1>4
<1>5. ASSUME NEW c \in Client, Step(c), ~RegInsert(c), ~RstUpdate(c), ~RstCheckEmail(c)
      PROVE  NameInv'
  <2>1. users' = users
    BY <1>5 DEF Step, AskCode, SetCode, ExpireCode, SetFails, ExpireFails, SendMail, AskRegister,
         RegCheckCode, RegSelect, RegNextId, AskReset, RstCheckCode, AskLogin,
         CheckPwd, GetChatServer, ChatLogin, mysqlVars
  <2>2. pc'[c] # "rstUpdate"
    BY <1>5 DEF Step, AskCode, SetCode, Then, ExpireCode, SetFails, ExpireFails, SendMail, AskRegister,
         RegCheckCode, RegSelect, RegNextId, AskReset, RstCheckCode, AskLogin,
         CheckPwd, GetChatServer, ChatLogin, Call, Goto, TInv, TypeOK
  <2>3. \A d \in Client \ {c} : pc'[d] = pc[d] /\ req'[d] = req[d]
    BY <1>5, StepAlone DEF Alone
  <2> QED
    BY <1>4, <2>1, <2>2, <2>3
<1>6. ASSUME Crash \/ (\E e \in Email : CodeEnds(e)) \/ UNCHANGED vars
      PROVE  NameInv'
  BY <1>4, <1>6 DEF Crash, CodeEnds, vars, mysqlVars, callVars
<1> QED
  BY <1>1, <1>2, <1>3, <1>5, <1>6 DEF Next

LEMMA OwnedStep ==
  ASSUME TInv, FormInv, NameInv, PasswordOwned, [Next]_vars
  PROVE  PasswordOwned'
<1> SUFFICES ASSUME Unique, NEW u \in users'
             PROVE  u.pwd = u.email
  BY DEF PasswordOwned
<1>1. \A v \in users : v.pwd = v.email
  BY DEF PasswordOwned
<1>2. CASE users' = users
  BY <1>1, <1>2
<1>3. ASSUME NEW c \in Client, RegInsert(c)
      PROVE  u.pwd = u.email
  <2>1. req[c].email = owner[c]
    BY <1>3 DEF RegInsert, FormInv, Checked
  <2> QED
    BY <1>1, <1>3, <2>1 DEF RegInsert
<1>4. ASSUME NEW c \in Client, RstUpdate(c)
      PROVE  u.pwd = u.email
  <2>1. pc[c] = "rstUpdate" /\ req[c].email = owner[c]
    BY <1>4 DEF RstUpdate, FormInv, Checked
  <2>2. PICK w \in users : w.name = req[c].name /\ w.email = req[c].email
    BY <2>1 DEF NameInv
  <2>3. PICK v \in users : u = Updated(v, c)
    BY <1>4, RowsUpdated
  <2>4. CASE v.name = req[c].name
    <3>1. v.email = owner[c]
      BY <2>1, <2>2, <2>4 DEF NameInv
    <3> QED
      BY <1>4, <2>3, <2>4, <3>1, RowsUpdated
  <2>5. CASE v.name # req[c].name
    BY <1>1, <1>4, <2>3, <2>5, RowsUpdated
  <2> QED
    BY <2>4, <2>5
<1> QED
  BY <1>2, <1>3, <1>4, UsersStep

OwnedInv == TInv /\ CodeInv /\ FormInv /\ NameInv /\ PasswordOwned

LEMMA OwnedInit == ASSUME Init PROVE OwnedInv
<1>1. PICK s \in Settings : users = s.rows
  BY DEF Init
<1>2. /\ \A u \in users : u.pwd = u.email
      /\ \A u, v \in users : u = v
  BY <1>1, FirstRows
<1>3. /\ \A c \in Client : pc[c] = "out"
      /\ \A e \in Email : code[e].val = None /\ mails[e] = {}
  BY DEF Init, NoCode
<1>4. CodeInv
  BY <1>3, AccountAssumption DEF CodeInv, Belongs, Verifying
<1>5. FormInv /\ NameInv /\ PasswordOwned
  BY <1>2, <1>3 DEF FormInv, NameInv, PasswordOwned, Unchecked, Checked
<1> QED
  BY <1>4, <1>5, TypeInit DEF OwnedInv

(* With unique keys on name and address nobody sets the password of        *)
(* another's account, however forms mix up codes, names and addresses and  *)
(* however the calls overlap (/user_register, /reset_pwd).                 *)
THEOREM PasswordsOwned == Spec => []PasswordOwned
<1>1. Init => OwnedInv
  BY OwnedInit
<1>2. OwnedInv /\ [Next]_vars => OwnedInv'
  BY TypeNext, CodeStep, FormStep, NameStep, OwnedStep DEF OwnedInv
<1>3. OwnedInv => PasswordOwned
  BY DEF OwnedInv
<1> QED
  BY <1>1, <1>2, <1>3, PTL DEF Spec

-----------------------------------------------------------------------------
(* Account implements Directory.                                           *)
AccountInv == TInv /\ IdInv /\ UidsDistinct /\ CodeInv /\ FormInv /\ NameInv

LEMMA AccountInvInit == ASSUME Init PROVE AccountInv
BY OwnedInit, UidsInit DEF OwnedInv, AccountInv

LEMMA AccountInvStep == ASSUME AccountInv, [Next]_vars PROVE AccountInv'
BY TypeNext, UidStep, CodeStep, FormStep, NameStep DEF AccountInv

LEMMA DirectoryInit == ASSUME Init PROVE Accounts!Init
<1>1. PICK s \in Settings : users = s.rows
  BY DEF Init
<1>2. {e \in Email : mails[e] # {}} = {}
  BY DEF Init
<1> QED
  BY <1>1, <1>2, FirstRows DEF Accounts!Init

(* A mail that arrives makes its address one that has been mailed.         *)
LEMMA MailArrives ==
  ASSUME TInv, NEW c \in Client, SendMail(c)
  PROVE  [Accounts!Next]_(Accounts!vars)
<1> DEFINE e == req[c].email
<1>1. /\ pc[c] = "mail" /\ users' = users
      /\ \/ mails' = [mails EXCEPT ![e] = @ \cup {local[c]}]
         \/ mails' = mails
  BY DEF SendMail, mysqlVars
<1>2. e \in Email
  BY <1>1 DEF TInv, CallOK, Verifying
<1> HIDE DEF e
<1>3. CASE mails' = [mails EXCEPT ![e] = @ \cup {local[c]}]
  <2>1. {d \in Email : mails'[d] # {}} = {d \in Email : mails[d] # {}} \cup {e}
    BY <1>2, <1>3 DEF TInv, TypeOK
  <2>2. \E d \in Email : Accounts!Mail(d)
    BY <1>1, <1>2, <2>1 DEF Accounts!Mail
  <2> QED
    BY <2>2 DEF Accounts!Next
<1>4. CASE mails' = mails
  BY <1>1, <1>4 DEF Accounts!vars
<1> QED
  BY <1>1, <1>3, <1>4

(* Where a form has been accepted, its address has been mailed.            *)
LEMMA FormMailed ==
  ASSUME TInv, FormInv, NEW c \in Client, pc[c] \in Checked
  PROVE  /\ req[c].name \in Name /\ req[c].email \in Email
         /\ req[c].email = owner[c] /\ mails[req[c].email] # {}
BY DEF TInv, CallOK, FormSet, FormInv

(* INSERT and COMMIT: a new account of the reader of its mailbox.          *)
LEMMA RowInserted ==
  ASSUME TInv, IdInv, FormInv, NEW c \in Client, RegInsert(c)
  PROVE  [Accounts!Next]_(Accounts!vars)
<1> DEFINE n == req[c].name
<1> DEFINE e == req[c].email
<1>1. /\ pc[c] = "regInsert" /\ mails' = mails
      /\ \/ users' = users
         \/ /\ ~(Unique /\ Taken(req[c]))
            /\ users' = users \cup {[uid |-> local[c], name |-> n,
                                     email |-> e, pwd |-> owner[c]]}
  BY DEF RegInsert, verifyVars
<1>2. n \in Name /\ e \in Email /\ e = owner[c] /\ mails[e] # {}
  BY <1>1, FormMailed DEF Checked
<1>3. CASE users' = users
  BY <1>1, <1>3 DEF Accounts!vars
<1>4. ASSUME ~(Unique /\ Taken(req[c])),
             users' = users \cup {[uid |-> local[c], name |-> n,
                                   email |-> e, pwd |-> owner[c]]}
      PROVE  Accounts!Register(n, e)
  <2>1. Unique => \A u \in users : u.name # n /\ u.email # e
    BY <1>4 DEF Taken
  <2>2. local[c] \in Uid /\ \A u \in users : u.uid < local[c]
    <3>1. local[c] \in Uid /\ local[c] = userId + 1 /\ userId \in Nat
      BY <1>1 DEF TInv, TypeOK, CallOK, IdInv, Uid
    <3>2. \A u \in users : u.uid \in Nat /\ u.uid <= userId
      BY DEF TInv, TypeOK, IdInv, Uid
    <3> QED
      BY <3>1, <3>2
  <2>3. users' = users \cup {[uid |-> local[c], name |-> n, email |-> e, pwd |-> e]}
    BY <1>2, <1>4
  <2> HIDE DEF n, e
  <2> QED
    BY <1>1, <1>2, <2>1, <2>2, <2>3 DEF Accounts!Register
<1> QED
  BY <1>1, <1>2, <1>3, <1>4 DEF Accounts!Next

(* UpdatePwd: the accounts with the name get the password of the reader.   *)
LEMMA PasswordSet ==
  ASSUME TInv, FormInv, NameInv, NEW c \in Client, RstUpdate(c)
  PROVE  [Accounts!Next]_(Accounts!vars)
<1> DEFINE n == req[c].name
<1> DEFINE e == req[c].email
<1>1. pc[c] = "rstUpdate" /\ mails' = mails
  BY DEF RstUpdate, verifyVars
<1>2. n \in Name /\ e \in Email /\ e = owner[c] /\ mails[e] # {}
  BY <1>1, FormMailed DEF Checked
<1>3. \E u \in users : u.name = n /\ u.email = e
  BY <1>1 DEF NameInv
<1>4. users' = {IF u.name = n THEN [u EXCEPT !.pwd = e] ELSE u : u \in users}
  <2>1. \A u \in users : Updated(u, c) = IF u.name = n THEN [u EXCEPT !.pwd = e] ELSE u
    BY <1>2 DEF Updated
  <2>2. users' = {Updated(u, c) : u \in users}
    BY RowsUpdated
  <2> QED
    BY <2>1, <2>2
<1>5. Accounts!Reset(n, e)
  <2> HIDE DEF n, e
  <2> QED
    BY <1>1, <1>2, <1>3, <1>4 DEF Accounts!Reset
<1> QED
  BY <1>2, <1>5 DEF Accounts!Next

LEMMA DirectoryStep ==
  ASSUME AccountInv, [Next]_vars
  PROVE  [Accounts!Next]_(Accounts!vars)
<1>1. CASE \E c \in Client : SendMail(c)
  BY <1>1, MailArrives DEF AccountInv
<1>2. CASE \E c \in Client : RegInsert(c)
  BY <1>2, RowInserted DEF AccountInv
<1>3. CASE \E c \in Client : RstUpdate(c)
  BY <1>3, PasswordSet DEF AccountInv
<1>4. CASE \A c \in Client : ~SendMail(c) /\ ~RegInsert(c) /\ ~RstUpdate(c)
  <2>1. users' = users /\ mails' = mails
    BY <1>4 DEF Next, Step, AskCode, SetCode, ExpireCode, SetFails, ExpireFails, AskRegister, RegCheckCode,
         RegSelect, RegNextId, AskReset, RstCheckCode, RstCheckEmail, AskLogin,
         CheckPwd, GetChatServer, ChatLogin, Crash, CodeEnds, verifyVars,
         mysqlVars, vars
  <2> QED
    BY <2>1 DEF Accounts!vars
<1> QED
  BY <1>1, <1>2, <1>3, <1>4

(* Every step of a handler or of VarifyServer is one Directory allows.     *)
THEOREM DirectoryImplemented == Spec => DirectorySpec
<1>1. Init => AccountInv /\ Accounts!Init
  BY AccountInvInit, DirectoryInit
<1>2. AccountInv /\ [Next]_vars => AccountInv' /\ [Accounts!Next]_(Accounts!vars)
  BY AccountInvStep, DirectoryStep
<1> QED
  BY <1>1, <1>2, PTL DEF Spec, DirectorySpec, Accounts!Spec

(* What a step of Directory does to the accounts there are.                *)
LEMMA DirectoryKeeps ==
  ASSUME TInv, [Accounts!Next]_(Accounts!vars)
  PROVE  Accounts!AccountsStay
<1> DEFINE Same(u, v) == <<v.uid, v.name, v.email>> = <<u.uid, u.name, u.email>>
<1> DEFINE mailed == {e \in Email : mails[e] # {}}
<1>0. \A u \in users : u \in [uid : Uid, name : Name, email : Email, pwd : Email]
  BY DEF TInv, TypeOK
<1>1. CASE users' = users
  BY <1>1 DEF Accounts!AccountsStay
<1>2. ASSUME NEW n \in Name, NEW e \in Email, Accounts!Register(n, e)
      PROVE  Accounts!AccountsStay
  BY <1>2 DEF Accounts!Register, Accounts!AccountsStay
<1>3. ASSUME NEW n \in Name, NEW e \in Email, Accounts!Reset(n, e)
      PROVE  Accounts!AccountsStay
  <2> DEFINE New(u) == IF u.name = n THEN [u EXCEPT !.pwd = e] ELSE u
  <2>1. /\ users' = {New(u) : u \in users} /\ e \in mailed
        /\ \E w \in users : w.name = n /\ w.email = e
    BY <1>3 DEF Accounts!Reset
  <2>2. \A u \in users :
          /\ Same(u, New(u))
          /\ New(u).pwd = u.pwd \/ (New(u).pwd = e /\ u.name = n)
    BY <1>0
  <2> HIDE DEF New, Same, mailed
  <2>3. /\ \A u \in users : \E v \in users' :
             /\ Same(u, v)
             /\ \/ v.pwd = u.pwd
                \/ /\ v.pwd \in mailed
                   /\ \E w \in users : w.name = u.name /\ w.email = v.pwd
        /\ \A v \in users' : \E u \in users : Same(u, v)
    BY <2>1, <2>2
  <2> QED
    BY <2>3 DEF Accounts!AccountsStay, Same, mailed
<1>4. CASE \E e \in Email : Accounts!Mail(e)
  BY <1>1, <1>4 DEF Accounts!Mail
<1> QED
  BY <1>1, <1>2, <1>3, <1>4 DEF Accounts!Next, Accounts!vars

(* With or without unique keys: no account vanishes or changes its uid,    *)
(* name or address, and a new password is of someone who was mailed a code *)
(* and has an account of the same name (RegUserTransaction, UpdatePwd).    *)
THEOREM AccountsKept == Spec => [][Accounts!AccountsStay]_vars
<1>1. Init => AccountInv
  BY AccountInvInit
<1>2. AccountInv /\ [Next]_vars => AccountInv' /\ Accounts!AccountsStay
  BY AccountInvStep, DirectoryStep, DirectoryKeeps DEF AccountInv
<1> QED
  BY <1>1, <1>2, PTL DEF Spec
=============================================================================
