--------------------------- MODULE ProfileProofs ---------------------------
(***************************************************************************)
(* Theorems about Profile for any number of requests, users, e-mails and   *)
(* faults.                                                                 *)
(***************************************************************************)
EXTENDS Profile, TLAPS

Fields == {"name", "email", "username", "verified"}

\* The request shows the code that was mailed to the e-mail it is about.
Shown(r) == input[r] \in mailed /\ email[input[r]] = email[r]

\* What a request may ask for: a verified e-mail, which is to be the user name
\* too, or neither, and then another e-mail in UpdateProfile only.
AskOK(r) ==
  /\ \A k \in Record : With(k, ask[r]) \in Record
  /\ DOMAIN ask[r] \subseteq Fields
  /\ \/ /\ "username" \notin DOMAIN ask[r] /\ "verified" \notin DOMAIN ask[r]
        /\ "email" \in DOMAIN ask[r] => email[r] = None
     \/ /\ {"email", "username", "verified"} \subseteq DOMAIN ask[r]
        /\ email[r] \in Email /\ ask[r]["email"] = email[r] /\ ask[r]["username"] = email[r]

\* What a request has in its hands, by the call it is about to make.
Stage(r) ==
  /\ pc[r] = "start" => ask[r] = <<>>
  /\ pc[r] \in {"find", "store", "mail", "read", "consume", "verified"} =>
       email[r] \in Email
  /\ pc[r] = "get" => email[r] = None
  /\ pc[r] = "read" => input[r] \in mailed \cup {None}
  /\ pc[r] \in {"consume", "verified"} => Shown(r)
  /\ (pc[r] = "put" \/ r \in wrote) /\ "username" \in DOMAIN ask[r] => Shown(r)
  /\ pc[r] = "put" \/ r \in wrote => user[r] \in User
  /\ r \in mailed \cup wrote => pc[r] = "done"
  /\ result[r] = "updated" => r \in wrote
  /\ AskOK(r)
Stages ==
  /\ DOMAIN ask = Req /\ DOMAIN copy = Req
  /\ \A r \in Req : Stage(r)

\* A code is stored under the e-mail it is mailed to.
CodeOfEmail ==
  \A e \in Email : code[e] # None =>
    email[code[e]] = e /\ pc[code[e]] \in {"mail", "done"}

\* The fields a request asked for are in the record k, or there is an excuse.
Lost(q, f) ==
  \E p \in wrote \ {q} : user[p] = user[q] /\ (f \in DOMAIN ask[p] \/ q \notin prior[p])
InForce(k, q) == \A f \in DOMAIN ask[q] : k[f] # ask[q][f] => Lost(q, f)

\* Every write is in force in the record and in the copies read after it.
WritesInForce ==
  /\ \A q \in wrote : InForce(record[user[q]], q)
  /\ \A r \in Req : pc[r] = "put" =>
       \A q \in prior[r] : q \in wrote /\ user[q] = user[r] /\ InForce(copy[r], q)

\* The e-mails of a record k of user u were shown or put there.
Proved(u, k) ==
  /\ k["username"] # None => ShownBy(u, k["username"])
  /\ k["verified"] => ShownBy(u, k["email"]) \/ PutBy(u, k["email"])
EmailsProved ==
  /\ \A u \in User : Proved(u, record[u])
  /\ \A r \in Req : pc[r] = "put" => Proved(user[r], copy[r])

IInv ==
  /\ TypeOK
  /\ Stages
  /\ CodeOfEmail
  /\ WritesInForce
  /\ EmailsProved

\* The steps of a request's goroutine.
Act(r) ==
  \/ Update(r) \/ ChangeEmail(r) \/ FindForSend(r) \/ Get(r) \/ Put(r)
  \/ CodeCall(r) /\ UNCHANGED others

-----------------------------------------------------------------------------
\* The fields of the partial record, and those of the record it leaves alone.
LEMMA WithFields ==
  ASSUME NEW k \in Record, NEW a, NEW f \in {"name", "email", "username", "verified"}
  PROVE  With(k, a)[f] = IF f \in DOMAIN a THEN a[f] ELSE k[f]
BY DEF With, Record

\* The record that users start with is one.
LEMMA OldRecord == Old \in Record
BY DEF Old, Record

\* A partial record makes a record out of a record.
LEMMA WithIsRecord ==
  ASSUME NEW k \in Record, NEW a,
         "name" \in DOMAIN a => a["name"] \in Req,
         "email" \in DOMAIN a => a["email"] \in Email,
         "username" \in DOMAIN a => a["username"] \in Email,
         "verified" \in DOMAIN a => a["verified"] \in BOOLEAN
  PROVE  With(k, a) \in Record
<1> DEFINE w == With(k, a)
<1>1. w = [name |-> w["name"], email |-> w["email"], username |-> w["username"],
           verified |-> w["verified"]]
  BY DEF With, Record
<1>2. /\ k["name"] \in Req \cup {None} /\ k["email"] \in Email \cup {None}
      /\ k["username"] \in Email \cup {None} /\ k["verified"] \in BOOLEAN
  BY DEF Record
<1>3. /\ w["name"] \in Req \cup {None} /\ w["email"] \in Email \cup {None}
      /\ w["username"] \in Email \cup {None} /\ w["verified"] \in BOOLEAN
  BY <1>2, WithFields
<1> HIDE DEF w
<1>4. w \in Record
  BY <1>1, <1>3 DEF Record
<1> QED
  BY <1>4 DEF w

\* Whatever a request may ask for makes a record of a record.
LEMMA AsksFit ==
  ASSUME NEW k \in Record
  PROVE  /\ With(k, <<>>) \in Record
         /\ \A r \in Req : With(k, [name |-> r]) \in Record
         /\ \A e \in Email : With(k, [email |-> e]) \in Record
         /\ \A e \in Email : With(k, [email |-> e, username |-> e, verified |-> TRUE]) \in Record
<1>1. With(k, <<>>) \in Record
  BY WithIsRecord
<1>2. ASSUME NEW r \in Req PROVE With(k, [name |-> r]) \in Record
  BY WithIsRecord
<1>3. ASSUME NEW e \in Email PROVE With(k, [email |-> e]) \in Record
  BY WithIsRecord
<1>4. ASSUME NEW e \in Email
      PROVE  With(k, [email |-> e, username |-> e, verified |-> TRUE]) \in Record
  BY WithIsRecord
<1> QED
  BY <1>1, <1>2, <1>3, <1>4

\* The invariant holds at the start.
LEMMA InitInv == Init => IInv
<1> SUFFICES ASSUME Init PROVE IInv
  OBVIOUS
<1> USE DEF Init, CodeInit
<1>1. \A k \in Record : With(k, <<>>) \in Record
  BY AsksFit
<1>2. TypeOK
  <2>1. \A r \in Req : Changed(r) \in Record /\ copy[r] \in Record
    BY <1>1, OldRecord DEF Changed
  <2> QED
    BY <2>1, OldRecord, FaultAssumption DEF TypeOK, CodeTypeOK
<1>3. ASSUME NEW r \in Req PROVE AskOK(r)
  <2>1. ask[r] = <<>>
    OBVIOUS
  <2>2. "username" \notin DOMAIN <<>> /\ "verified" \notin DOMAIN <<>>
          /\ "email" \notin DOMAIN <<>>
    OBVIOUS
  <2> QED
    BY <1>1, <2>1, <2>2 DEF AskOK
<1>4. Stages
  BY <1>3 DEF Stages, Stage
<1>5. CodeOfEmail /\ WritesInForce
  BY DEF CodeOfEmail, WritesInForce
<1>6. EmailsProved
  BY DEF EmailsProved, Proved, Old
<1> QED
  BY <1>2, <1>4, <1>5, <1>6 DEF IInv

\* A step of a request leaves the other requests' rows alone.
SameRow(q) ==
  /\ pc'[q] = pc[q] /\ result'[q] = result[q] /\ email'[q] = email[q]
  /\ input'[q] = input[q] /\ user'[q] = user[q] /\ ask'[q] = ask[q]
  /\ copy'[q] = copy[q] /\ prior'[q] = prior[q]
  /\ q \in mailed' <=> q \in mailed
  /\ q \in wrote' <=> q \in wrote

\* A step of a request touches the row of that request alone.
LEMMA ActRows ==
  ASSUME TypeOK, Stages, NEW r \in Req, Act(r)
  PROVE  /\ \A q \in Req \ {r} : SameRow(q)
         /\ pc[r] # "start" =>
              /\ email'[r] = email[r] /\ input'[r] = input[r]
              /\ user'[r] = user[r] /\ ask'[r] = ask[r]
         /\ pc[r] # "done"
         /\ mailed \subseteq mailed' /\ wrote \subseteq wrote'
         /\ DOMAIN ask' = Req /\ DOMAIN copy' = Req
<1> USE DEF TypeOK, CodeTypeOK, SameRow, Goto, Answer, Fault, NoFault, Badly, others, Stages
<1>1. CASE Update(r)
  BY <1>1 DEF Update, Begin
<1>2. CASE ChangeEmail(r)
  BY <1>2 DEF ChangeEmail, Begin
<1>3. CASE CodeCall(r) /\ UNCHANGED others
  BY <1>3 DEF CodeCall, StoreCode, MailCode, ReadCode, ConsumeCode
<1>4. CASE FindForSend(r)
  BY <1>4 DEF FindForSend
<1>5. CASE Get(r)
  BY <1>5 DEF Get
<1>6. CASE Put(r)
  BY <1>6 DEF Put, Write
<1> QED
  BY <1>1, <1>2, <1>3, <1>4, <1>5, <1>6 DEF Act

\* A step that no request makes is the TTL of a code, or nothing.
LEMMA QuietRows ==
  ASSUME [Next]_vars, \A r \in Req : ~Act(r)
  PROVE  UNCHANGED <<pc, result, email, input, mailed, faults, others>>
BY DEF Next, vars, Act, ExpireCode, codeVars, flow, others

\* A request that has begun keeps what it has asked for.
SameAsk(q) ==
  /\ email'[q] = email[q] /\ input'[q] = input[q] /\ user'[q] = user[q]
  /\ ask'[q] = ask[q] /\ (pc[q] \in {"put", "done"} => prior'[q] = prior[q])

\* A row stays as it is unless its own request takes the step.
LEMMA RowOrAct ==
  ASSUME TypeOK, Stages, [Next]_vars, NEW r \in Req
  PROVE  SameRow(r) \/ Act(r)
<1>1. ASSUME NEW q \in Req \ {r}, Act(q) PROVE SameRow(r)
  BY <1>1, ActRows
<1>2. CASE \A q \in Req : ~Act(q)
  BY <1>2, QuietRows DEF SameRow, others
<1> QED
  BY <1>1, <1>2

\* What is done stays as it is.
LEMMA Stays ==
  ASSUME TypeOK, Stages, [Next]_vars
  PROVE  /\ \A q \in Req : pc[q] = "done" => SameRow(q)
         /\ \A q \in Req : pc[q] # "start" =>
              /\ email'[q] = email[q] /\ input'[q] = input[q]
              /\ user'[q] = user[q] /\ ask'[q] = ask[q]
         /\ mailed \subseteq mailed' /\ wrote \subseteq wrote'
         /\ DOMAIN ask' = Req /\ DOMAIN copy' = Req
<1>1. ASSUME NEW q \in Req, pc[q] # "start"
      PROVE  /\ pc[q] = "done" => SameRow(q)
             /\ email'[q] = email[q] /\ input'[q] = input[q]
             /\ user'[q] = user[q] /\ ask'[q] = ask[q]
  <2>1. CASE Act(q)
    BY <1>1, <2>1, ActRows
  <2>2. CASE SameRow(q)
    BY <2>2 DEF SameRow
  <2> QED
    BY <2>1, <2>2, RowOrAct
<1>2. /\ mailed \subseteq mailed' /\ wrote \subseteq wrote'
      /\ DOMAIN ask' = Req /\ DOMAIN copy' = Req
  <2>1. ASSUME NEW r \in Req, Act(r)
        PROVE  /\ mailed \subseteq mailed' /\ wrote \subseteq wrote'
               /\ DOMAIN ask' = Req /\ DOMAIN copy' = Req
    BY <2>1, ActRows
  <2>2. CASE \A r \in Req : ~Act(r)
    BY <2>2, QuietRows DEF others, Stages
  <2> QED
    BY <2>1, <2>2
<1> QED
  BY <1>1, <1>2

\* Every step preserves the types.
LEMMA StepType ==
  ASSUME IInv, [Next]_vars
  PROVE  TypeOK'
<1> USE FaultAssumption
        DEF IInv, TypeOK, CodeTypeOK, Goto, Answer, Fault, NoFault, Badly, flow, others, codeVars
<1>0. \A r \in Req : AskOK(r) /\ copy[r] \in Record
  BY DEF Stages, Stage
<1>1. ASSUME NEW r \in Req, Update(r) PROVE TypeOK'
  <2>1. PICK u \in User, a \in {<<>>, [name |-> r]} \cup {[email |-> e] : e \in Email} :
          /\ Begin(r, "get", None, None)
          /\ user' = [user EXCEPT ![r] = u]
          /\ ask' = [ask EXCEPT ![r] = a]
    BY <1>1 DEF Update
  <2>2. With(copy[r], a) \in Record
    BY <1>0, AsksFit
  <2>3. \A q \in Req : Changed(q)' \in Record /\ copy'[q] \in Record
    BY <1>0, <1>1, <2>1, <2>2 DEF Update, Changed, Stages
  <2> QED
    BY <1>1, <2>1, <2>3 DEF Update, Begin
<1>2. ASSUME NEW r \in Req, ChangeEmail(r) PROVE TypeOK'
  <2>1. PICK e \in Email :
          \/ Begin(r, "find", e, None) /\ UNCHANGED <<user, ask>>
          \/ \E c \in mailed \cup {None}, u \in User \cup {None} :
               /\ Begin(r, "read", e, c)
               /\ user' = [user EXCEPT ![r] = u]
               /\ ask' = [ask EXCEPT ![r] = [email |-> e, username |-> e, verified |-> TRUE]]
    BY <1>2 DEF ChangeEmail
  <2>2. With(copy[r], [email |-> e, username |-> e, verified |-> TRUE]) \in Record
    BY <1>0, AsksFit
  <2>3. \A q \in Req : Changed(q)' \in Record /\ copy'[q] \in Record
    BY <1>0, <1>2, <2>1, <2>2 DEF ChangeEmail, Changed, Stages
  <2> QED
    BY <1>2, <2>1, <2>3 DEF ChangeEmail, Begin
<1>3. ASSUME UNCHANGED <<ask, copy>>
      PROVE  \A q \in Req : Changed(q)' \in Record /\ copy'[q] \in Record
  BY <1>3 DEF Changed
<1>4. ASSUME NEW r \in Req, FindForSend(r) PROVE TypeOK'
  BY <1>3, <1>4 DEF FindForSend
<1>5. ASSUME NEW r \in Req, Get(r) PROVE TypeOK'
  <2>1. \A q \in Req : Changed(q)' \in Record /\ copy'[q] \in Record
    <3>1. user[r] \in User => record[user[r]] \in Record
      OBVIOUS
    <3>2. ask' = ask /\ (copy' = copy \/ (user[r] \in User /\ copy' = [copy EXCEPT ![r] = record[user[r]]]))
      BY <1>5 DEF Get
    <3>3. \A q \in Req : copy'[q] \in Record
      BY <1>0, <3>1, <3>2 DEF Stages
    <3> QED
      BY <1>0, <3>2, <3>3 DEF Changed, AskOK
  <2> QED
    BY <1>5, <2>1 DEF Get
<1>6. ASSUME NEW r \in Req, Put(r) PROVE TypeOK'
  <2>1. \A q \in Req : Changed(q)' \in Record /\ copy'[q] \in Record
    <3>1. ask' = ask /\ copy' = [copy EXCEPT ![r] = Old]
      BY <1>6 DEF Put
    <3>2. \A q \in Req : copy'[q] \in Record
      BY <1>0, <3>1, OldRecord DEF Stages
    <3> QED
      BY <1>0, <3>1, <3>2 DEF Changed, AskOK
  <2>2. record' \in [User -> Record]
    BY <1>6 DEF Put, Write
  <2> QED
    BY <1>6, <2>1, <2>2 DEF Put, Write
<1>7. ASSUME NEW r \in Req, CodeCall(r), UNCHANGED others PROVE TypeOK'
  <2>1. CASE StoreCode(r)
    BY <1>3, <1>7, <2>1 DEF StoreCode
  <2>2. CASE MailCode(r)
    BY <1>3, <1>7, <2>2 DEF MailCode
  <2>3. CASE ReadCode(r)
    BY <1>3, <1>7, <2>3 DEF ReadCode
  <2>4. CASE ConsumeCode(r)
    BY <1>3, <1>7, <2>4 DEF ConsumeCode
  <2> QED
    BY <1>7, <2>1, <2>2, <2>3, <2>4 DEF CodeCall
<1>8. ASSUME NEW e \in Email, ExpireCode(e), UNCHANGED others PROVE TypeOK'
  BY <1>3, <1>8 DEF ExpireCode
<1>9. CASE UNCHANGED vars
  BY <1>3, <1>9 DEF vars
<1> QED
  BY <1>1, <1>2, <1>4, <1>5, <1>6, <1>7, <1>8, <1>9 DEF Next

\* What a request shows stays shown.
LEMMA ShownStays ==
  ASSUME TypeOK, Stages, [Next]_vars, NEW q \in Req, Shown(q), pc[q] # "start"
  PROVE  Shown(q)'
<1>1. input[q] \in Req /\ pc[input[q]] = "done"
  BY DEF Shown, TypeOK, CodeTypeOK, Stages, Stage
<1> QED
  BY <1>1, Stays DEF Shown, SameRow

\* What a request has asked for stays what it was.
LEMMA AskStays ==
  ASSUME TypeOK, Stages, [Next]_vars, NEW q \in Req, pc[q] # "start"
  PROVE  AskOK(q)'
<1>1. ask'[q] = ask[q] /\ email'[q] = email[q] /\ AskOK(q)
  BY Stays DEF Stages, Stage
<1> QED
  BY <1>1 DEF AskOK

\* A request that does not move keeps what it has in its hands.
LEMMA SameStage ==
  ASSUME TypeOK, Stages, [Next]_vars, NEW q \in Req, SameRow(q)
  PROVE  Stage(q)'
<1>1. Stage(q) /\ mailed \subseteq mailed'
  BY Stays DEF Stages
<1>2. AskOK(q)'
  BY <1>1 DEF SameRow, Stage, AskOK
<1>3. Shown(q) /\ pc[q] # "start" => Shown(q)'
  BY ShownStays
<1> QED
  BY <1>1, <1>2, <1>3 DEF Stage, SameRow

\* Every step preserves what a request has in its hands.
LEMMA StepStages ==
  ASSUME IInv, [Next]_vars
  PROVE  Stages'
<1> USE DEF Goto, Answer
<1>0. /\ pc \in [Req -> {"find", "get", "put", "start", "store", "mail", "read", "consume",
                         "verified", "done"}]
      /\ result \in [Req -> {"taken", "updated", "none", "sent", "expired", "invalid",
                             "failed"}]
      /\ \A r \in Req : pc[r] = "done" <=> result[r] # "none"
      /\ email \in [Req -> Email \cup {None}] /\ input \in [Req -> Req \cup {None}]
      /\ user \in [Req -> User \cup {None}] /\ DOMAIN ask = Req
      /\ \A q \in Req : Stage(q)
      /\ \A q \in Req : q \in mailed \cup wrote => pc[q] = "done"
      /\ mailed \subseteq mailed' /\ None \notin Email /\ None \notin User
  BY Stays, CodeNoneAssumption, UserAssumption DEF IInv, TypeOK, CodeTypeOK, Stages, Stage
<1>1. ASSUME NEW r \in Req, Update(r) PROVE Stage(r)'
  <2>1. AskOK(r)'
    <3>1. PICK u \in User, a \in {<<>>, [name |-> r]} \cup {[email |-> x] : x \in Email} :
            Begin(r, "get", None, None) /\ ask' = [ask EXCEPT ![r] = a]
      BY <1>1 DEF Update
    <3>2. ask'[r] = a /\ email'[r] = None
      BY <1>0, <3>1 DEF Begin
    <3>3. DOMAIN a \subseteq {"name", "email"}
      OBVIOUS
    <3>4. \A k \in Record : With(k, a) \in Record
      BY AsksFit
    <3> QED
      BY <3>2, <3>3, <3>4 DEF AskOK, Fields
  <2> QED
    BY <1>0, <1>1, <2>1 DEF Update, Begin, Stage
<1>2. ASSUME NEW r \in Req, ChangeEmail(r) PROVE Stage(r)'
  <2>1. PICK e \in Email :
          \/ Begin(r, "find", e, None) /\ UNCHANGED <<user, ask>>
          \/ \E c \in mailed \cup {None}, u \in User \cup {None} :
               /\ Begin(r, "read", e, c)
               /\ user' = [user EXCEPT ![r] = u]
               /\ ask' = [ask EXCEPT ![r] = [email |-> e, username |-> e, verified |-> TRUE]]
    BY <1>2 DEF ChangeEmail
  <2>2. CASE Begin(r, "find", e, None) /\ UNCHANGED <<user, ask>>
    <3>1. ask[r] = <<>> /\ pc[r] = "start"
      BY <1>0, <2>2 DEF Begin, Stage
    <3>2. "username" \notin DOMAIN <<>> /\ "verified" \notin DOMAIN <<>>
            /\ "email" \notin DOMAIN <<>>
      OBVIOUS
    <3>3. AskOK(r)'
      BY <1>0, <2>2, <3>1, <3>2, AsksFit DEF AskOK
    <3> QED
      BY <1>0, <1>2, <2>2, <3>1, <3>3 DEF ChangeEmail, Begin, Stage
  <2>3. ASSUME NEW c \in mailed \cup {None}, NEW u \in User \cup {None},
               Begin(r, "read", e, c),
               user' = [user EXCEPT ![r] = u],
               ask' = [ask EXCEPT ![r] = [email |-> e, username |-> e, verified |-> TRUE]]
        PROVE  Stage(r)'
    <3> DEFINE a == [email |-> e, username |-> e, verified |-> TRUE]
    <3>1. /\ {"email", "username", "verified"} \subseteq DOMAIN a
          /\ a["email"] = e /\ a["username"] = e
          /\ DOMAIN a \subseteq Fields
          /\ \A k \in Record : With(k, a) \in Record
      BY AsksFit DEF Fields
    <3>2. ask'[r] = a /\ email'[r] = e
      BY <1>0, <2>3 DEF Begin
    <3> HIDE DEF a
    <3>3. AskOK(r)'
      BY <3>1, <3>2 DEF AskOK
    <3> QED
      BY <1>0, <1>2, <2>3, <3>3 DEF ChangeEmail, Begin, Stage
  <2> QED
    BY <2>1, <2>2, <2>3
<1>3. ASSUME NEW r \in Req, FindForSend(r) PROVE Stage(r)'
  <2>1. AskOK(r)'
    BY <1>3, AskStays DEF FindForSend, IInv
  <2> QED
    BY <1>0, <1>3, <2>1 DEF FindForSend, Stage, others
<1>4. ASSUME NEW r \in Req, Get(r) PROVE Stage(r)'
  <2>1. AskOK(r)' /\ (Shown(r) => Shown(r)')
    BY <1>4, AskStays, ShownStays DEF Get, IInv
  <2>2. pc[r] = "get" => "username" \notin DOMAIN ask[r]
    BY <1>0 DEF Stage, AskOK
  <2> QED
    BY <1>0, <1>4, <2>1, <2>2 DEF Get, Stage, others
<1>5. ASSUME NEW r \in Req, Put(r) PROVE Stage(r)'
  <2>1. AskOK(r)' /\ (Shown(r) => Shown(r)')
    BY <1>5, AskStays, ShownStays DEF Put, IInv
  <2> QED
    BY <1>0, <1>5, <2>1 DEF Put, Write, Stage
<1>6. ASSUME NEW r \in Req, CodeCall(r), UNCHANGED others PROVE Stage(r)'
  <2>1. AskOK(r)' /\ (Shown(r) => Shown(r)')
    BY <1>6, AskStays, ShownStays
       DEF CodeCall, StoreCode, MailCode, ReadCode, ConsumeCode, IInv
  <2>2. CASE StoreCode(r) \/ MailCode(r)
    BY <1>0, <1>6, <2>1, <2>2 DEF StoreCode, MailCode, Stage, others
  <2>3. CASE ReadCode(r)
    <3>1. pc[r] = "read" /\ UNCHANGED <<email, input, mailed>>
      BY <2>3 DEF ReadCode
    <3>2. CASE Goto(r, "consume") /\ input[r] # None /\ code[email[r]] = input[r]
      <4>1. Shown(r)
        BY <1>0, <3>1, <3>2 DEF Stage, Shown, IInv, CodeOfEmail
      <4> QED
        BY <1>0, <1>6, <2>1, <3>1, <3>2, <4>1 DEF Stage, others
    <3>3. CASE \E a \in {"expired", "invalid", "failed"} : Answer(r, a)
      BY <1>0, <1>6, <2>1, <3>1, <3>3 DEF Stage, others
    <3> QED
      BY <2>3, <3>2, <3>3 DEF ReadCode
  <2>4. CASE ConsumeCode(r)
    BY <1>0, <1>6, <2>1, <2>4 DEF ConsumeCode, Stage, others
  <2> QED
    BY <1>6, <2>2, <2>3, <2>4 DEF CodeCall
<1>7. ASSUME NEW r \in Req PROVE Stage(r)'
  <2>1. CASE SameRow(r)
    BY <2>1, SameStage DEF IInv
  <2>2. CASE Act(r)
    BY <1>1, <1>2, <1>3, <1>4, <1>5, <1>6, <2>2 DEF Act
  <2> QED
    BY <2>1, <2>2, RowOrAct DEF IInv
<1>8. DOMAIN ask' = Req /\ DOMAIN copy' = Req
  BY Stays DEF IInv
<1> QED
  BY <1>7, <1>8 DEF Stages

\* A code is stored by its own request, and deleted by anybody.
LEMMA StepCode ==
  ASSUME IInv, [Next]_vars
  PROVE  CodeOfEmail'
<1>1. \A e \in Email : code'[e] # None =>
        \/ code'[e] = code[e]
        \/ /\ code'[e] \in Req /\ email[code'[e]] = e /\ pc[code'[e]] = "store"
           /\ pc'[code'[e]] \in {"mail", "done"}
  <2> USE DEF IInv, TypeOK, CodeTypeOK, Goto, Answer
  <2>1. ASSUME NEW r \in Req, StoreCode(r)
        PROVE  \A e \in Email : code'[e] # None =>
                 \/ code'[e] = code[e]
                 \/ code'[e] = r /\ email[r] = e /\ pc[r] = "store"
                      /\ pc'[r] \in {"mail", "done"}
    BY <2>1 DEF StoreCode
  <2>2. ASSUME NEW r \in Req, ConsumeCode(r)
        PROVE  \A e \in Email : code'[e] # None => code'[e] = code[e]
    BY <2>2 DEF ConsumeCode
  <2>3. ASSUME NEW f \in Email, ExpireCode(f)
        PROVE  \A e \in Email : code'[e] # None => code'[e] = code[e]
    BY <2>3 DEF ExpireCode
  <2>4. ASSUME NEW r \in Req,
               Update(r) \/ ChangeEmail(r) \/ FindForSend(r) \/ Get(r) \/ Put(r)
                 \/ MailCode(r) \/ ReadCode(r)
        PROVE  code' = code
    BY <2>4 DEF Update, ChangeEmail, Begin, FindForSend, Get, Put, MailCode, ReadCode
  <2>5. CASE UNCHANGED vars
    BY <2>5 DEF vars, codeVars
  <2> QED
    BY <2>1, <2>2, <2>3, <2>4, <2>5 DEF Next, CodeCall
<1>2. ASSUME NEW r \in Req, pc[r] \in {"mail", "done"}
      PROVE  email'[r] = email[r] /\ pc'[r] \in {"mail", "done"}
  <2>1. email'[r] = email[r]
    BY <1>2, Stays DEF IInv
  <2>2. CASE Act(r)
    <3>1. pc[r] = "mail" /\ MailCode(r)
      BY <1>2, <2>2, ActRows
         DEF IInv, Act, Update, ChangeEmail, Begin, FindForSend, Get, Put, CodeCall,
             StoreCode, ReadCode, ConsumeCode
    <3> QED
      BY <2>1, <3>1 DEF MailCode, Answer, IInv, TypeOK, CodeTypeOK
  <2>3. CASE SameRow(r)
    BY <1>2, <2>1, <2>3 DEF SameRow
  <2> QED
    BY <2>2, <2>3, RowOrAct DEF IInv
<1>3. ASSUME NEW e \in Email, code'[e] # None
      PROVE  email'[code'[e]] = e /\ pc'[code'[e]] \in {"mail", "done"}
  <2>1. CASE code'[e] = code[e]
    <3>1. code[e] \in Req /\ email[code[e]] = e /\ pc[code[e]] \in {"mail", "done"}
      BY <1>3, <2>1 DEF IInv, CodeOfEmail, TypeOK, CodeTypeOK
    <3> QED
      BY <1>2, <2>1, <3>1
  <2>2. CASE code'[e] # code[e]
    <3>1. /\ code'[e] \in Req /\ email[code'[e]] = e /\ pc[code'[e]] = "store"
          /\ pc'[code'[e]] \in {"mail", "done"}
      BY <1>1, <1>3, <2>2
    <3> QED
      BY <3>1, Stays DEF IInv
  <2> QED
    BY <2>1, <2>2
<1> QED
  BY <1>3 DEF CodeOfEmail

-----------------------------------------------------------------------------
\* Records are written by Put only, and read by Get only.
LEMMA Writers ==
  ASSUME [Next]_vars
  PROVE  \/ record' = record /\ wrote' = wrote
         \/ \E r \in Req : Put(r) /\ Write(r)
<1>1. ASSUME NEW r \in Req, Act(r), ~(Put(r) /\ Write(r))
      PROVE  record' = record /\ wrote' = wrote
  BY <1>1 DEF Act, Update, ChangeEmail, FindForSend, Get, Put, CodeCall, others
<1>2. CASE \A r \in Req : ~Act(r)
  BY <1>2, QuietRows DEF others
<1> QED
  BY <1>1, <1>2

\* A request about to write was so before, or has just read the record.
LEMMA Readers ==
  ASSUME TypeOK, Stages, [Next]_vars, NEW r \in Req, pc'[r] = "put"
  PROVE  \/ SameRow(r) /\ pc[r] = "put"
         \/ /\ user[r] \in User /\ user'[r] = user[r]
            /\ copy'[r] = record[user[r]]
            /\ prior'[r] = {q \in wrote : user[q] = user[r]}
<1> USE DEF TypeOK, CodeTypeOK, Goto, Answer
<1>1. CASE SameRow(r)
  BY <1>1 DEF SameRow
<1>2. CASE Act(r)
  <2>1. Get(r)
    BY <1>2 DEF Act, Update, ChangeEmail, Begin, FindForSend, Put, CodeCall, StoreCode,
                MailCode, ReadCode, ConsumeCode
  <2> QED
    BY <2>1 DEF Get, Stages
<1> QED
  BY <1>1, <1>2, RowOrAct

\* What has been written about stays excused.
LEMMA LostStays ==
  ASSUME TypeOK, Stages, [Next]_vars, NEW q \in wrote, NEW f, Lost(q, f)
  PROVE  Lost(q, f)'
<1>1. ASSUME NEW p \in wrote PROVE SameRow(p) /\ p \in wrote'
  BY Stays DEF TypeOK, Stages, Stage
<1> QED
  BY <1>1 DEF Lost, SameRow

\* A record that keeps the fields of a write in force goes on doing so.
LEMMA InForceStays ==
  ASSUME TypeOK, Stages, [Next]_vars, NEW q \in wrote, NEW k, InForce(k, q)
  PROVE  InForce(k, q)'
<1>1. ask'[q] = ask[q]
  BY Stays DEF TypeOK, Stages, Stage, SameRow
<1> QED
  BY <1>1, LostStays DEF InForce

\* The record that a Put writes, field by field.
LEMMA PutWrites ==
  ASSUME IInv, [Next]_vars, NEW r \in Req, Put(r), Write(r)
  PROVE  /\ pc[r] = "put" /\ user[r] \in User /\ copy[r] \in Record
         /\ pc'[r] = "done" /\ SameAsk(r)
         /\ wrote' = wrote \cup {r}
         /\ \A u \in User \ {user[r]} : record'[u] = record[u]
         /\ \A f \in Fields : record'[user[r]][f] =
              IF f \in DOMAIN ask[r] THEN ask[r][f] ELSE copy[r][f]
<1>1. pc[r] = "put" /\ user[r] \in User /\ copy[r] \in Record /\ pc'[r] = "done"
  BY DEF Put, Answer, IInv, TypeOK, CodeTypeOK, Stages, Stage
<1>2. SameAsk(r)
  BY DEF Put, SameAsk
<1>3. /\ wrote' = wrote \cup {r}
      /\ record' = [record EXCEPT ![user[r]] = With(copy[r], ask[r])]
  BY DEF Write, Changed
<1>4. DOMAIN record = User
  BY DEF IInv, TypeOK
<1> HIDE DEF IInv
<1> QED
  BY <1>1, <1>2, <1>3, <1>4, WithFields DEF Fields

\* Every step preserves that writes are in force or excused.
LEMMA StepWrites ==
  ASSUME IInv, [Next]_vars
  PROVE  WritesInForce'
<1>0. TypeOK /\ Stages
  BY DEF IInv
<1>1. \A q \in wrote : q \in Req /\ pc[q] = "done" /\ user[q] \in User /\ q \in wrote'
                         /\ SameAsk(q) /\ DOMAIN ask[q] \subseteq Fields
  BY <1>0, Stays DEF TypeOK, Stages, Stage, SameRow, SameAsk, AskOK, Fields
<1>2. ASSUME NEW q \in wrote' PROVE InForce(record[user[q]], q)'
  <2>1. CASE record' = record /\ wrote' = wrote
    <3>1. InForce(record[user[q]], q) /\ user'[q] = user[q]
      BY <1>1, <2>1 DEF IInv, WritesInForce, SameAsk
    <3> QED
      BY <1>0, <1>1, <2>1, <3>1, LostStays DEF InForce, SameAsk
  <2>2. ASSUME NEW r \in Req, Put(r), Write(r) PROVE InForce(record[user[q]], q)'
    <3>1. /\ pc[r] = "put" /\ user[r] \in User /\ SameAsk(r) /\ wrote' = wrote \cup {r}
          /\ \A u \in User \ {user[r]} : record'[u] = record[u]
          /\ \A f \in Fields : record'[user[r]][f] =
               IF f \in DOMAIN ask[r] THEN ask[r][f] ELSE copy[r][f]
      BY <2>2, PutWrites
    <3>2. CASE q = r
      <4>1. DOMAIN ask[r] \subseteq Fields
        BY <1>0 DEF Stages, Stage, AskOK, Fields
      <4> QED
        BY <3>1, <3>2, <4>1 DEF InForce, SameAsk
    <3>3. CASE q # r /\ user[q] # user[r]
      <4>1. q \in wrote /\ InForce(record[user[q]], q) /\ record'[user[q]] = record[user[q]]
        BY <1>1, <3>1, <3>3 DEF IInv, WritesInForce
      <4> QED
        BY <1>0, <1>1, <4>1, LostStays DEF InForce, SameAsk
    <3>4. CASE q # r /\ user[q] = user[r]
      <4>1. q \in wrote
        BY <3>1, <3>4
      <4>2. ASSUME NEW f \in DOMAIN ask[q], record'[user[q]][f] # ask[q][f]
            PROVE  Lost(q, f)'
        <5>1. CASE f \in DOMAIN ask[r] \/ q \notin prior[r]
          BY <1>1, <3>1, <3>4, <4>1, <5>1 DEF Lost, SameAsk
        <5>2. CASE f \notin DOMAIN ask[r] /\ q \in prior[r]
          <6>1. copy[r][f] # ask[q][f]
            BY <1>1, <3>1, <3>4, <4>1, <4>2, <5>2
          <6>2. Lost(q, f)
            BY <3>1, <5>2, <6>1 DEF IInv, WritesInForce, InForce
          <6> QED
            BY <1>0, <4>1, <6>2, LostStays
        <5> QED
          BY <5>1, <5>2
      <4> QED
        BY <1>1, <4>1, <4>2 DEF InForce, SameAsk
    <3> QED
      BY <3>2, <3>3, <3>4
  <2> QED
    BY <2>1, <2>2, Writers
<1>3. ASSUME NEW r \in Req, pc'[r] = "put", NEW q \in prior'[r]
      PROVE  q \in wrote' /\ user'[q] = user'[r] /\ InForce(copy[r], q)'
  <2>1. CASE SameRow(r) /\ pc[r] = "put"
    <3>1. q \in wrote /\ user[q] = user[r] /\ InForce(copy[r], q)
      BY <2>1 DEF SameRow, IInv, WritesInForce
    <3> QED
      BY <1>0, <1>1, <2>1, <3>1, LostStays DEF InForce, SameAsk, SameRow
  <2>2. CASE /\ user[r] \in User /\ user'[r] = user[r]
             /\ copy'[r] = record[user[r]]
             /\ prior'[r] = {p \in wrote : user[p] = user[r]}
    <3>1. q \in wrote /\ user[q] = user[r] /\ InForce(record[user[q]], q)
      BY <2>2 DEF IInv, WritesInForce
    <3> QED
      BY <1>0, <1>1, <2>2, <3>1, LostStays DEF InForce, SameAsk
  <2> QED
    BY <1>0, <1>3, <2>1, <2>2, Readers
<1> QED
  BY <1>2, <1>3 DEF WritesInForce

-----------------------------------------------------------------------------
\* Who has shown an e-mail, or put it, has done so for good.
LEMMA ProvedStays ==
  ASSUME IInv, [Next]_vars, NEW u, NEW e
  PROVE  /\ ShownBy(u, e) => ShownBy(u, e)'
         /\ PutBy(u, e) => PutBy(u, e)'
<1>1. ASSUME NEW p \in wrote
      PROVE  p \in wrote' /\ SameAsk(p) /\ (Shown(p) => Shown(p)')
  <2>1. p \in Req /\ pc[p] = "done"
    BY DEF IInv, TypeOK, Stages, Stage
  <2> QED
    BY <2>1, Stays, ShownStays DEF IInv, SameRow, SameAsk
<1>2. ASSUME ShownBy(u, e) PROVE ShownBy(u, e)'
  <2>1. PICK p \in wrote : user[p] = u /\ email[p] = e /\ Shown(p)
    BY <1>2 DEF ShownBy, Shown
  <2> QED
    BY <1>1, <2>1 DEF ShownBy, Shown, SameAsk
<1>3. ASSUME PutBy(u, e) PROVE PutBy(u, e)'
  BY <1>1, <1>3 DEF PutBy, SameAsk
<1> QED
  BY <1>2, <1>3

\* Every step preserves that e-mails were shown or put.
LEMMA StepEmails ==
  ASSUME IInv, [Next]_vars
  PROVE  EmailsProved'
<1>0. TypeOK /\ Stages
  BY DEF IInv
<1>1. ASSUME NEW u \in User PROVE Proved(u, record[u])'
  <2>1. CASE record'[u] = record[u]
    <3>1. Proved(u, record[u])
      BY DEF IInv, EmailsProved
    <3> QED
      BY <2>1, <3>1, ProvedStays DEF Proved
  <2>2. ASSUME NEW r \in Req, Put(r), Write(r), u = user[r]
        PROVE  Proved(u, record[u])'
    <3> SUFFICES ASSUME NEW k, k = record'[u] PROVE Proved(u, k)'
      BY DEF Proved
    <3>1. /\ pc[r] = "put" /\ user[r] \in User /\ SameAsk(r) /\ r \in wrote'
          /\ \A f \in Fields : k[f] = IF f \in DOMAIN ask[r] THEN ask[r][f] ELSE copy[r][f]
      BY <2>2, PutWrites
    <3>2. Proved(u, copy[r]) /\ AskOK(r)
      BY <1>0, <2>2, <3>1 DEF IInv, EmailsProved, Stages, Stage
    <3>3. CASE /\ "username" \notin DOMAIN ask[r] /\ "verified" \notin DOMAIN ask[r]
               /\ "email" \in DOMAIN ask[r] => email[r] = None
      <4>1. k["username"] = copy[r]["username"] /\ k["verified"] = copy[r]["verified"]
        BY <3>1, <3>3 DEF Fields
      <4>2. k["username"] # None => ShownBy(u, k["username"])'
        BY <3>2, <4>1, ProvedStays DEF Proved
      <4>3. CASE "email" \in DOMAIN ask[r]
        <5>1. k["email"] = ask[r]["email"]
          BY <3>1, <4>3 DEF Fields
        <5>2. PutBy(u, k["email"])'
          BY <2>2, <3>1, <3>3, <4>3, <5>1 DEF PutBy, SameAsk
        <5> QED
          BY <4>2, <5>2 DEF Proved
      <4>4. CASE "email" \notin DOMAIN ask[r]
        <5>1. k["email"] = copy[r]["email"]
          BY <3>1, <4>4 DEF Fields
        <5> QED
          BY <3>2, <4>1, <4>2, <5>1, ProvedStays DEF Proved
      <4> QED
        BY <4>3, <4>4
    <3>4. CASE /\ {"email", "username", "verified"} \subseteq DOMAIN ask[r]
               /\ ask[r]["email"] = email[r] /\ ask[r]["username"] = email[r]
      <4>1. k["username"] = email[r] /\ k["email"] = email[r]
        BY <3>1, <3>4 DEF Fields
      <4>2. Shown(r)'
        BY <1>0, <3>1, <3>4, ShownStays DEF Stages, Stage
      <4>3. ShownBy(u, email[r])'
        BY <2>2, <3>1, <4>2 DEF ShownBy, Shown, SameAsk
      <4> QED
        BY <3>1, <4>1, <4>3 DEF Proved, SameAsk
    <3> QED
      BY <3>2, <3>3, <3>4 DEF AskOK
  <2>3. ASSUME NEW r \in Req, Put(r), Write(r), u # user[r]
        PROVE  record'[u] = record[u]
    BY <2>3, PutWrites
  <2> QED
    BY <2>1, <2>2, <2>3, Writers
<1>2. ASSUME NEW r \in Req, pc'[r] = "put" PROVE Proved(user[r], copy[r])'
  <2>1. CASE SameRow(r) /\ pc[r] = "put"
    <3>1. Proved(user[r], copy[r])
      BY <2>1 DEF IInv, EmailsProved
    <3> QED
      BY <2>1, <3>1, ProvedStays DEF Proved, SameRow
  <2>2. CASE /\ user[r] \in User /\ user'[r] = user[r]
             /\ copy'[r] = record[user[r]]
    <3>1. Proved(user[r], record[user[r]])
      BY <2>2 DEF IInv, EmailsProved
    <3> QED
      BY <2>2, <3>1, ProvedStays DEF Proved
  <2> QED
    BY <1>0, <1>2, <2>1, <2>2, Readers
<1> QED
  BY <1>1, <1>2 DEF EmailsProved

-----------------------------------------------------------------------------
\* Every step preserves the invariant.
LEMMA StepInv == IInv /\ [Next]_vars => IInv'
<1> SUFFICES ASSUME IInv, [Next]_vars PROVE IInv'
  OBVIOUS
<1> QED
  BY StepType, StepStages, StepCode, StepWrites, StepEmails DEF IInv

\* The invariant always holds.
LEMMA Invariance == Spec => []IInv
BY InitInv, StepInv, PTL DEF Spec

\* In every state the variables have their types, and a request is at its end
\* exactly when it is answered.
THEOREM TypeCorrect == Spec => []TypeOK
<1>1. IInv => TypeOK
  BY DEF IInv
<1> QED
  BY <1>1, Invariance, PTL

\* An update that is answered "updated" is in force, unless a later request asked
\* for another value of the field or wrote back a copy read before the update.
THEOREM UpdatesAreLostByOverlapOnly == Spec => []LostOnlyByOverlap
<1>1. IInv => LostOnlyByOverlap
  <2> SUFFICES ASSUME IInv, NEW q \in Req, result[q] = "updated",
                      NEW f \in DOMAIN ask[q], record[user[q]][f] # ask[q][f]
               PROVE  Lost(q, f)
    BY DEF LostOnlyByOverlap, Lost
  <2>1. q \in wrote
    BY DEF IInv, Stages, Stage
  <2> QED
    BY <2>1 DEF IInv, WritesInForce, InForce
<1> QED
  BY <1>1, Invariance, PTL

\* A new e-mail is a user's name, or is marked as verified, only if the user has
\* shown a code mailed to it, or UpdateProfile put it beside an earlier mark.
THEOREM EmailsAreShown == Spec => []EmailShown
<1>1. IInv => EmailShown
  <2> SUFFICES ASSUME IInv, NEW u \in User
               PROVE  /\ record[u].username # None => ShownBy(u, record[u].username)
                      /\ record[u].verified =>
                           ShownBy(u, record[u].email) \/ PutBy(u, record[u].email)
    BY DEF EmailShown
  <2>1. Proved(u, record[u])
    BY DEF IInv, EmailsProved
  <2> QED
    BY <2>1 DEF Proved
<1> QED
  BY <1>1, Invariance, PTL
=============================================================================
