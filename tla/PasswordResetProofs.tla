------------------------ MODULE PasswordResetProofs ------------------------
(***************************************************************************)
(* Theorems about PasswordReset for any number of requests, e-mails,       *)
(* users, faults and changes of e-mail.                                    *)
(***************************************************************************)
EXTENDS PasswordReset, TLAPS

\* A verification shows the code that was mailed to the e-mail it is about; a
\* reset acts on the user its token was issued for.
Shown(r) == input[r] \in Codes /\ email[input[r]] = email[r]
HoldsToken(r) == input[r] \in Issued /\ target[r] = target[input[r]]

\* What a request has in its hands, by the call it is about to make.
Stage(r) ==
  /\ pc[r] \in {"find", "store", "mail", "read", "consume", "verified", "forgot"} =>
       email[r] \in Email
  /\ pc[r] \in {"start", "find", "store", "mail", "read", "consume", "verified",
                "read_token", "forgot"} => target[r] = None
  /\ pc[r] \in {"generate", "delete_token", "set", "login", "change", "mail_link"} =>
       target[r] \in User
  /\ pc[r] = "read" => input[r] \in Codes \cup {None}
  /\ pc[r] \in {"consume", "verified", "generate"} => Shown(r)
  /\ pc[r] = "read_token" => input[r] \in Issued \cup {None}
  /\ pc[r] = "delete_token" \/ Past(r) => HoldsToken(r)
  /\ result[r] = "invalid" => input[r] \in Codes \cup Issued \cup {None}
  /\ r \in mailed => pc[r] = "done"
Stages == \A r \in Req : Stage(r)

\* A code is stored under the e-mail it is mailed to.
CodeOfEmail ==
  \A e \in Email : code[e] # None =>
    email[code[e]] = e /\ pc[code[e]] \in {"mail", "done"}

\* Tokens come from verifications, once.
Tokens ==
  \A t \in Req :
    /\ t \in token \/ t \in Issued => pc[t] = "done" /\ target[t] \in User /\ Shown(t)
    /\ t \in aged => pc[t] = "done" /\ t \notin token

\* A reset is past the deletion of its token only when the token is gone, or
\* its deletion failed.
CrossedOut == \A r \in Req : Past(r) => input[r] \notin token \/ input[r] \in kept

\* Passwords are set by links and by resets that have got that far.
PasswordsSet ==
  /\ \A u \in User : password[u] # None =>
       /\ target[password[u]] = u /\ pc[password[u]] = "done"
       /\ password[u] \in Links \/ Past(password[u])
  /\ \A r \in Req : result[r] = "reset" => password[target[r]] # None

\* Where a token can have gone that was issued, while no call fails.
Taken(t) == \E q \in Req : input[q] = t /\ (pc[q] = "set" \/ result[q] = "reset")
TokensGo == faults = 0 => \A t \in Issued : t \in token \/ t \in aged \/ Taken(t)

InvalidForAReason ==
  \A r \in Req : result[r] = "invalid" /\ input[r] \in Issued /\ faults = 0 =>
    input[r] \in aged \/ Taken(input[r])

IInv ==
  /\ TypeOK
  /\ Stages
  /\ CodeOfEmail
  /\ Tokens
  /\ CrossedOut
  /\ PasswordsSet
  /\ TokensGo
  /\ InvalidForAReason

\* The steps of a request's goroutine.
Act(r) == Send(r) \/ Verify(r) \/ Reset(r) \/ Forgot(r) \/ Change(r) \/ Call(r)

-----------------------------------------------------------------------------
\* The invariant holds at the start.
LEMMA InitInv == Init => IInv
BY FaultAssumption, MoveAssumption, CodeNoneAssumption
   DEF Init, CodeInit, IInv, TypeOK, CodeTypeOK, Stages, Stage, CodeOfEmail, Tokens,
       CrossedOut, PasswordsSet, TokensGo, InvalidForAReason, Past, Issued

\* Code requests, links and issued tokens are different requests.
LEMMA Disjoint ==
  ASSUME IInv
  PROVE  /\ Codes \cap Issued = {} /\ Codes \cap Links = {}
         /\ None \notin Codes /\ None \notin Issued
         /\ Codes \subseteq Req /\ Links \subseteq Req /\ Issued \subseteq Req
BY CodeNoneAssumption, UserAssumption
   DEF IInv, TypeOK, CodeTypeOK, Tokens, Codes, Issued, Links

\* Every step preserves the types.
LEMMA StepType ==
  ASSUME IInv, [Next]_vars
  PROVE  TypeOK'
<1> USE FaultAssumption, MoveAssumption
        DEF IInv, TypeOK, CodeTypeOK, Goto, Answer, Fault, NoFault, Badly, flow, others, codeVars
<1>1. ASSUME NEW r \in Req, Send(r) PROVE TypeOK'
  BY <1>1 DEF Send, Begin
<1>2. ASSUME NEW r \in Req, Verify(r) PROVE TypeOK'
  BY <1>2 DEF Verify, Begin, Codes
<1>3. ASSUME NEW r \in Req, Reset(r) PROVE TypeOK'
  BY <1>3 DEF Reset, Begin, Issued
<1>4. ASSUME NEW r \in Req, Forgot(r) PROVE TypeOK'
  BY <1>4 DEF Forgot, Begin
<1>5. ASSUME NEW r \in Req, Change(r) PROVE TypeOK'
  BY <1>5 DEF Change, Begin
<1>6. ASSUME NEW r \in Req, CodeCall(r), UNCHANGED others PROVE TypeOK'
  <2>1. CASE StoreCode(r)
    BY <1>6, <2>1 DEF StoreCode
  <2>2. CASE MailCode(r)
    BY <1>6, <2>2 DEF MailCode
  <2>3. CASE ReadCode(r)
    BY <1>6, <2>3 DEF ReadCode
  <2>4. CASE ConsumeCode(r)
    BY <1>6, <2>4 DEF ConsumeCode
  <2> QED
    BY <1>6, <2>1, <2>2, <2>3, <2>4 DEF CodeCall
<1>7. ASSUME NEW r \in Req, FindForSend(r) PROVE TypeOK'
  BY <1>7 DEF FindForSend
<1>8. ASSUME NEW r \in Req, FindOwner(r) PROVE TypeOK'
  BY <1>8 DEF FindOwner, Owners
<1>9. ASSUME NEW r \in Req, Generate(r) PROVE TypeOK'
  BY <1>9 DEF Generate
<1>10. ASSUME NEW r \in Req, ReadToken(r) PROVE TypeOK'
  BY <1>10 DEF ReadToken
<1>11. ASSUME NEW r \in Req, DeleteToken(r) PROVE TypeOK'
  <2>1. input[r] \in Req
    BY <1>11, Disjoint DEF DeleteToken, Stages, Stage, HoldsToken
  <2> QED
    BY <1>11, <2>1 DEF DeleteToken
<1>12. ASSUME NEW r \in Req, SetPassword(r) PROVE TypeOK'
  BY <1>12 DEF SetPassword
<1>13. ASSUME NEW r \in Req, LoginOld(r) PROVE TypeOK'
  BY <1>13 DEF LoginOld
<1>14. ASSUME NEW r \in Req, ChangeNew(r) PROVE TypeOK'
  BY <1>14 DEF ChangeNew
<1>15. ASSUME NEW r \in Req, FindForgotten(r) PROVE TypeOK'
  BY <1>15 DEF FindForgotten, Owners
<1>16. ASSUME NEW r \in Req, MailLink(r) PROVE TypeOK'
  BY <1>16 DEF MailLink
<1>17. ASSUME NEW r \in Req, FollowLink(r) \/ ExpireToken(r) PROVE TypeOK'
  BY <1>17 DEF FollowLink, ExpireToken
<1>18. ASSUME NEW e \in Email, ExpireCode(e), UNCHANGED others PROVE TypeOK'
  BY <1>18 DEF ExpireCode
<1>19. ASSUME NEW u \in User, NEW e \in Email \cup {None}, Move(u, e) PROVE TypeOK'
  BY <1>19 DEF Move
<1>20. CASE UNCHANGED vars
  BY <1>20 DEF vars
<1> QED
  BY <1>1, <1>2, <1>3, <1>4, <1>5, <1>6, <1>7, <1>8, <1>9, <1>10, <1>11, <1>12,
     <1>13, <1>14, <1>15, <1>16, <1>17, <1>18, <1>19, <1>20 DEF Next, Call

\* A step of a request leaves the other requests' rows alone.
SameRow(q) ==
  /\ pc'[q] = pc[q] /\ result'[q] = result[q] /\ target'[q] = target[q]
  /\ email'[q] = email[q] /\ input'[q] = input[q]

\* A step of a request touches the row of that request alone.
LEMMA ActRows ==
  ASSUME TypeOK, NEW r \in Req, Act(r)
  PROVE  /\ \A q \in Req \ {r} : SameRow(q)
         /\ pc[r] # "start" => email'[r] = email[r] /\ input'[r] = input[r]
         /\ pc[r] # "done"
         /\ mailed \subseteq mailed' /\ mailed' \subseteq mailed \cup {r}
         /\ aged' = aged /\ faults \in Nat /\ (faults' = 0 => faults = 0)
<1> DEFINE Goal ==
         /\ \A q \in Req \ {r} : SameRow(q)
         /\ pc[r] # "start" => email'[r] = email[r] /\ input'[r] = input[r]
         /\ pc[r] # "done"
         /\ mailed \subseteq mailed' /\ mailed' \subseteq mailed \cup {r}
         /\ aged' = aged /\ faults \in Nat /\ (faults' = 0 => faults = 0)
<1> USE FaultAssumption
        DEF TypeOK, CodeTypeOK, SameRow, Goto, Answer, Fault, NoFault, Badly, others
<1>1. CASE Send(r) \/ Verify(r) \/ Reset(r) \/ Forgot(r) \/ Change(r)
  BY <1>1 DEF Send, Verify, Reset, Forgot, Change, Begin
<1>2. CASE CodeCall(r) /\ UNCHANGED others
  BY <1>2 DEF CodeCall, StoreCode, MailCode, ReadCode, ConsumeCode
<1>3. CASE FindForSend(r) \/ FindOwner(r) \/ Generate(r)
  BY <1>3 DEF FindForSend, FindOwner, Generate
<1>4. CASE ReadToken(r) \/ DeleteToken(r) \/ SetPassword(r)
  BY <1>4 DEF ReadToken, DeleteToken, SetPassword
<1>5. CASE LoginOld(r) \/ ChangeNew(r)
  BY <1>5 DEF LoginOld, ChangeNew
<1>6. CASE FindForgotten(r) \/ MailLink(r)
  BY <1>6 DEF FindForgotten, MailLink
<1> QED
  BY <1>1, <1>2, <1>3, <1>4, <1>5, <1>6 DEF Act, Call

\* A step that no request makes leaves all rows alone.
LEMMA QuietRows ==
  ASSUME [Next]_vars, \A r \in Req : ~Act(r)
  PROVE  UNCHANGED <<pc, result, email, input, target, mailed, faults, kept>>
BY DEF Next, vars, Act, Call, FollowLink, ExpireToken, ExpireCode, Move, codeVars, flow,
       others

\* A row stays as it is unless its own request takes the step.
LEMMA RowOrAct ==
  ASSUME TypeOK, [Next]_vars, NEW r \in Req
  PROVE  SameRow(r) \/ Act(r)
<1>1. ASSUME NEW q \in Req \ {r}, Act(q) PROVE SameRow(r)
  BY <1>1, ActRows
<1>2. CASE \A q \in Req : ~Act(q)
  BY <1>2, QuietRows DEF SameRow
<1> QED
  BY <1>1, <1>2

\* Which call gives a token away, and which calls turn a secret down.
LEMMA WhoAnswers ==
  ASSUME TypeOK, [Next]_vars, NEW r \in Req, result'[r] # result[r]
  PROVE  /\ result'[r] = "issued" => Generate(r)
         /\ result'[r] = "invalid" => ReadCode(r) \/ ReadToken(r)
<1>1. Act(r)
  BY RowOrAct DEF SameRow
<1> QED
  BY <1>1
     DEF Act, Call, CodeCall, Send, Verify, Reset, Forgot, Change, Begin, StoreCode,
         MailCode, ReadCode, ReadToken, ConsumeCode, FindForSend, FindOwner, Generate,
         DeleteToken, SetPassword, LoginOld, ChangeNew, FindForgotten, MailLink, Goto,
         Answer, TypeOK, CodeTypeOK

\* What is done stays as it is, and what it has achieved stays achieved.
LEMMA Stays ==
  ASSUME IInv, [Next]_vars
  PROVE  /\ \A q \in Req : pc[q] = "done" => SameRow(q)
         /\ \A q \in Req : pc[q] # "start" => email'[q] = email[q] /\ input'[q] = input[q]
         /\ Codes \subseteq Codes' /\ Links \subseteq Links' /\ Issued \subseteq Issued'
<1>1. /\ \A q \in Req : pc[q] = "done" => SameRow(q)
      /\ \A q \in Req : pc[q] # "start" => email'[q] = email[q] /\ input'[q] = input[q]
      /\ mailed \subseteq mailed'
  <2>1. ASSUME NEW r \in Req, Act(r)
        PROVE  /\ \A q \in Req : pc[q] = "done" => SameRow(q)
               /\ \A q \in Req : pc[q] # "start" => email'[q] = email[q] /\ input'[q] = input[q]
               /\ mailed \subseteq mailed'
    BY <2>1, ActRows DEF IInv, SameRow
  <2>2. CASE \A r \in Req : ~Act(r)
    BY <2>2, QuietRows DEF SameRow
  <2> QED
    BY <2>1, <2>2
<1>2. \A q \in mailed \cup Issued : q \in Req /\ pc[q] = "done"
  BY DEF IInv, Stages, Stage, Tokens, TypeOK, CodeTypeOK, Issued
<1> QED
  BY <1>1, <1>2 DEF Codes, Links, Issued, SameRow

\* What a request shows, or holds, stays shown and held.
LEMMA ShownStays ==
  ASSUME IInv, [Next]_vars, NEW q \in Req, Shown(q), pc[q] # "start"
  PROVE  Shown(q)'
<1>1. input[q] \in Req /\ pc[input[q]] = "done"
  BY DEF Shown, Codes, IInv, TypeOK, CodeTypeOK, Stages, Stage
<1> QED
  BY <1>1, Stays DEF Shown, SameRow

\* A request keeps the token it holds.
LEMMA HoldsStays ==
  ASSUME IInv, [Next]_vars, NEW q \in Req, HoldsToken(q), pc[q] # "start",
         target'[q] = target[q]
  PROVE  HoldsToken(q)'
<1>1. input[q] \in Req /\ pc[input[q]] = "done"
  BY DEF HoldsToken, Issued, IInv, Tokens
<1> QED
  BY <1>1, Stays DEF HoldsToken, SameRow

\* A row that does not change keeps its stage.
LEMMA SameStage ==
  ASSUME IInv, [Next]_vars, NEW q \in Req, SameRow(q), q \in mailed' => q \in mailed
  PROVE  Stage(q)'
<1>1. Stage(q)
  BY DEF IInv, Stages
<1>2. Codes \subseteq Codes' /\ Issued \subseteq Issued'
  BY Stays
<1>3. Past(q)' <=> Past(q)
  BY DEF Past, SameRow
<1>4. pc[q] \in {"consume", "verified", "generate"} => Shown(q)'
  BY <1>1, ShownStays DEF Stage
<1>5. pc[q] = "delete_token" \/ Past(q) => HoldsToken(q)'
  BY <1>1, HoldsStays DEF Stage, Past, SameRow, IInv, TypeOK, CodeTypeOK
<1> QED
  BY <1>1, <1>2, <1>3, <1>4, <1>5 DEF Stage, SameRow

\* Every step preserves what a request has in its hands.
LEMMA StepStages ==
  ASSUME IInv, [Next]_vars
  PROVE  Stages'
<1> USE DEF Stages, Goto, Answer
<1>0. /\ Codes \subseteq Codes' /\ Issued \subseteq Issued'
      /\ pc \in [Req -> {"find", "generate", "read_token", "delete_token", "set", "login",
                         "change", "forgot", "mail_link", "start", "store", "mail", "read",
                         "consume", "verified", "done"}]
      /\ result \in [Req -> {"unknown", "issued", "reset", "not_reset", "unauthorized",
                             "not_changed", "answered", "none", "sent", "expired",
                             "invalid", "failed"}]
      /\ \A r \in Req : pc[r] = "done" <=> result[r] # "none"
      /\ email \in [Req -> Email \cup {None}] /\ input \in [Req -> Req \cup {None}]
      /\ target \in [Req -> User \cup {None}]
      /\ \A q \in Req : Stage(q)
      /\ \A q \in Req : q \in mailed => pc[q] = "done"
  BY Stays DEF IInv, TypeOK, CodeTypeOK, Stage
<1>1. ASSUME NEW r \in Req, Act(r), Stage(r)' PROVE Stages'
  <2>1. \A q \in Req \ {r} : SameRow(q) /\ (q \in mailed' => q \in mailed)
    BY <1>1, ActRows DEF IInv
  <2> QED
    BY <1>1, <2>1, SameStage
<1>2. CASE \A r \in Req : ~Act(r)
  <2>1. \A q \in Req : SameRow(q) /\ (q \in mailed' => q \in mailed)
    BY <1>2, QuietRows DEF SameRow
  <2> QED
    BY <2>1, SameStage
<1>3. ASSUME NEW r \in Req, Send(r) PROVE Stage(r)'
  BY <1>0, <1>3 DEF Send, Begin, Stage, Past, others
<1>4. ASSUME NEW r \in Req, Verify(r) PROVE Stage(r)'
  BY <1>0, <1>4 DEF Verify, Begin, Stage, Past, others
<1>5. ASSUME NEW r \in Req, Reset(r) PROVE Stage(r)'
  BY <1>0, <1>5 DEF Reset, Begin, Stage, Past, others
<1>6. ASSUME NEW r \in Req, Forgot(r) PROVE Stage(r)'
  BY <1>0, <1>6 DEF Forgot, Begin, Stage, Past, others
<1>7. ASSUME NEW r \in Req, Change(r) PROVE Stage(r)'
  BY <1>0, <1>7 DEF Change, Begin, Stage, Past
<1>8. ASSUME NEW r \in Req, StoreCode(r) \/ MailCode(r), UNCHANGED others PROVE Stage(r)'
  BY <1>0, <1>8 DEF StoreCode, MailCode, Stage, Past, others
<1>9. ASSUME NEW r \in Req, ReadCode(r), UNCHANGED others PROVE Stage(r)'
  <2>1. pc[r] = "read" /\ UNCHANGED <<email, input, target, mailed>>
    BY <1>9 DEF ReadCode, others
  <2>2. CASE Goto(r, "consume") /\ input[r] # None /\ code[email[r]] = input[r]
    <3>1. Shown(r)
      BY <1>0, <2>1, <2>2 DEF Stage, Shown, IInv, CodeOfEmail
    <3>2. Shown(r)'
      BY <2>1, <3>1, ShownStays
    <3> QED
      BY <1>0, <2>1, <2>2, <3>2 DEF Stage, Past
  <2>3. CASE \E a \in {"expired", "invalid", "failed"} : Answer(r, a)
    BY <1>0, <2>1, <2>3 DEF Stage, Past
  <2> QED
    BY <1>9, <2>2, <2>3 DEF ReadCode
<1>10. ASSUME NEW r \in Req, ConsumeCode(r), UNCHANGED others PROVE Stage(r)'
  <2>1. Shown(r)'
    BY <1>0, <1>10, ShownStays DEF ConsumeCode, Stage
  <2> QED
    BY <1>0, <1>10, <2>1 DEF ConsumeCode, Stage, Past, others
<1>11. ASSUME NEW r \in Req, FindForSend(r) PROVE Stage(r)'
  BY <1>0, <1>11 DEF FindForSend, Stage, Past, others
<1>12. ASSUME NEW r \in Req, FindOwner(r) PROVE Stage(r)'
  <2>1. Shown(r)'
    BY <1>0, <1>12, ShownStays DEF FindOwner, Stage
  <2> QED
    BY <1>0, <1>12, <2>1 DEF FindOwner, Stage, Past, Owners
<1>13. ASSUME NEW r \in Req, Generate(r) PROVE Stage(r)'
  BY <1>0, <1>13 DEF Generate, Stage, Past
<1>14. ASSUME NEW r \in Req, ReadToken(r) PROVE Stage(r)'
  <2>1. pc[r] = "read_token" /\ UNCHANGED <<input, email, mailed>>
    BY <1>14 DEF ReadToken
  <2>2. CASE /\ input[r] \in token /\ Goto(r, "delete_token")
             /\ target' = [target EXCEPT ![r] = target[input[r]]]
    <3>1. input[r] \in Issued /\ input[r] # r /\ target[input[r]] \in User
      BY <1>0, <2>1, <2>2, CodeNoneAssumption DEF Stage, Issued, IInv, Tokens, TypeOK
    <3>2. HoldsToken(r)'
      BY <1>0, <2>1, <2>2, <3>1 DEF HoldsToken, Issued
    <3> QED
      BY <1>0, <2>1, <2>2, <3>1, <3>2 DEF Stage, Past
  <2>3. CASE Answer(r, "invalid") /\ UNCHANGED target
    BY <1>0, <2>1, <2>3 DEF Stage, Past
  <2> QED
    BY <1>14, <2>2, <2>3 DEF ReadToken
<1>15. ASSUME NEW r \in Req, DeleteToken(r) PROVE Stage(r)'
  <2>1. HoldsToken(r)'
    BY <1>0, <1>15, HoldsStays DEF DeleteToken, Stage
  <2> QED
    BY <1>0, <1>15, <2>1 DEF DeleteToken, Stage, Past
<1>16. ASSUME NEW r \in Req, SetPassword(r) PROVE Stage(r)'
  <2>1. HoldsToken(r)'
    BY <1>0, <1>16, HoldsStays DEF SetPassword, Stage, Past
  <2> QED
    BY <1>0, <1>16, <2>1 DEF SetPassword, Stage, Past
<1>17. ASSUME NEW r \in Req, LoginOld(r) \/ ChangeNew(r) PROVE Stage(r)'
  BY <1>0, <1>17 DEF LoginOld, ChangeNew, Stage, Past, others
<1>18. ASSUME NEW r \in Req, FindForgotten(r) PROVE Stage(r)'
  BY <1>0, <1>18 DEF FindForgotten, Stage, Past, Owners
<1>19. ASSUME NEW r \in Req, MailLink(r) PROVE Stage(r)'
  BY <1>0, <1>19 DEF MailLink, Stage, Past, others
<1>20. ASSUME NEW r \in Req, Act(r) PROVE Stage(r)'
  BY <1>3, <1>4, <1>5, <1>6, <1>7, <1>8, <1>9, <1>10, <1>11, <1>12, <1>13, <1>14,
     <1>15, <1>16, <1>17, <1>18, <1>19, <1>20 DEF Act, Call, CodeCall
<1> QED
  BY <1>1, <1>2, <1>20

\* StoreOTP writes under the e-mail of its request; nothing else stores a code.
LEMMA StepCode ==
  ASSUME IInv, [Next]_vars
  PROVE  CodeOfEmail'
<1>1. \A e \in Email : code'[e] # None =>
        \/ code'[e] = code[e]
        \/ /\ code'[e] \in Req /\ email[code'[e]] = e /\ pc[code'[e]] = "store"
           /\ pc'[code'[e]] \in {"mail", "done"}
  <2> USE DEF IInv, TypeOK, CodeTypeOK, Goto, Answer
  <2>1. ASSUME NEW r \in Req, StoreCode(r)
        PROVE  \A e \in Email : code'[e] # None =>
                 \/ code'[e] = code[e]
                 \/ code'[e] = r /\ email[r] = e /\ pc[r] = "store"
                      /\ pc'[r] \in {"mail", "done"}
    BY <2>1 DEF StoreCode
  <2>2. ASSUME NEW r \in Req, ConsumeCode(r)
        PROVE  \A e \in Email : code'[e] # None => code'[e] = code[e]
    BY <2>2 DEF ConsumeCode
  <2>3. ASSUME NEW f \in Email, ExpireCode(f)
        PROVE  \A e \in Email : code'[e] # None => code'[e] = code[e]
    BY <2>3 DEF ExpireCode
  <2>4. ASSUME NEW r \in Req,
               Send(r) \/ Verify(r) \/ Reset(r) \/ Forgot(r) \/ Change(r) \/ FollowLink(r)
                 \/ ExpireToken(r) \/ MailCode(r) \/ ReadCode(r)
        PROVE  code' = code
    BY <2>4 DEF Send, Verify, Reset, Forgot, Change, Begin, FollowLink, ExpireToken,
                MailCode, ReadCode, codeVars
  <2>5. ASSUME NEW r \in Req, Call(r), ~CodeCall(r)
        PROVE  code' = code
    BY <2>5 DEF Call, FindForSend, FindOwner, Generate, ReadToken, DeleteToken,
                SetPassword, LoginOld, ChangeNew, FindForgotten, MailLink
  <2>6. ASSUME NEW u \in User, NEW e \in Email \cup {None}, Move(u, e)
        PROVE  code' = code
    BY <2>6 DEF Move, codeVars
  <2>7. CASE UNCHANGED vars
    BY <2>7 DEF vars, codeVars
  <2> QED
    BY <2>1, <2>2, <2>3, <2>4, <2>5, <2>6, <2>7 DEF Next, Call, CodeCall
<1>2. ASSUME NEW r \in Req, pc[r] \in {"mail", "done"}
      PROVE  email'[r] = email[r] /\ pc'[r] \in {"mail", "done"}
  <2>1. email'[r] = email[r]
    BY <1>2, Stays
  <2>2. CASE Act(r)
    <3>1. pc[r] = "mail" /\ MailCode(r)
      BY <1>2, <2>2, ActRows
         DEF IInv, Act, Send, Verify, Reset, Forgot, Change, Begin, Call, CodeCall,
             StoreCode, ReadCode, ConsumeCode, FindForSend, FindOwner, Generate, ReadToken,
             DeleteToken, SetPassword, LoginOld, ChangeNew, FindForgotten, MailLink
    <3> QED
      BY <3>1 DEF MailCode, Answer, IInv, TypeOK, CodeTypeOK
  <2>3. ASSUME NEW q \in Req \ {r}, Act(q) PROVE pc'[r] = pc[r]
    BY <2>3, ActRows DEF IInv, SameRow
  <2>4. CASE \A q \in Req : ~Act(q)
    BY <1>2, <2>1, <2>4, QuietRows
  <2> QED
    BY <1>2, <2>1, <2>2, <2>3, <2>4
<1>3. \A r \in Req : pc[r] = "store" => email'[r] = email[r]
  BY Stays
<1>4. \A e \in Email : code[e] \in Req \cup {None}
  BY DEF IInv, TypeOK, CodeTypeOK
<1> QED
  BY <1>1, <1>2, <1>3, <1>4 DEF IInv, CodeOfEmail

\* Where tokens come from and go, in one step.
LEMMA TokenSteps ==
  ASSUME IInv, [Next]_vars
  PROVE  /\ \A t \in token' \ token : pc[t] = "generate" /\ Generate(t)
         /\ \A t \in aged' \ aged : t \in token \ token'
         /\ aged \subseteq aged' /\ kept \subseteq kept'
         /\ \A t \in token \ token' :
              t \in aged' \/ \E q \in Req : input[q] = t /\ pc[q] = "delete_token" /\ Act(q)
                                              /\ pc'[q] = "set"
<1> DEFINE Goal ==
         /\ \A t \in token' \ token : pc[t] = "generate" /\ Generate(t)
         /\ \A t \in aged' \ aged : t \in token \ token'
         /\ aged \subseteq aged' /\ kept \subseteq kept'
         /\ \A t \in token \ token' :
              t \in aged' \/ \E q \in Req : input[q] = t /\ pc[q] = "delete_token" /\ Act(q)
                                              /\ pc'[q] = "set"
<1>1. ASSUME NEW r \in Req, Generate(r) PROVE Goal
  <2>1. pc[r] = "generate" /\ token' \in {token, token \cup {r}} /\ UNCHANGED <<aged, kept>>
    BY <1>1 DEF Generate
  <2> QED
    BY <1>1, <2>1
<1>2. ASSUME NEW r \in Req, DeleteToken(r) PROVE Goal
  <2>1. Act(r)
    BY <1>2 DEF Act, Call
  <2> QED
    BY <1>2, <2>1 DEF DeleteToken, Goto, IInv, TypeOK, CodeTypeOK
<1>3. ASSUME NEW r \in Req, ExpireToken(r) PROVE Goal
  BY <1>3 DEF ExpireToken, IInv, Tokens, TypeOK
<1>4. CASE UNCHANGED <<token, aged, kept>>
  BY <1>4
<1>5. ASSUME NEW r \in Req,
             Send(r) \/ Verify(r) \/ Reset(r) \/ Forgot(r) \/ Change(r) \/ FollowLink(r)
      PROVE  UNCHANGED <<token, aged, kept>>
  BY <1>5 DEF Send, Verify, Reset, Forgot, Change, FollowLink, others
<1>6. ASSUME NEW r \in Req, Call(r), ~Generate(r), ~DeleteToken(r)
      PROVE  UNCHANGED <<token, aged, kept>>
  BY <1>6 DEF Call, FindForSend, FindOwner, ReadToken, SetPassword, LoginOld, ChangeNew,
              FindForgotten, MailLink, others
<1>7. ASSUME NEW e \in Email, ExpireCode(e), UNCHANGED others
      PROVE  UNCHANGED <<token, aged, kept>>
  BY <1>7 DEF others
<1>8. ASSUME NEW u \in User, NEW e \in Email \cup {None}, Move(u, e)
      PROVE  UNCHANGED <<token, aged, kept>>
  BY <1>8 DEF Move
<1>9. CASE UNCHANGED vars
  BY <1>9 DEF vars
<1> QED
  BY <1>1, <1>2, <1>3, <1>4, <1>5, <1>6, <1>7, <1>8, <1>9 DEF Next

\* Every step preserves where tokens come from.
LEMMA StepTokens ==
  ASSUME IInv, [Next]_vars
  PROVE  Tokens'
<1> SUFFICES ASSUME NEW t \in Req
             PROVE  /\ t \in token' \/ t \in Issued' =>
                         pc'[t] = "done" /\ target'[t] \in User /\ Shown(t)'
                    /\ t \in aged' => pc'[t] = "done" /\ t \notin token'
  BY DEF Tokens
<1>1. CASE pc[t] = "done"
  <2>1. SameRow(t)
    BY <1>1, Stays
  <2>2. t \in Issued' => t \in Issued
    BY <2>1 DEF Issued, SameRow
  <2>3. Shown(t) => Shown(t)'
    BY <1>1, ShownStays
  <2>4. t \in token' => t \in token /\ t \notin aged'
    BY <1>1, TokenSteps DEF IInv, Tokens
  <2>5. t \in aged' => t \notin token'
    BY <2>4
  <2> QED
    BY <1>1, <2>1, <2>2, <2>3, <2>4, <2>5 DEF IInv, Tokens, SameRow
<1>2. CASE pc[t] # "done"
  <2>1. t \notin token /\ t \notin Issued /\ t \notin aged /\ t \notin aged'
    BY <1>2, TokenSteps DEF IInv, Tokens
  <2>2. ASSUME t \in token' \/ t \in Issued'
        PROVE  Generate(t) /\ pc'[t] = "done"
    <3>1. t \in token' => Generate(t)
      BY <2>1, TokenSteps
    <3>2. t \in Issued' => Generate(t)
      <4>1. t \in Issued' => result'[t] = "issued" /\ result[t] # "issued"
        BY <2>1 DEF Issued
      <4> QED
        BY <4>1, WhoAnswers DEF IInv
    <3>3. Generate(t)
      BY <2>2, <3>1, <3>2
    <3> QED
      BY <3>3 DEF Generate, Answer, IInv, TypeOK, CodeTypeOK
  <2>3. ASSUME Generate(t)
        PROVE  target'[t] \in User /\ Shown(t)'
    <3>1. pc[t] = "generate" /\ target[t] \in User /\ Shown(t) /\ target' = target
      BY <2>3 DEF Generate, IInv, Stages, Stage
    <3> QED
      BY <3>1, ShownStays
  <2> QED
    BY <2>1, <2>2, <2>3
<1> QED
  BY <1>1, <1>2

\* Only the deletion of its token brings a reset past it, and there it stays;
\* while no call fails it ends with "reset".
LEMMA PastGrows ==
  ASSUME IInv, [Next]_vars, NEW r \in Req
  PROVE  /\ Past(r) => Past(r)' /\ input'[r] = input[r] /\ target'[r] = target[r]
         /\ Past(r)' /\ ~Past(r) => DeleteToken(r)
         /\ faults' = 0 /\ (pc[r] = "set" \/ result[r] = "reset") =>
              pc'[r] = "set" \/ result'[r] = "reset"
<1> DEFINE Goal ==
         /\ Past(r) => Past(r)' /\ target'[r] = target[r]
         /\ Past(r)' /\ ~Past(r) => DeleteToken(r)
         /\ faults' = 0 /\ (pc[r] = "set" \/ result[r] = "reset") =>
              pc'[r] = "set" \/ result'[r] = "reset"
<1>0. Past(r) => input'[r] = input[r]
  BY Stays DEF Past, IInv, TypeOK, CodeTypeOK
<1>1. ASSUME SameRow(r) PROVE Goal
  BY <1>1 DEF SameRow, Past
<1>2. ASSUME Act(r) PROVE Goal
  <2>0. /\ pc \in [Req -> {"find", "generate", "read_token", "delete_token", "set", "login",
                           "change", "forgot", "mail_link", "start", "store", "mail", "read",
                           "consume", "verified", "done"}]
        /\ DOMAIN result = Req /\ result[r] = "none"
        /\ faults \in Nat
    BY <1>2, ActRows DEF IInv, TypeOK, CodeTypeOK
  <2> USE <2>0 DEF Past, Goto, Answer, others
  <2>1. CASE Send(r) \/ Verify(r) \/ Reset(r) \/ Forgot(r) \/ Change(r)
    BY <2>1 DEF Send, Verify, Reset, Forgot, Change, Begin
  <2>2. CASE CodeCall(r) /\ UNCHANGED others
    BY <2>2 DEF CodeCall, StoreCode, MailCode, ReadCode, ConsumeCode
  <2>3. CASE FindForSend(r) \/ FindOwner(r) \/ Generate(r)
    BY <2>3 DEF FindForSend, FindOwner, Generate
  <2>4. CASE ReadToken(r)
    BY <2>4 DEF ReadToken
  <2>5. CASE DeleteToken(r)
    <3>1. pc[r] = "delete_token" /\ pc'[r] = "set" /\ target' = target
      BY <2>5 DEF DeleteToken
    <3> QED
      BY <2>5, <3>1
  <2>6. CASE SetPassword(r)
    BY <2>6, FaultAssumption DEF SetPassword, Fault
  <2>7. CASE LoginOld(r) \/ ChangeNew(r)
    BY <2>7 DEF LoginOld, ChangeNew
  <2>8. CASE FindForgotten(r) \/ MailLink(r)
    BY <2>8 DEF FindForgotten, MailLink
  <2> QED
    BY <1>2, <2>1, <2>2, <2>3, <2>4, <2>5, <2>6, <2>7, <2>8 DEF Act, Call
<1> QED
  BY <1>0, <1>1, <1>2, RowOrAct DEF IInv

\* Every step preserves that used tokens are gone.
LEMMA StepCrossed ==
  ASSUME IInv, [Next]_vars
  PROVE  CrossedOut'
<1> SUFFICES ASSUME NEW r \in Req, Past(r)'
             PROVE  input'[r] \notin token' \/ input'[r] \in kept'
  BY DEF CrossedOut
<1>1. CASE Past(r)
  <2>1. input'[r] = input[r] /\ pc[input[r]] = "done" /\ input[r] \in Req
    BY <1>1, PastGrows DEF IInv, Stages, Stage, HoldsToken, Issued, Tokens
  <2>2. input[r] \in token' => input[r] \in token
    BY <2>1, TokenSteps
  <2>3. kept \subseteq kept'
    BY TokenSteps
  <2> QED
    BY <1>1, <2>1, <2>2, <2>3 DEF IInv, CrossedOut
<1>2. CASE ~Past(r)
  <2>1. DeleteToken(r)
    BY <1>2, PastGrows
  <2> QED
    BY <2>1 DEF DeleteToken
<1> QED
  BY <1>1, <1>2

\* While no call fails a token goes by its TTL or into the hands of a reset.
LEMMA StepTokensGo ==
  ASSUME IInv, [Next]_vars
  PROVE  TokensGo' /\ InvalidForAReason'
<1>1. faults' = 0 => faults = 0
  <2>1. ASSUME NEW r \in Req, Act(r) PROVE faults' = 0 => faults = 0
    BY <2>1, ActRows DEF IInv
  <2> QED
    BY <2>1, QuietRows
<1>2. ASSUME faults' = 0, NEW t, Taken(t) PROVE Taken(t)'
  <2>1. PICK q \in Req : input[q] = t /\ (pc[q] = "set" \/ result[q] = "reset")
    BY <1>2 DEF Taken
  <2>2. input'[q] = t /\ (pc'[q] = "set" \/ result'[q] = "reset")
    BY <1>2, <2>1, PastGrows DEF Past
  <2> QED
    BY <2>2 DEF Taken
<1>3. ASSUME faults' = 0, NEW t \in Req, t \in token \/ t \in aged \/ Taken(t)
      PROVE  t \in token' \/ t \in aged' \/ Taken(t)'
  <2>1. CASE t \in token \ token' /\ t \notin aged'
    <3>1. PICK q \in Req : input[q] = t /\ pc[q] = "delete_token" /\ pc'[q] = "set"
      BY <2>1, TokenSteps
    <3>2. input'[q] = t
      BY <3>1, Stays
    <3> QED
      BY <3>1, <3>2 DEF Taken
  <2> QED
    BY <1>2, <1>3, <2>1, TokenSteps
<1>4. ASSUME faults' = 0, NEW t \in Issued'
      PROVE  t \in token' \/ t \in aged' \/ Taken(t)'
  <2>1. CASE t \in Issued
    BY <1>1, <1>3, <1>4, <2>1 DEF IInv, TokensGo, Issued
  <2>2. CASE t \notin Issued
    <3>1. t \in Req /\ result'[t] = "issued" /\ result[t] # "issued"
      BY <1>4, <2>2 DEF Issued
    <3>2. Generate(t)
      BY <3>1, WhoAnswers DEF IInv
    <3> QED
      BY <3>1, <3>2 DEF Generate, Answer, IInv, TypeOK, CodeTypeOK
  <2> QED
    BY <2>1, <2>2
<1>5. ASSUME faults' = 0, NEW r \in Req, result'[r] = "invalid", input'[r] \in Issued'
      PROVE  input'[r] \in aged' \/ Taken(input[r])'
  <2>0. result[r] = "invalid" \/ ReadCode(r) \/ ReadToken(r)
    BY <1>5, WhoAnswers DEF IInv
  <2>1. pc[r] # "start"
    BY <2>0 DEF ReadCode, ReadToken, IInv, TypeOK, CodeTypeOK
  <2>2. input'[r] = input[r]
    BY <2>1, Stays
  <2>3. input[r] \in Issued
    <3>1. input[r] \in Codes \cup Issued \cup {None}
      BY <2>0 DEF ReadCode, ReadToken, IInv, Stages, Stage
    <3>2. input[r] \notin Codes /\ input[r] # None
      <4>1. \A c \in Codes : target'[c] = None
        BY Stays DEF Codes, IInv, Stages, Stage, TypeOK, SameRow
      <4>2. \A t \in Issued' : target'[t] \in User /\ t \in Req
        BY StepTokens DEF Tokens, Issued
      <4> QED
        BY <1>5, <2>2, <4>1, <4>2, CodeNoneAssumption, UserAssumption
    <3> QED
      BY <3>1, <3>2
  <2>4. input[r] \in aged \/ Taken(input[r])
    <3>1. CASE result[r] = "invalid"
      BY <1>1, <1>5, <2>3, <3>1 DEF IInv, InvalidForAReason
    <3>2. CASE result[r] # "invalid"
      <4>2. ReadToken(r)
        BY <2>0, <2>3, <3>2, Disjoint DEF ReadCode, IInv, Stages, Stage
      <4>3. input[r] \notin token
        BY <1>1, <1>5, <4>2 DEF ReadToken, Badly, Fault, IInv, TypeOK, CodeTypeOK, Goto
      <4> QED
        BY <1>1, <1>5, <2>3, <4>3 DEF IInv, TokensGo
    <3> QED
      BY <3>1, <3>2
  <2> QED
    BY <1>2, <1>5, <2>2, <2>4, TokenSteps
<1> QED
  BY <1>4, <1>5 DEF TokensGo, InvalidForAReason

\* Who sets passwords: a reset the user of its token, a link the user it was
\* mailed to.  No password is taken away.
LEMMA PasswordSteps ==
  ASSUME IInv, [Next]_vars
  PROVE  /\ \A u \in User : password[u] # None => password'[u] # None
         /\ \A u \in User : password'[u] # password[u] =>
              LET r == password'[u] IN
                r \in Req /\ target[r] = u /\ (r \in Links \/ SetPassword(r))
         /\ \A r \in Req : result'[r] = "reset" /\ result[r] # "reset" =>
              target'[r] = target[r] /\ target[r] \in User /\ password'[target[r]] # None
<1> DEFINE Goal ==
         /\ \A u \in User : password[u] # None => password'[u] # None
         /\ \A u \in User : password'[u] # password[u] =>
              LET r == password'[u] IN
                r \in Req /\ target[r] = u /\ (r \in Links \/ SetPassword(r))
         /\ \A r \in Req : result'[r] = "reset" /\ result[r] # "reset" =>
              target'[r] = target[r] /\ target[r] \in User /\ password'[target[r]] # None
<1>0. /\ password \in [User -> Req \cup {None}] /\ None \notin Req
      /\ DOMAIN result = Req
  BY CodeNoneAssumption DEF IInv, TypeOK, CodeTypeOK
<1>1. ASSUME NEW r \in Req, SetPassword(r) PROVE Goal
  <2>1. target[r] \in User /\ target' = target /\ \E a : result' = [result EXCEPT ![r] = a]
    BY <1>1 DEF SetPassword, IInv, Stages, Stage, Answer
  <2>2. password' = password \/ password' = [password EXCEPT ![target[r]] = r]
    BY <1>1 DEF SetPassword
  <2>3. result'[r] = "reset" => password' = [password EXCEPT ![target[r]] = r]
    BY <1>0, <1>1 DEF SetPassword, Answer
  <2> HIDE DEF Goal
  <2>4. \A u \in User : password'[u] # password[u] => u = target[r] /\ password'[u] = r
    BY <1>0, <2>1, <2>2
  <2> QED
    BY <1>0, <1>1, <2>1, <2>2, <2>3, <2>4 DEF Goal
<1>2. ASSUME NEW r \in Req, FollowLink(r) PROVE Goal
  BY <1>0, <1>2 DEF FollowLink, codeVars, flow
<1>3. CASE password' = password
           /\ \A r \in Req : result'[r] = "reset" => result[r] = "reset"
  BY <1>3
<1>4. ASSUME NEW r \in Req, Act(r), ~SetPassword(r)
      PROVE  password' = password
             /\ \A q \in Req : result'[q] = "reset" => result[q] = "reset"
  <2>1. password' = password
    BY <1>4 DEF Act, Call, CodeCall, Send, Verify, Reset, Forgot, Change, FindForSend,
                FindOwner, Generate, ReadToken, DeleteToken, LoginOld, ChangeNew,
                FindForgotten, MailLink, others
  <2>2. result'[r] = "reset" => result[r] = "reset"
    BY <1>0, <1>4
       DEF Act, Call, CodeCall, Send, Verify, Reset, Forgot, Change, Begin, StoreCode,
           MailCode, ReadCode, ReadToken, ConsumeCode, FindForSend, FindOwner, Generate,
           DeleteToken, LoginOld, ChangeNew, FindForgotten, MailLink, Goto, Answer
  <2>3. \A q \in Req \ {r} : result'[q] = result[q]
    BY <1>4, ActRows DEF IInv, SameRow
  <2> QED
    BY <2>1, <2>2, <2>3
<1>5. CASE (\A r \in Req : ~Act(r)) /\ (\A r \in Req : ~FollowLink(r))
  <2>1. result' = result
    BY <1>5, QuietRows
  <2>2. password' = password
    BY <1>5 DEF Next, Act, ExpireToken, ExpireCode, Move, vars, others
  <2> QED
    BY <2>1, <2>2
<1> QED
  BY <1>1, <1>2, <1>3, <1>4, <1>5

\* Every step preserves who has set the passwords.
LEMMA StepPasswords ==
  ASSUME IInv, [Next]_vars
  PROVE  PasswordsSet'
<1>1. ASSUME NEW u \in User, NEW r \in Req, password'[u] = r
      PROVE  target'[r] = u /\ pc'[r] = "done" /\ (r \in Links' \/ Past(r)')
  <2>1. CASE r = password[u]
    <3>1. target[r] = u /\ pc[r] = "done" /\ (r \in Links \/ Past(r))
      BY <2>1, CodeNoneAssumption DEF IInv, PasswordsSet
    <3> QED
      BY <3>1, Stays, PastGrows DEF SameRow
  <2>2. CASE r # password[u]
    <3>1. target[r] = u /\ (r \in Links \/ SetPassword(r))
      BY <1>1, <2>2, PasswordSteps
    <3>2. CASE r \in Links
      <4>1. pc[r] = "done"
        BY <3>2 DEF Links, IInv, Stages, Stage
      <4> QED
        BY <3>1, <3>2, <4>1, Stays DEF SameRow
    <3>3. CASE SetPassword(r)
      <4>1. target' = target /\ pc'[r] = "done" /\ Past(r)
        BY <3>3 DEF SetPassword, Answer, Past, IInv, TypeOK, CodeTypeOK
      <4> QED
        BY <3>1, <4>1, PastGrows
    <3> QED
      BY <3>1, <3>2, <3>3
  <2> QED
    BY <2>1, <2>2
<1>2. ASSUME NEW r \in Req, result'[r] = "reset"
      PROVE  password'[target'[r]] # None
  <2>1. CASE result[r] = "reset"
    <3>1. target'[r] = target[r] /\ target[r] \in User
      BY <2>1, PastGrows DEF Past, IInv, Stages, Stage, HoldsToken, Issued, Tokens
    <3> QED
      BY <2>1, <3>1, PasswordSteps DEF IInv, PasswordsSet
  <2>2. CASE result[r] # "reset"
    BY <1>2, <2>2, PasswordSteps
  <2> QED
    BY <2>1, <2>2
<1>3. \A u \in User : password'[u] # None => password'[u] \in Req
  BY StepType DEF TypeOK
<1> QED
  BY <1>1, <1>2, <1>3 DEF PasswordsSet

-----------------------------------------------------------------------------
\* Every step preserves the invariant.
LEMMA StepInv == IInv /\ [Next]_vars => IInv'
<1> SUFFICES ASSUME IInv, [Next]_vars PROVE IInv'
  OBVIOUS
<1>1. TypeOK' /\ Stages' /\ CodeOfEmail' /\ Tokens'
  BY StepType, StepStages, StepCode, StepTokens
<1>2. CrossedOut' /\ PasswordsSet' /\ TokensGo' /\ InvalidForAReason'
  BY StepCrossed, StepPasswords, StepTokensGo
<1> QED
  BY <1>1, <1>2 DEF IInv

\* The invariant always holds.
LEMMA Invariance == Spec => []IInv
BY InitInv, StepInv, PTL DEF Spec

\* In every state the variables have their types, and a request is at its end
\* exactly when it is answered.
THEOREM TypeCorrect == Spec => []TypeOK
<1>1. IInv => TypeOK
  BY DEF IInv
<1> QED
  BY <1>1, Invariance, PTL

\* Nobody's password is set but by a link mailed to the user or by a reset whose
\* token goes back to the code mailed to the user's e-mail.
THEOREM PasswordsAreTraceable == Spec => []PasswordTraceable
<1>1. IInv => PasswordTraceable
  <2> SUFFICES ASSUME IInv, NEW u \in User, password[u] # None,
                      password[u] \notin Links
               PROVE  LET t == input[password[u]] IN
                        /\ result[t] = "issued" /\ target[t] = u
                        /\ input[t] \in Codes /\ email[input[t]] = email[t]
    BY DEF PasswordTraceable, IInv, PasswordsSet
  <2>1. password[u] \in Req /\ target[password[u]] = u /\ Past(password[u])
    BY DEF IInv, PasswordsSet, TypeOK
  <2>2. HoldsToken(password[u])
    BY <2>1 DEF IInv, Stages, Stage
  <2> QED
    BY <2>1, <2>2 DEF HoldsToken, Issued, Shown, IInv, Tokens
<1> QED
  BY <1>1, Invariance, PTL

\* "reset" is answered for a password that took effect and is still in force or
\* was replaced; a token is turned down for a reason only.
THEOREM AnswersAreTrue == Spec => []AnswerIsTrue
<1>1. IInv => AnswerIsTrue
  <2> SUFFICES ASSUME IInv PROVE AnswerIsTrue
    OBVIOUS
  <2>1. ASSUME NEW r \in Req, result[r] = "reset"
        PROVE  /\ password[target[r]] # None
               /\ target[password[target[r]]] = target[r]
    <3>1. target[r] \in User
      BY <2>1 DEF Past, IInv, Stages, Stage, HoldsToken, Issued, Tokens
    <3> QED
      BY <2>1, <3>1 DEF IInv, PasswordsSet
  <2>2. ASSUME NEW r \in Req, result[r] = "invalid", input[r] \in Issued, faults = 0
        PROVE  \/ input[r] \in aged
               \/ \E q \in Req \ {r} :
                    input[q] = input[r] /\ (pc[q] = "set" \/ result[q] = "reset")
    <3>1. pc[r] = "done"
      BY <2>2 DEF IInv, TypeOK, CodeTypeOK
    <3> QED
      BY <2>2, <3>1 DEF IInv, InvalidForAReason, Taken
  <2> QED
    BY <2>1, <2>2 DEF AnswerIsTrue
<1> QED
  BY <1>1, Invariance, PTL

-----------------------------------------------------------------------------
\* The mapping of the abstract variables, as PasswordReset gives it.
Inside == [r \in Req |-> IF pc[r] = "delete_token" THEN input[r] ELSE None]
Used == [r \in Req |-> IF Past(r) THEN input[r] ELSE None]

\* The initial states are initial for the secrets.
LEMMA RefinesInit == Init => Secrets!Init
BY DEF Init, CodeInit, Secrets!Init, Past

\* A step that leaves these alone lets nobody in and crosses nothing out.
LEMMA SameMapping ==
  ASSUME NEW r \in Req,
         pc'[r] = "delete_token" <=> pc[r] = "delete_token",
         Past(r)' <=> Past(r),
         pc[r] = "delete_token" \/ Past(r) => input'[r] = input[r]
  PROVE  Inside'[r] = Inside[r] /\ Used'[r] = Used[r]
BY DEF Inside, Used

\* The read of Validate lets a reset in if the token is there.
LEMMA RefinesReadToken ==
  ASSUME IInv, NEW r \in Req, ReadToken(r)
  PROVE  [Secrets!Next]_(Secrets!vars)
<1> USE DEF Goto, Answer
<1>1. /\ UNCHANGED <<input, kept, aged>> /\ pc[r] = "read_token" /\ result[r] = "none"
      /\ DOMAIN pc = Req /\ DOMAIN result = Req
  BY DEF ReadToken, IInv, TypeOK, CodeTypeOK
<1>2. CASE input[r] \in token /\ Goto(r, "delete_token")
  <2>1. input[r] \in Req /\ input[r] \notin aged
    BY <1>2 DEF IInv, TypeOK, Tokens
  <2>2. input[r] \in kept \/ \A q \in Req : Used[q] # input[r]
    BY <1>2, <2>1, CodeNoneAssumption DEF IInv, CrossedOut, Used
  <2>3. Inside[r] = None /\ Used[r] = None
    BY <1>1 DEF Inside, Used, Past
  <2>4. Inside' = [Inside EXCEPT ![r] = input[r]] /\ Used' = Used
    BY <1>1, <1>2 DEF Inside, Used, Past
  <2> QED
    BY <1>1, <2>1, <2>2, <2>3, <2>4
       DEF Secrets!Next, Secrets!LetIn, Secrets!Good, Secrets!vars, Inside, Used
<1>3. CASE Answer(r, "invalid")
  <2>1. Inside' = Inside /\ Used' = Used
    BY <1>1, <1>3 DEF Inside, Used, Past
  <2> QED
    BY <1>1, <2>1 DEF Secrets!vars, Inside, Used
<1> QED
  BY <1>2, <1>3 DEF ReadToken

\* The deletion of Validate crosses the token out, or fails to and goes on.
LEMMA RefinesDeleteToken ==
  ASSUME IInv, NEW r \in Req, DeleteToken(r)
  PROVE  Secrets!CrossOut(r)
<1>1. /\ pc[r] = "delete_token" /\ pc' = [pc EXCEPT ![r] = "set"]
      /\ UNCHANGED <<result, input, aged>> /\ DOMAIN pc = Req
      /\ kept' \in {kept, kept \cup {input[r]}} /\ result[r] = "none"
  BY DEF DeleteToken, Goto, IInv, TypeOK, CodeTypeOK
<1>2. input[r] # None
  BY <1>1, Disjoint DEF IInv, Stages, Stage, HoldsToken
<1>3. Inside[r] = input[r]
  BY <1>1 DEF Inside
<1>4. Inside' = [Inside EXCEPT ![r] = None] /\ Used' = [Used EXCEPT ![r] = Inside[r]]
  BY <1>1, <1>3 DEF Inside, Used, Past
<1> QED
  BY <1>1, <1>2, <1>3, <1>4 DEF Secrets!CrossOut, Inside, Used

\* No other step changes what is promised, but a TTL that runs out.
LEMMA RefinesOthers ==
  ASSUME IInv, [Next]_vars, \A r \in Req : ~ReadToken(r) /\ ~DeleteToken(r)
  PROVE  [Secrets!Next]_(Secrets!vars)
<1>1. ASSUME NEW r \in Req
      PROVE  pc'[r] = "delete_token" <=> pc[r] = "delete_token"
  <2>1. CASE Act(r)
    BY <2>1
       DEF Act, Call, CodeCall, Send, Verify, Reset, Forgot, Change, Begin, StoreCode,
           MailCode, ReadCode, ConsumeCode, FindForSend, FindOwner, Generate, SetPassword,
           LoginOld, ChangeNew, FindForgotten, MailLink, Goto, Answer, IInv, TypeOK,
           CodeTypeOK
  <2> QED
    BY <2>1, RowOrAct DEF SameRow, IInv
<1>2. \A r \in Req : Inside'[r] = Inside[r] /\ Used'[r] = Used[r]
  <2> SUFFICES ASSUME NEW r \in Req PROVE Inside'[r] = Inside[r] /\ Used'[r] = Used[r]
    OBVIOUS
  <2>1. Past(r)' <=> Past(r)
    BY PastGrows
  <2>2. pc[r] = "delete_token" \/ Past(r) => input'[r] = input[r]
    BY Stays, PastGrows
  <2> QED
    BY <1>1, <2>1, <2>2, SameMapping
<1>3. Inside' = Inside /\ Used' = Used
  BY <1>2 DEF Inside, Used
<1>4. kept' = kept /\ (aged' = aged \/ \E t \in Req : aged' = aged \cup {t})
  <2>1. ASSUME NEW r \in Req, Act(r) PROVE kept' = kept /\ aged' = aged
    BY <2>1 DEF Act, Call, CodeCall, Send, Verify, Reset, Forgot, Change, FindForSend,
                FindOwner, Generate, SetPassword, LoginOld, ChangeNew, FindForgotten,
                MailLink, others
  <2>2. CASE \A r \in Req : ~Act(r)
    BY <2>2 DEF Next, Act, FollowLink, ExpireToken, ExpireCode, Move, vars, others
  <2> QED
    BY <2>1, <2>2
<1> QED
  BY <1>3, <1>4 DEF Secrets!Next, Secrets!RunOut, Secrets!vars, Inside, Used

\* The reset tokens are one-time secrets: a reset is let in by the read of
\* Validate and crosses the token out by its deletion, and nobody is let in with
\* a token that ran out or that another reset has crossed out.
THEOREM TokensAreOneTimeSecrets == Spec => ImplementsOneTimeSecret
<1>1. IInv /\ [Next]_vars => [Secrets!Next]_(Secrets!vars)
  <2> SUFFICES ASSUME IInv, [Next]_vars PROVE [Secrets!Next]_(Secrets!vars)
    OBVIOUS
  <2>1. ASSUME NEW r \in Req, ReadToken(r) PROVE [Secrets!Next]_(Secrets!vars)
    BY <2>1, RefinesReadToken
  <2>2. ASSUME NEW r \in Req, DeleteToken(r) PROVE [Secrets!Next]_(Secrets!vars)
    BY <2>2, RefinesDeleteToken DEF Secrets!Next
  <2>3. CASE \A r \in Req : ~ReadToken(r) /\ ~DeleteToken(r)
    BY <2>3, RefinesOthers
  <2> QED
    BY <2>1, <2>2, <2>3
<1> QED
  BY <1>1, RefinesInit, Invariance, PTL DEF Spec, ImplementsOneTimeSecret, Secrets!Spec
=============================================================================
