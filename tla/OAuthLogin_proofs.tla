-------------------------- MODULE OAuthLogin_proofs --------------------------
(* Proofs about Accounts and OAuthLogin, for any number of addresses,        *)
(* requests, codes and logins: what a code may be entered for, which code    *)
(* survives, and that a login leads to one session.                          *)
EXTENDS OAuthLogin, FiniteSetTheorems, SequenceTheorems, TLAPS

CodeStates == {"live", "used", "replaced", "withdrawn", "dropped"}

-----------------------------------------------------------------------------
(* The table of codes as a sequence.                                        *)

CodesType == codes \in Seq(Code) /\ Len(codes) <= MaxCodes

\* What never changes of a code.
Same(k, m) ==
  /\ k.email = m.email /\ k.purpose = m.purpose /\ k.role = m.role
  /\ k.account = m.account

\* A function on 1..n is a sequence of length n.
LEMMA AsSequence ==
  ASSUME NEW n \in Nat, NEW f \in [1..n -> Code]
  PROVE  f \in Seq(Code) /\ Len(f) = n
<1>1. f \in Seq(Code)
  BY IsASeq
<1>2. DOMAIN f = 1..Len(f) /\ Len(f) \in Nat /\ DOMAIN f = 1..n
  BY <1>1, LenProperties
<1> QED
  BY <1>1, <1>2

LEMMA CodeAt ==
  ASSUME CodesType
  PROVE  /\ Len(codes) \in Nat /\ DOMAIN codes = 1..Len(codes)
         /\ \A i \in DOMAIN codes : codes[i] \in Code
BY ElementOfSeq, LenProperties DEF CodesType

\* One field of a code set.
LEMMA CodeUpdate ==
  ASSUME NEW k \in Code
  PROVE  /\ \A x \in CodeStates : /\ [k EXCEPT !.state = x] \in Code
                                  /\ Same([k EXCEPT !.state = x], k)
                                  /\ [k EXCEPT !.state = x].state = x
                                  /\ [k EXCEPT !.state = x].unsent = k.unsent
         /\ \A n \in 0..MaxAttempts : /\ [k EXCEPT !.attempts = n] \in Code
                                      /\ Same([k EXCEPT !.attempts = n], k)
                                      /\ [k EXCEPT !.attempts = n].state = k.state
                                      /\ [k EXCEPT !.attempts = n].unsent = k.unsent
         /\ /\ [k EXCEPT !.unsent = TRUE] \in Code
            /\ Same([k EXCEPT !.unsent = TRUE], k)
            /\ [k EXCEPT !.unsent = TRUE].state = k.state
            /\ [k EXCEPT !.unsent = TRUE].unsent
<1>1. ASSUME NEW x \in CodeStates
      PROVE  /\ [k EXCEPT !.state = x] \in Code
             /\ Same([k EXCEPT !.state = x], k)
             /\ [k EXCEPT !.state = x].state = x
             /\ [k EXCEPT !.state = x].unsent = k.unsent
  BY DEF Code, CodeStates, Same
<1>2. ASSUME NEW n \in 0..MaxAttempts
      PROVE  /\ [k EXCEPT !.attempts = n] \in Code
             /\ Same([k EXCEPT !.attempts = n], k)
             /\ [k EXCEPT !.attempts = n].state = k.state
             /\ [k EXCEPT !.attempts = n].unsent = k.unsent
  BY DEF Code, Same
<1>3. /\ [k EXCEPT !.unsent = TRUE] \in Code
      /\ Same([k EXCEPT !.unsent = TRUE], k)
      /\ [k EXCEPT !.unsent = TRUE].state = k.state
      /\ [k EXCEPT !.unsent = TRUE].unsent
  BY DEF Code, Same
<1> QED
  BY <1>1, <1>2, <1>3

\* All records of S set to a state.
LEMMA ChangedCodes ==
  ASSUME CodesType, NEW S, NEW x \in CodeStates
  PROVE  /\ Changed(S, x) \in Seq(Code) /\ Len(Changed(S, x)) = Len(codes)
         /\ \A i \in 1..Len(codes) :
              /\ Same(Changed(S, x)[i], codes[i])
              /\ Changed(S, x)[i].state = IF i \in S THEN x ELSE codes[i].state
              /\ Changed(S, x)[i].unsent = codes[i].unsent
<1>1. ASSUME NEW i \in 1..Len(codes)
      PROVE  /\ Changed(S, x)[i] \in Code /\ Same(Changed(S, x)[i], codes[i])
             /\ Changed(S, x)[i].state = IF i \in S THEN x ELSE codes[i].state
             /\ Changed(S, x)[i].unsent = codes[i].unsent
  <2>1. codes[i] \in Code /\ i \in DOMAIN codes
    BY CodeAt
  <2>2. Changed(S, x)[i] = IF i \in S THEN [codes[i] EXCEPT !.state = x] ELSE codes[i]
    BY <2>1 DEF Changed
  <2>3. CASE i \in S
    <3> DEFINE k == codes[i]
    <3>1. k \in Code /\ Changed(S, x)[i] = [k EXCEPT !.state = x]
      BY <2>1, <2>2, <2>3
    <3> HIDE DEF k
    <3>2. /\ [k EXCEPT !.state = x] \in Code /\ Same([k EXCEPT !.state = x], k)
          /\ [k EXCEPT !.state = x].state = x /\ [k EXCEPT !.state = x].unsent = k.unsent
      BY <3>1, CodeUpdate
    <3> QED BY <2>3, <3>1, <3>2 DEF k
  <2>4. CASE i \notin S
    BY <2>1, <2>2, <2>4 DEF Same
  <2> QED BY <2>3, <2>4
<1>2. Changed(S, x) \in [1..Len(codes) -> Code]
  <2>1. Changed(S, x) = [i \in 1..Len(codes) |-> Changed(S, x)[i]]
    BY CodeAt DEF Changed
  <2> QED BY <1>1, <2>1
<1> QED
  BY <1>1, <1>2, AsSequence, CodeAt

\* One record replaced.
LEMMA SetCode ==
  ASSUME NEW s \in Seq(Code), NEW i \in 1..Len(s), NEW k \in Code, NEW t,
         t = [s EXCEPT ![i] = k]
  PROVE  /\ t \in Seq(Code) /\ Len(t) = Len(s) /\ t[i] = k
         /\ \A j \in 1..Len(s) : j # i => t[j] = s[j]
BY ExceptSeq

-----------------------------------------------------------------------------
(* The steps that change the table, each by what it does to every record.   *)

\* A new record takes the place of those of its address and signup_role.
Issued(new) ==
  /\ codes' \in Seq(Code) /\ Len(codes') = Len(codes) + 1 /\ Len(codes') <= MaxCodes
  /\ codes'[Len(codes) + 1] = new
  /\ \A i \in 1..Len(codes) :
       /\ Same(codes'[i], codes[i]) /\ codes'[i].unsent = codes[i].unsent
       /\ codes'[i].state = IF i \in LiveOf(new.email, new.purpose, new.role)
                            THEN "replaced" ELSE codes[i].state

\* Records of the set S are dropped, used or withdrawn; if withdrawn, as those
\* of a mail that failed.
Changes(S, x) ==
  /\ codes' \in Seq(Code) /\ Len(codes') = Len(codes)
  /\ \A i \in 1..Len(codes) :
       /\ Same(codes'[i], codes[i])
       /\ codes[i].unsent => codes'[i].unsent
       /\ codes'[i].state = IF i \in S THEN x ELSE codes[i].state
       /\ codes'[i].unsent \/ x # "withdrawn" \/ i \notin S

LEMMA IssueEffect ==
  ASSUME CodesType, NEW c \in Clients, NEW new \in Code, NEW w, Issue(c, new, w)
  PROVE  Issued(new)
<1> DEFINE s == Changed(LiveOf(new.email, new.purpose, new.role), "replaced")
<1>1. codes' = Append(s, new) /\ Len(codes) < MaxCodes
  BY DEF Issue
<1>2. /\ s \in Seq(Code) /\ Len(s) = Len(codes)
      /\ \A i \in 1..Len(codes) :
           /\ Same(s[i], codes[i]) /\ s[i].unsent = codes[i].unsent
           /\ s[i].state = IF i \in LiveOf(new.email, new.purpose, new.role)
                           THEN "replaced" ELSE codes[i].state
  BY ChangedCodes DEF CodeStates
<1> HIDE DEF s
<1>3. /\ codes' \in Seq(Code) /\ Len(codes') = Len(codes) + 1
      /\ codes'[Len(codes) + 1] = new
      /\ \A i \in 1..Len(codes) : codes'[i] = s[i]
  BY <1>1, <1>2, AppendProperties
<1>4. Len(codes) \in Nat /\ MaxCodes \in Nat
  BY CodeAt, AccountsAssumption
<1>5. Len(codes') <= MaxCodes
  BY <1>1, <1>3, <1>4
<1> QED
  BY <1>2, <1>3, <1>5 DEF Issued

LEMMA ChangedEffect ==
  ASSUME CodesType, NEW S, NEW x \in CodeStates \ {"withdrawn"}, codes' = Changed(S, x)
  PROVE  Changes(S, x)
BY ChangedCodes DEF Changes

\* Setting one record's state, or its number of attempts.
LEMMA UsedEffect ==
  ASSUME CodesType, NEW i \in DOMAIN codes, codes' = [codes EXCEPT ![i].state = "used"]
  PROVE  Changes({i}, "used")
<1> DEFINE k == codes[i]
           u == [k EXCEPT !.state = "used"]
<1>1. k \in Code
  BY CodeAt
<1>2. codes' = [codes EXCEPT ![i] = u]
  OBVIOUS
<1>3. u \in Code /\ Same(u, k) /\ u.state = "used" /\ u.unsent = k.unsent
  <2> HIDE DEF k
  <2> QED BY <1>1, CodeUpdate DEF CodeStates
<1> HIDE DEF u
<1>4. /\ codes' \in Seq(Code) /\ Len(codes') = Len(codes) /\ codes'[i] = u
      /\ \A j \in 1..Len(codes) : j # i => codes'[j] = codes[j]
  BY <1>2, <1>3, SetCode, CodeAt DEF CodesType
<1> QED
  BY <1>3, <1>4 DEF Changes, Same

LEMMA AttemptsEffect ==
  ASSUME CodesType, NEW i \in DOMAIN codes, NEW n \in 0..MaxAttempts,
         codes' = [codes EXCEPT ![i].attempts = n]
  PROVE  Changes({}, "used")
<1> DEFINE k == codes[i]
           u == [k EXCEPT !.attempts = n]
<1>1. k \in Code
  BY CodeAt
<1>2. codes' = [codes EXCEPT ![i] = u]
  OBVIOUS
<1>3. u \in Code /\ Same(u, k) /\ u.state = k.state /\ u.unsent = k.unsent
  <2> HIDE DEF k
  <2> QED BY <1>1, CodeUpdate
<1> HIDE DEF u
<1>4. /\ codes' \in Seq(Code) /\ Len(codes') = Len(codes) /\ codes'[i] = u
      /\ \A j \in 1..Len(codes) : j # i => codes'[j] = codes[j]
  BY <1>2, <1>3, SetCode, CodeAt DEF CodesType
<1> QED
  BY <1>3, <1>4 DEF Changes, Same

\* The mail of a reset fails.
LEMMA WithdrawnEffect ==
  ASSUME CodesType, NEW i \in DOMAIN codes,
         codes' = [Changed(Withdrawn(i), "withdrawn") EXCEPT ![i].unsent = TRUE]
  PROVE  Changes(Withdrawn(i), "withdrawn")
<1> DEFINE s == Changed(Withdrawn(i), "withdrawn")
           k == s[i]
           u == [k EXCEPT !.unsent = TRUE]
<1>1. /\ s \in Seq(Code) /\ Len(s) = Len(codes)
      /\ \A j \in 1..Len(codes) :
           /\ Same(s[j], codes[j]) /\ s[j].unsent = codes[j].unsent
           /\ s[j].state = IF j \in Withdrawn(i) THEN "withdrawn" ELSE codes[j].state
  BY ChangedCodes DEF CodeStates
<1>2. codes' = [s EXCEPT ![i] = u]
  OBVIOUS
<1>3. i \in 1..Len(s) /\ Withdrawn(i) \subseteq {i}
  BY <1>1, CodeAt DEF Withdrawn
<1> HIDE DEF s
<1>4. k \in Code /\ s \in Seq(Code) /\ i \in 1..Len(s)
  BY <1>1, <1>3, ElementOfSeq
<1>5. u \in Code /\ Same(u, k) /\ u.state = k.state /\ u.unsent
  <2> HIDE DEF k
  <2> QED BY <1>4, CodeUpdate
<1> HIDE DEF u, k
<1>6. /\ codes' \in Seq(Code) /\ Len(codes') = Len(s) /\ codes'[i] = u
      /\ \A j \in 1..Len(s) : j # i => codes'[j] = s[j]
  BY ONLY <1>2, <1>4, <1>5, SetCode
<1>7. ASSUME NEW j \in 1..Len(codes)
      PROVE  /\ Same(codes'[j], codes[j])
             /\ codes[j].unsent => codes'[j].unsent
             /\ codes'[j].state = IF j \in Withdrawn(i) THEN "withdrawn" ELSE codes[j].state
             /\ codes'[j].unsent \/ j \notin Withdrawn(i)
  <2>1. CASE j = i
    BY <2>1, <1>1, <1>5, <1>6 DEF k, Same
  <2>2. CASE j # i
    BY <2>2, <1>1, <1>3, <1>6
  <2> QED BY <2>1, <2>2
<1> QED
  BY <1>1, <1>6, <1>7 DEF Changes

-----------------------------------------------------------------------------
(* The invariants that relate codes and accounts.                           *)

\* What a code was issued for.  The account of a reset was active and had a
\* password, and keeps both.
Legit(k) ==
  \/ k.purpose = "signup" /\ k.account = k.role
  \/ /\ k.purpose = "reset"
     /\ k.account = k.role \/ (k.role = "user" /\ k.account = "admin")
     /\ Active(k.email, k.account) /\ acc[k.email][k.account].pw # NoPassword

CodesLegit == \A i \in DOMAIN codes : Legit(codes[i])

\* An account DataGSM vouches for is a user's without an administrator's.
OAuthInv ==
  \A e \in Emails, r \in Roles :
    acc[e][r].origin = "oauth" =>
      r = "user" /\ acc[e][r].pw = NoPassword /\ acc[e]["admin"].state = "none"

IssuedFor(i, e, r) ==
  /\ i \in DOMAIN codes /\ codes[i].email = e
  /\ codes[i].account = r \/ (codes[i].account = "admin" /\ r = "user")

PasswordInv ==
  \A e \in Emails, r \in Roles : acc[e][r].pw > 0 => IssuedFor(acc[e][r].pw, e, r)

AccInv == TypeOK /\ CodesLegit /\ OAuthInv /\ PasswordInv

\* What a step may make of one account.
Allowed(e, r, a) ==
  /\ Active(e, r) /\ acc[e][r].pw # NoPassword => a.state = "active" /\ a.pw # NoPassword
  /\ r = "admin" /\ acc[e][r].state = "none" => a.state = "none"
  /\ a.origin = "oauth" =>
       r = "user" /\ a.pw = NoPassword /\ acc[e]["admin"].state = "none"
  /\ a.pw > 0 => IssuedFor(a.pw, e, r)

AccChange ==
  \/ acc' = acc
  \/ \E e \in Emails, r \in Roles, a \in Account : SetAccount(e, r, a) /\ Allowed(e, r, a)

CodeChange ==
  \/ codes' = codes
  \/ \E new \in Code : /\ Issued(new) /\ new.state = "live"
                       /\ acc' = acc /\ Legit(new)
  \/ \E S : \E x \in {"used", "dropped", "withdrawn"} : Changes(S, x)

ReqChange ==
  \/ req' = req
  \/ \E c \in Clients, r \in Request :
       Goto(c, r) /\ (r.pc = "mail" => r.code \in 1..Len(codes'))

LEMMA SetAccountEffect ==
  ASSUME acc \in [Emails -> [Roles -> Account]],
         NEW e \in Emails, NEW r \in Roles, NEW a \in Account, SetAccount(e, r, a)
  PROVE  /\ acc' \in [Emails -> [Roles -> Account]]
         /\ acc'[e][r] = a
         /\ \A f \in Emails, q \in Roles : f # e \/ q # r => acc'[f][q] = acc[f][q]
<1> DEFINE g == [acc[e] EXCEPT ![r] = a]
<1>1. acc' = [acc EXCEPT ![e] = g]
  BY DEF SetAccount
<1>2. /\ g \in [Roles -> Account] /\ g[r] = a
      /\ \A q \in Roles : q # r => g[q] = acc[e][q]
  OBVIOUS
<1> HIDE DEF g
<1> QED
  BY <1>1, <1>2

LEMMA AccountTypes ==
  /\ NoAccount \in Account /\ NoAccount.origin = "none" /\ NoAccount.pw = NoPassword
  /\ \A a \in Account :
       /\ [a EXCEPT !.pw = OwnPassword] \in Account
       /\ \A n \in 1..MaxCodes : [a EXCEPT !.pw = n] \in Account
       /\ [a EXCEPT !.state = "active"] \in Account
<1>1. NoPassword \in NoPassword..MaxCodes /\ OwnPassword \in NoPassword..MaxCodes
      /\ \A n \in 1..MaxCodes : n \in NoPassword..MaxCodes
  BY AccountsAssumption DEF NoPassword, OwnPassword
<1>2. NoAccount \in Account /\ NoAccount.origin = "none" /\ NoAccount.pw = NoPassword
  BY <1>1 DEF NoAccount, Account
<1>3. \A a \in Account : [a EXCEPT !.pw = OwnPassword] \in Account
  BY <1>1 DEF Account
<1>4. \A a \in Account : \A n \in 1..MaxCodes : [a EXCEPT !.pw = n] \in Account
  BY <1>1 DEF Account
<1>5. \A a \in Account : [a EXCEPT !.state = "active"] \in Account
  BY DEF Account
<1> QED
  BY <1>2, <1>3, <1>4, <1>5

LEMMA TypeFacts ==
  ASSUME TypeOK
  PROVE  /\ CodesType
         /\ \A e \in Emails, r \in Roles : acc[e][r] \in Account
         /\ \A c \in Clients : req[c] \in Request
BY DEF TypeOK, CodesType

\* The records the handlers look at are records.
LEMMA RecordsExist ==
  ASSUME NEW e, NEW r
  PROVE  /\ VerifyRecord(e) \subseteq DOMAIN codes
         /\ ResetRecord(e, r) \subseteq DOMAIN codes
         /\ \A i \in VerifyRecord(e) : codes[i].email = e
         /\ \A i \in ResetRecord(e, r) : /\ codes[i].email = e /\ codes[i].role = r
                                         /\ codes[i].purpose = "reset"
BY DEF VerifyRecord, ResetRecord, LiveFor, LiveOf

-----------------------------------------------------------------------------
(* Each action of Accounts is one of these changes.                         *)

LEMMA IdleType == Idle \in Request /\ Idle.pc # "mail"
BY DEF Idle, Request

LEMMA NewCodeType ==
  ASSUME NEW e \in Emails, NEW p \in Purposes, NEW r \in SignupRoles,
         NEW q \in Projects \cup {None}, NEW a \in Roles
  PROVE  LET k == NewCode(e, p, r, q, a) IN
         /\ k \in Code /\ k.state = "live" /\ k.email = e /\ k.purpose = p
         /\ k.role = r /\ k.account = a
BY AccountsAssumption DEF NewCode, Code

\* Issuing a legitimate code.
LEMMA IssueChange ==
  ASSUME TypeOK, NEW c \in Clients, NEW new \in Code, new.state = "live", Legit(new),
         NEW w \in BOOLEAN, Issue(c, new, w)
  PROVE  AccChange /\ CodeChange /\ ReqChange
<1>1. Issued(new) /\ acc' = acc
  BY TypeFacts, IssueEffect DEF Issue
<1>2. Len(codes) \in Nat /\ Len(codes) < MaxCodes /\ Len(codes') = Len(codes) + 1
  BY <1>1, TypeFacts, CodeAt DEF Issue, Issued
<1> DEFINE r == [pc |-> "mail", code |-> Len(codes) + 1, withdraw |-> w]
<1>3. r \in Request /\ r.code \in 1..Len(codes')
  BY <1>2, AccountsAssumption DEF Request
<1>4. Goto(c, r)
  BY DEF Issue
<1> HIDE DEF r
<1> QED
  BY <1>1, <1>3, <1>4 DEF AccChange, CodeChange, ReqChange

LEMMA IssueLostChange ==
  ASSUME TypeOK, NEW c \in Clients, NEW e, NEW p, NEW r, IssueLost(c, e, p, r)
  PROVE  AccChange /\ CodeChange /\ ReqChange
<1>1. Changes(LiveOf(e, p, r), "dropped")
  BY TypeFacts, ChangedEffect DEF IssueLost, CodeStates
<1>2. acc' = acc /\ Goto(c, Idle)
  BY DEF IssueLost
<1> QED
  BY <1>1, <1>2, IdleType DEF AccChange, CodeChange, ReqChange

LEMMA SignupChange ==
  ASSUME TypeOK, NEW c \in Clients, NEW e \in Emails,
         Signup(c, e) \/ \E p \in Projects : SignupProject(c, e, p)
  PROVE  AccChange /\ CodeChange /\ ReqChange
<1>1. \E q \in Projects \cup {None}, r \in SignupRoles :
        Goto(c, [pc |-> "lookup", email |-> e, role |-> r, project |-> q])
  BY DEF Signup, SignupProject, SignupRoles
<1>2. \A q \in Projects \cup {None}, r \in SignupRoles :
        /\ [pc |-> "lookup", email |-> e, role |-> r, project |-> q] \in Request
        /\ [pc |-> "lookup", email |-> e, role |-> r, project |-> q].pc # "mail"
  BY DEF Request
<1>3. acc' = acc /\ codes' = codes
  BY DEF Signup, SignupProject
<1> QED
  BY <1>1, <1>2, <1>3 DEF AccChange, CodeChange, ReqChange

LEMMA SignupIssueChange ==
  ASSUME TypeOK, NEW c \in Clients, SignupIssue(c)
  PROVE  AccChange /\ CodeChange /\ ReqChange
<1> DEFINE r == req[c]
           k == NewCode(r.email, "signup", r.role, r.project, r.role)
<1>1. CASE Goto(c, Idle) /\ UNCHANGED <<acc, codes>>
  BY <1>1, IdleType DEF AccChange, CodeChange, ReqChange
<1>2. r.email \in Emails /\ r.role \in SignupRoles /\ r.project \in Projects \cup {None}
  <2>1. r \in Request /\ r.pc = "lookup"
    BY TypeFacts DEF SignupIssue
  <2> HIDE DEF r
  <2> QED BY <2>1 DEF Request
<1>3. k \in Code /\ k.state = "live" /\ Legit(k)
  <2> DEFINE e == r.email  q == r.project  o == r.role
  <2>1. e \in Emails /\ q \in Projects \cup {None} /\ o \in SignupRoles
        /\ o \in Roles /\ "signup" \in Purposes /\ k = NewCode(e, "signup", o, q, o)
    BY <1>2 DEF SignupRoles, Roles, Purposes
  <2> HIDE DEF e, q, o, r, k
  <2>2. k \in Code /\ k.state = "live" /\ k.purpose = "signup" /\ k.account = k.role
    <3>1. /\ k \in Code /\ k.state = "live" /\ k.purpose = "signup"
          /\ k.role = o /\ k.account = o
      BY <2>1, NewCodeType
    <3> QED BY <3>1
  <2> QED BY <2>2 DEF Legit
<1>4. CASE Issue(c, k, FALSE)
  <2> HIDE DEF k
  <2> QED BY <1>3, <1>4, IssueChange
<1>5. CASE IssueLost(c, r.email, "signup", r.role)
  BY <1>5, IssueLostChange
<1> QED
  BY <1>1, <1>4, <1>5 DEF SignupIssue

LEMMA ResetRequestChange ==
  ASSUME TypeOK, NEW c \in Clients, NEW e \in Emails, NEW r \in SignupRoles,
         RequestPasswordReset(c, e, r)
  PROVE  AccChange /\ CodeChange /\ ReqChange
<1>1. PICK a \in ResetAccount(e, r) :
        /\ Resettable(e, a)
        /\ \/ Issue(c, NewCode(e, "reset", r, None, a), TRUE)
           \/ IssueLost(c, e, "reset", r)
  BY DEF RequestPasswordReset
<1> DEFINE k == NewCode(e, "reset", r, None, a)
<1>2. /\ a \in Roles /\ Active(e, a)
      /\ a = r \/ (r = "user" /\ a = "admin")
  <2>1. CASE Active(e, r)
    BY <2>1 DEF ResetAccount, Roles, SignupRoles
  <2>2. CASE ~Active(e, r)
    <3>1. r = "user" /\ Active(e, "admin") /\ a = "admin"
      BY <2>2 DEF ResetAccount
    <3> QED BY <3>1 DEF Roles
  <2> QED BY <2>1, <2>2
<1>3. k \in Code /\ k.state = "live" /\ Legit(k)
  <2>1. "reset" \in Purposes /\ None \in Projects \cup {None}
    BY DEF Purposes
  <2>2. /\ k \in Code /\ k.state = "live" /\ k.email = e /\ k.purpose = "reset"
        /\ k.role = r /\ k.account = a
    BY <1>2, <2>1, NewCodeType
  <2> HIDE DEF k
  <2> QED BY <1>1, <1>2, <2>2 DEF Legit, Resettable
<1>4. CASE Issue(c, k, TRUE)
  <2> HIDE DEF k
  <2> QED BY <1>3, <1>4, IssueChange
<1>5. CASE IssueLost(c, e, "reset", r)
  BY <1>5, IssueLostChange
<1> QED
  BY <1>1, <1>4, <1>5

LEMMA ResendChange ==
  ASSUME TypeOK, CodesLegit, NEW c \in Clients, NEW e \in Emails, ResendCode(c, e)
  PROVE  AccChange /\ CodeChange /\ ReqChange
<1>1. PICK i \in VerifyRecord(e) :
        Issue(c, NewCode(e, codes[i].purpose, codes[i].role, codes[i].project,
                         codes[i].account), FALSE)
  BY DEF ResendCode
<1> DEFINE m == codes[i]
           k == NewCode(e, m.purpose, m.role, m.project, m.account)
<1>2. m \in Code /\ Legit(m) /\ m.email = e
  BY RecordsExist, TypeFacts, CodeAt DEF CodesLegit
<1>3. k \in Code /\ k.state = "live" /\ Legit(k)
  <2> HIDE DEF m
  <2>1. /\ m.purpose \in Purposes /\ m.role \in SignupRoles
        /\ m.project \in Projects \cup {None} /\ m.account \in Roles
    BY <1>2 DEF Code
  <2>2. /\ k \in Code /\ k.state = "live" /\ k.email = e /\ k.purpose = m.purpose
        /\ k.role = m.role /\ k.account = m.account
    BY <2>1, NewCodeType
  <2> HIDE DEF k
  <2> QED BY <1>2, <2>2 DEF Legit
<1>4. Issue(c, k, FALSE)
  BY <1>1
<1> HIDE DEF k
<1> QED
  BY <1>3, <1>4, IssueChange

LEMMA MailChange ==
  ASSUME TypeOK, NEW c \in Clients, Mail(c)
  PROVE  AccChange /\ CodeChange /\ ReqChange
<1>1. acc' = acc /\ Goto(c, Idle)
  BY DEF Mail
<1>2. req[c].code \in DOMAIN codes
  BY DEF Mail, TypeOK
<1>3. CodeChange
  <2>1. CASE codes' = codes
    BY <2>1 DEF CodeChange
  <2>2. CASE codes' = [Changed(Withdrawn(req[c].code), "withdrawn")
                         EXCEPT ![req[c].code].unsent = TRUE]
    BY <1>2, <2>2, TypeFacts, WithdrawnEffect DEF CodeChange
  <2> QED BY <2>1, <2>2 DEF Mail
<1> QED
  BY <1>1, <1>3, IdleType DEF AccChange, ReqChange

\* Wrong codes and time.
LEMMA AttemptsChange ==
  ASSUME TypeOK, NEW i \in DOMAIN codes, WrongCode(i) \/ Expire(i)
  PROVE  AccChange /\ CodeChange /\ ReqChange
<1>1. codes[i].attempts \in 0..MaxAttempts /\ MaxAttempts \in Nat
  <2>1. codes[i] \in Code
    BY TypeFacts, CodeAt
  <2> QED BY <2>1, AccountsAssumption DEF Code
<1>2. \E n \in 0..MaxAttempts : codes' = [codes EXCEPT ![i].attempts = n]
  BY <1>1 DEF WrongCode, Expire, Enterable
<1>3. Changes({}, "used")
  BY <1>2, TypeFacts, AttemptsEffect
<1>4. acc' = acc /\ req' = req
  BY DEF WrongCode, Expire
<1> QED
  BY <1>3, <1>4 DEF AccChange, CodeChange, ReqChange

-----------------------------------------------------------------------------
(* The steps that change an account.                                        *)

LEMMA CodeIndex ==
  ASSUME TypeOK, NEW i \in DOMAIN codes
  PROVE  i \in 1..MaxCodes /\ i > 0 /\ codes[i] \in Code
<1>1. Len(codes) \in Nat /\ Len(codes) <= MaxCodes /\ i \in 1..Len(codes) /\ codes[i] \in Code
  BY TypeFacts, CodeAt DEF CodesType
<1> QED
  BY <1>1, AccountsAssumption

\* An account made by a code has the password of that code, if it was issued
\* for a signup, and none if it was not.
LEMMA VerifyChange ==
  ASSUME AccInv, NEW e \in Emails, NEW i \in VerifyRecord(e), Verify(i)
  PROVE  AccChange /\ CodeChange /\ ReqChange
<1> DEFINE k == codes[i]
           owner == k.purpose = "signup" /\ k.role = "project_owner"
           r == IF owner THEN "project_owner" ELSE "user"
           st == IF owner THEN "pending" ELSE "active"
           pw == IF k.purpose = "signup" THEN i ELSE NoPassword
           pr == IF owner THEN k.project ELSE None
           a == [state |-> st, pw |-> pw, project |-> pr, origin |-> "code"]
<1>1. i \in DOMAIN codes /\ i \in 1..MaxCodes /\ i > 0 /\ k \in Code /\ k.email = e
  BY RecordsExist, CodeIndex DEF AccInv
<1>2. SetAccount(e, r, a) /\ acc[e][r].state = "none"
  BY <1>1 DEF Verify
<1>3. codes' = [codes EXCEPT ![i].state = "used"] /\ req' = req
  BY DEF Verify
<1>4. /\ r \in Roles /\ r # "admin"
      /\ pw \in NoPassword..MaxCodes /\ pr \in Projects \cup {None}
      /\ st \in {"pending", "active"}
  BY <1>1, AccountsAssumption DEF Roles, NoPassword, Code
<1>5. pw > 0 => IssuedFor(pw, e, r)
  <2> SUFFICES ASSUME pw > 0 PROVE IssuedFor(pw, e, r)
    OBVIOUS
  <2>1. k.purpose = "signup" /\ pw = i
    BY DEF NoPassword
  <2>2. k.account = k.role /\ k.role \in SignupRoles
    BY <1>1, <2>1 DEF AccInv, CodesLegit, Legit, Code
  <2>3. r = k.role
    BY <2>1, <2>2 DEF SignupRoles
  <2> QED BY <1>1, <2>1, <2>2, <2>3 DEF IssuedFor
<1>6. a \in Account
  <2> HIDE DEF st, pw, pr
  <2> QED BY <1>4 DEF Account
<1>7. a.pw = pw /\ a.origin = "code"
  OBVIOUS
<1> HIDE DEF a, r, pw
<1>8. Allowed(e, r, a)
  BY <1>2, <1>4, <1>5, <1>7 DEF Allowed, Active
<1>9. CodeChange
  BY <1>1, <1>3, UsedEffect, TypeFacts DEF CodeChange, AccInv
<1> QED
  BY <1>2, <1>3, <1>4, <1>6, <1>8, <1>9 DEF AccChange, ReqChange

\* A reset sets the password of the account it was issued for, or that of the
\* user who has come to have one.
LEMMA ConfirmChange ==
  ASSUME AccInv, NEW e \in Emails, NEW q \in SignupRoles, NEW i \in ResetRecord(e, q),
         ConfirmPasswordReset(i)
  PROVE  AccChange /\ CodeChange /\ ReqChange
<1>1. /\ i \in DOMAIN codes /\ i \in 1..MaxCodes /\ i > 0 /\ codes[i] \in Code
      /\ codes[i].email = e /\ codes[i].role = q /\ codes[i].purpose = "reset"
  <2>1. /\ i \in DOMAIN codes /\ codes[i].email = e /\ codes[i].role = q
        /\ codes[i].purpose = "reset"
    BY DEF ResetRecord, LiveOf, LiveFor
  <2> QED BY <2>1, CodeIndex DEF AccInv
<1>2. PICK r \in ResetAccount(e, q) : SetAccount(e, r, [acc[e][r] EXCEPT !.pw = i])
  BY <1>1 DEF ConfirmPasswordReset
<1> DEFINE m == acc[e][r]
           a == [m EXCEPT !.pw = i]
<1>3. Legit(codes[i])
  BY <1>1 DEF AccInv, CodesLegit
<1>4. /\ r \in Roles /\ Active(e, r)
      /\ \/ r = q
         \/ q = "user" /\ r = "admin" /\ ~Active(e, "user")
  <2>1. CASE Active(e, q)
    BY <2>1 DEF ResetAccount, Roles, SignupRoles
  <2>2. CASE ~Active(e, q)
    <3>1. q = "user" /\ Active(e, "admin") /\ r = "admin"
      BY <2>2 DEF ResetAccount
    <3> QED BY <2>2, <3>1 DEF Roles
  <2> QED BY <2>1, <2>2
<1>5. IssuedFor(i, e, r)
  BY <1>1, <1>3, <1>4 DEF IssuedFor, Legit
<1>6. m \in Account /\ a \in Account
  <2>1. m \in Account
    BY <1>4, TypeFacts DEF AccInv
  <2> HIDE DEF m
  <2> QED BY <1>1, <2>1, AccountTypes
<1>7. m.origin # "oauth"
  <2> SUFFICES ASSUME m.origin = "oauth" PROVE FALSE
    OBVIOUS
  <2>1. r = "user" /\ m.pw = NoPassword /\ acc[e]["admin"].state = "none"
    BY <1>4 DEF AccInv, OAuthInv
  <2>2. codes[i].account \in {"user", "admin"}
    BY <1>1, <1>3, <1>4, <2>1 DEF Legit
  <2> QED BY <1>1, <1>3, <2>1, <2>2 DEF Legit, Active
<1>8. a.pw = i /\ a.origin = m.origin /\ a.state = m.state
  BY <1>6 DEF Account
<1>9. i # NoPassword /\ m.state = "active"
  BY <1>1, <1>4 DEF NoPassword, Active
<1> HIDE DEF a, m
<1>10. Allowed(e, r, a)
  BY <1>5, <1>7, <1>8, <1>9 DEF Allowed, m
<1>11. SetAccount(e, r, a)
  BY <1>2 DEF a, m
<1>12. CodeChange /\ req' = req
  BY <1>1, UsedEffect, TypeFacts DEF CodeChange, AccInv, ConfirmPasswordReset
<1> QED
  BY <1>4, <1>6, <1>10, <1>11, <1>12 DEF AccChange, ReqChange

LEMMA AccountStepChange ==
  ASSUME AccInv, NEW e \in Emails, NEW r \in Roles, AccountStep(e, r)
  PROVE  AccChange /\ CodeChange /\ ReqChange
<1> DEFINE m == acc[e][r]
<1>1. codes' = codes /\ req' = req
  BY DEF AccountStep, ChangePassword, Approve, Reject
<1>2. /\ m \in Account
      /\ m.origin = "oauth" => r = "user" /\ m.pw = NoPassword
                                 /\ acc[e]["admin"].state = "none"
      /\ m.pw > 0 => IssuedFor(m.pw, e, r)
  BY TypeFacts DEF AccInv, OAuthInv, PasswordInv
<1>3. ASSUME ChangePassword(e, r) PROVE AccChange
  <2> DEFINE a == [m EXCEPT !.pw = OwnPassword]
  <2>1. SetAccount(e, r, a) /\ m.state = "active" /\ m.pw # NoPassword
    BY <1>3 DEF ChangePassword, Active
  <2> HIDE DEF m
  <2>2. a \in Account /\ a.pw = OwnPassword /\ a.origin = m.origin /\ a.state = m.state
    BY <1>2, AccountTypes DEF Account
  <2> HIDE DEF a
  <2>3. Allowed(e, r, a)
    BY <1>2, <2>1, <2>2 DEF Allowed, Active, OwnPassword, NoPassword, m
  <2> QED BY <2>1, <2>2, <2>3 DEF AccChange
<1>4. ASSUME Approve(e, r) PROVE AccChange
  <2> DEFINE a == [m EXCEPT !.state = "active"]
  <2>1. SetAccount(e, r, a) /\ m.state = "pending"
    BY <1>4 DEF Approve
  <2> HIDE DEF m
  <2>2. a \in Account /\ a.pw = m.pw /\ a.origin = m.origin
    BY <1>2, AccountTypes DEF Account
  <2> HIDE DEF a
  <2>3. Allowed(e, r, a)
    BY <1>2, <2>1, <2>2 DEF Allowed, Active, m
  <2> QED BY <2>1, <2>2, <2>3 DEF AccChange
<1>5. ASSUME Reject(e, r) PROVE AccChange
  <2>1. SetAccount(e, r, NoAccount) /\ m.state = "pending"
    BY <1>5 DEF Reject
  <2>2. NoAccount \in Account /\ NoAccount.pw = NoPassword /\ NoAccount.origin = "none"
        /\ NoAccount.state = "none"
    BY AccountTypes DEF NoAccount
  <2>3. Allowed(e, r, NoAccount)
    BY <2>1, <2>2 DEF Allowed, Active, NoPassword
  <2> QED BY <2>1, <2>2, <2>3 DEF AccChange
<1> QED
  BY <1>1, <1>3, <1>4, <1>5 DEF AccountStep, CodeChange, ReqChange

\* A login with DataGSM makes a user account only where no account but an
\* owner's is.
LEMMA NewUserChange ==
  ASSUME AccInv, NEW k, NEW e \in Emails, calls[k].role \in Roles, CallbackNewUser(k, e)
  PROVE  AccChange /\ CodeChange /\ ReqChange
<1> DEFINE r == calls[k].role
           a == [state |-> "active", pw |-> NoPassword, project |-> None,
                 origin |-> "oauth"]
<1>1. SetAccount(e, r, a) /\ codes' = codes /\ req' = req
      /\ Match(e, r) = {} /\ ~Refused(e, r)
  BY DEF CallbackNewUser
<1>2. r = "user" /\ acc[e]["admin"].state = "none"
  BY <1>1 DEF Refused
<1>3. acc[e][r].state = "none"
  BY <1>1 DEF Match
<1>4. a \in Account
  BY AccountsAssumption DEF Account, NoPassword
<1>5. Allowed(e, r, a)
  BY <1>2, <1>3 DEF Allowed, Active, NoPassword
<1> HIDE DEF a
<1> QED
  BY <1>1, <1>2, <1>4, <1>5 DEF AccChange, CodeChange, ReqChange, Roles

-----------------------------------------------------------------------------
(* Every step is one of these changes, and they keep the invariants.        *)

LEMMA AccNextChange ==
  ASSUME AccInv, AccNext
  PROVE  AccChange /\ CodeChange /\ ReqChange
<1>1. TypeOK /\ CodesLegit
  BY DEF AccInv
<1>2. ASSUME NEW e \in Emails, CodeStep(e)
      PROVE  AccChange /\ CodeChange /\ ReqChange
  <2>1. ASSUME NEW c \in Clients,
               Signup(c, e) \/ ResendCode(c, e) \/ \E p \in Projects : SignupProject(c, e, p)
        PROVE  AccChange /\ CodeChange /\ ReqChange
    BY <1>1, <2>1, SignupChange, ResendChange
  <2>2. ASSUME NEW c \in Clients, NEW r \in SignupRoles, RequestPasswordReset(c, e, r)
        PROVE  AccChange /\ CodeChange /\ ReqChange
    BY <1>1, <2>2, ResetRequestChange
  <2>3. ASSUME NEW i \in VerifyRecord(e), Verify(i) \/ WrongCode(i)
        PROVE  AccChange /\ CodeChange /\ ReqChange
    BY <1>1, <2>3, VerifyChange, AttemptsChange, RecordsExist
  <2>4. ASSUME NEW r \in SignupRoles, NEW i \in ResetRecord(e, r),
               ConfirmPasswordReset(i) \/ WrongCode(i)
        PROVE  AccChange /\ CodeChange /\ ReqChange
    BY <1>1, <2>4, ConfirmChange, AttemptsChange, RecordsExist
  <2> QED
    BY <1>2, <2>1, <2>2, <2>3, <2>4 DEF CodeStep
<1>3. ASSUME NEW e \in Emails, NEW r \in Roles, AccountStep(e, r)
      PROVE  AccChange /\ CodeChange /\ ReqChange
  BY <1>3, AccountStepChange
<1>4. ASSUME NEW c \in Clients, SignupIssue(c) \/ Mail(c)
      PROVE  AccChange /\ CodeChange /\ ReqChange
  BY <1>1, <1>4, SignupIssueChange, MailChange
<1>5. ASSUME NEW i \in DOMAIN codes, Expire(i)
      PROVE  AccChange /\ CodeChange /\ ReqChange
  BY <1>1, <1>5, AttemptsChange
<1> QED
  BY <1>2, <1>3, <1>4, <1>5 DEF AccNext

CallsType == calls \in [Callbacks -> Call]

LEMMA NextChange ==
  ASSUME AccInv, CallsType, [Next]_vars
  PROVE  AccChange /\ CodeChange /\ ReqChange
<1>1. CASE UNCHANGED accVars
  BY <1>1 DEF accVars, AccChange, CodeChange, ReqChange
<1>2. CASE AccNext
  BY <1>2, AccNextChange
<1>3. ASSUME NEW k \in Callbacks, NEW e \in Emails, CallbackNewUser(k, e)
      PROVE  AccChange /\ CodeChange /\ ReqChange
  <2>1. calls[k] \in Call /\ calls[k].pc = "awaiting"
    BY <1>3 DEF CallsType, CallbackNewUser
  <2>2. calls[k].role \in Roles
    BY <2>1 DEF Call
  <2> QED
    BY <1>3, <2>2, NewUserChange
<1>4. CASE OAuthNext
  BY <1>1, <1>3, <1>4 DEF OAuthNext, Authorize, CallbackBegin, CallbackMatched,
     CallbackFailed, Exchange, ExpireToken, ExpireEntry, CleanupStores
<1> QED
  BY <1>1, <1>2, <1>4 DEF Next, vars

\* Codes keep what they were issued for; one that is new was issued for an
\* account as it is now.
LEMMA CodesGrow ==
  ASSUME CodesType, CodeChange
  PROVE  /\ CodesType' /\ Len(codes) \in Nat /\ Len(codes') \in Nat
         /\ Len(codes) <= Len(codes')
         /\ \A i \in 1..Len(codes) : Same(codes'[i], codes[i])
         /\ \A i \in (1..Len(codes')) \ (1..Len(codes)) :
              acc' = acc /\ Legit(codes'[i])
<1>1. Len(codes) \in Nat /\ Len(codes) <= MaxCodes
  BY CodeAt DEF CodesType
<1>2. CASE codes' = codes
  BY <1>1, <1>2 DEF CodesType, Same
<1>3. CASE \E new \in Code : /\ Issued(new) /\ new.state = "live"
                             /\ acc' = acc /\ Legit(new)
  BY <1>1, <1>3 DEF CodesType, Issued
<1>4. CASE \E S : \E x \in {"used", "dropped", "withdrawn"} : Changes(S, x)
  <2>1. PICK S : \E x \in {"used", "dropped", "withdrawn"} : Changes(S, x)
    BY <1>4
  <2>2. /\ codes' \in Seq(Code) /\ Len(codes') = Len(codes)
        /\ \A i \in 1..Len(codes) : Same(codes'[i], codes[i])
    BY <2>1 DEF Changes
  <2> QED
    BY <1>1, <2>2 DEF CodesType
<1> QED
  BY <1>2, <1>3, <1>4 DEF CodeChange

LEMMA AccountsAllowed ==
  ASSUME TypeOK, AccChange
  PROVE  /\ acc' \in [Emails -> [Roles -> Account]]
         /\ \A e \in Emails, r \in Roles :
              acc'[e][r] = acc[e][r] \/ Allowed(e, r, acc'[e][r])
<1>1. acc \in [Emails -> [Roles -> Account]]
  BY DEF TypeOK
<1>2. CASE acc' = acc
  BY <1>1, <1>2
<1>3. ASSUME NEW e \in Emails, NEW r \in Roles, NEW a \in Account,
             SetAccount(e, r, a), Allowed(e, r, a)
      PROVE  /\ acc' \in [Emails -> [Roles -> Account]]
             /\ \A f \in Emails, q \in Roles :
                  acc'[f][q] = acc[f][q] \/ Allowed(f, q, acc'[f][q])
  <2>1. /\ acc' \in [Emails -> [Roles -> Account]] /\ acc'[e][r] = a
        /\ \A f \in Emails, q \in Roles : f # e \/ q # r => acc'[f][q] = acc[f][q]
    BY <1>1, <1>3, SetAccountEffect
  <2> QED
    BY <1>3, <2>1
<1> QED
  BY <1>2, <1>3 DEF AccChange

LEMMA AccPreserved ==
  ASSUME AccInv, AccChange, CodeChange, ReqChange
  PROVE  AccInv'
<1>1. CodesType /\ TypeOK
  BY TypeFacts DEF AccInv
<1>2. /\ CodesType' /\ Len(codes) \in Nat /\ Len(codes') \in Nat
      /\ Len(codes) <= Len(codes')
      /\ \A i \in 1..Len(codes) : Same(codes'[i], codes[i])
      /\ \A i \in (1..Len(codes')) \ (1..Len(codes)) : acc' = acc /\ Legit(codes'[i])
  BY <1>1, CodesGrow
<1>3. /\ acc' \in [Emails -> [Roles -> Account]]
      /\ \A e \in Emails, r \in Roles :
           acc'[e][r] = acc[e][r] \/ Allowed(e, r, acc'[e][r])
  BY <1>1, AccountsAllowed
<1>4. DOMAIN codes = 1..Len(codes) /\ \A i \in DOMAIN codes : codes[i] \in Code
  BY <1>1, CodeAt
<1>5. DOMAIN codes' = 1..Len(codes')
  BY <1>2, LenProperties DEF CodesType
<1>6. DOMAIN codes \subseteq DOMAIN codes'
  BY <1>2, <1>4, <1>5
<1>7. TypeOK'
  <2>1. req \in [Clients -> Request]
        /\ \A c \in Clients : req[c].pc = "mail" => req[c].code \in DOMAIN codes
    BY DEF AccInv, TypeOK
  <2>2. req' \in [Clients -> Request]
        /\ \A c \in Clients : req'[c].pc = "mail" => req'[c].code \in DOMAIN codes'
    BY <1>5, <1>6, <2>1 DEF ReqChange, Goto
  <2> QED
    BY <1>2, <1>3, <2>2 DEF TypeOK, CodesType
<1>8. CodesLegit'
  <2> SUFFICES ASSUME NEW i \in DOMAIN codes' PROVE Legit(codes[i])'
    BY DEF CodesLegit
  <2>1. CASE i \notin 1..Len(codes)
    BY <1>2, <1>5, <2>1 DEF Legit, Active
  <2>2. CASE i \in 1..Len(codes)
    <3> DEFINE k == codes[i]
    <3>1. k \in Code /\ Legit(k) /\ Same(codes'[i], k)
      BY <1>2, <1>4, <2>2 DEF AccInv, CodesLegit
    <3>2. k.email \in Emails /\ k.account \in Roles
      <4> HIDE DEF k
      <4> QED BY <3>1 DEF Code
    <3>3. acc'[k.email][k.account] = acc[k.email][k.account]
            \/ Allowed(k.email, k.account, acc'[k.email][k.account])
      BY <1>3, <3>2
    <3> HIDE DEF k
    <3> QED BY <3>1, <3>3 DEF Legit, Active, Allowed, Same
  <2> QED BY <2>1, <2>2
<1>9. OAuthInv'
  <2> SUFFICES ASSUME NEW e \in Emails, NEW r \in Roles, acc'[e][r].origin = "oauth"
               PROVE  r = "user" /\ acc'[e][r].pw = NoPassword
                      /\ acc'[e]["admin"].state = "none"
    BY DEF OAuthInv
  <2>1. r = "user" /\ acc'[e][r].pw = NoPassword /\ acc[e]["admin"].state = "none"
    BY <1>3 DEF AccInv, OAuthInv, Allowed
  <2>2. "admin" \in Roles
    BY DEF Roles
  <2>3. acc'[e]["admin"].state = "none"
    BY <1>3, <2>1, <2>2 DEF Allowed
  <2> QED BY <2>1, <2>3
<1>10. PasswordInv'
  <2> SUFFICES ASSUME NEW e \in Emails, NEW r \in Roles, acc'[e][r].pw > 0
               PROVE  IssuedFor(acc[e][r].pw, e, r)'
    BY DEF PasswordInv
  <2>1. IssuedFor(acc'[e][r].pw, e, r)
    BY <1>3 DEF AccInv, PasswordInv, Allowed
  <2> QED BY <1>2, <1>4, <1>6, <2>1 DEF IssuedFor, Same
<1> QED
  BY <1>7, <1>8, <1>9, <1>10 DEF AccInv

-----------------------------------------------------------------------------
(* What becomes of one code.                                                *)

OneLive ==
  \A e \in Emails, p \in Purposes, r \in SignupRoles :
    \A i, j \in LiveOf(e, p, r) : i = j

LEMMA OneLiveKept ==
  ASSUME CodesType, OneLive, CodeChange
  PROVE  OneLive'
<1>1. Len(codes) \in Nat /\ DOMAIN codes = 1..Len(codes)
  BY CodeAt
<1>2. CodesType'
  BY CodesGrow
<1>3. DOMAIN codes' = 1..Len(codes')
  BY <1>2, LenProperties DEF CodesType
<1>4. CASE codes' = codes
  BY <1>4 DEF OneLive, LiveOf, LiveFor
<1>5. ASSUME NEW new \in Code, Issued(new)
      PROVE  OneLive'
  <2> SUFFICES ASSUME NEW e \in Emails, NEW p \in Purposes, NEW r \in SignupRoles,
                      NEW i \in LiveOf(e, p, r)', NEW j \in LiveOf(e, p, r)'
               PROVE  i = j
    BY DEF OneLive
  <2> DEFINE here == new.email = e /\ new.purpose = p /\ new.role = r
  <2>1. ASSUME NEW m \in LiveOf(e, p, r)'
        PROVE  \/ m = Len(codes) + 1 /\ here
               \/ m \in LiveOf(e, p, r) /\ ~here
    <3>1. /\ m \in 1..Len(codes) + 1 /\ codes'[m].email = e /\ codes'[m].state = "live"
          /\ codes'[m].purpose = p /\ codes'[m].role = r
      BY <1>3, <2>1, <1>5 DEF LiveOf, LiveFor, Issued
    <3>2. CASE m = Len(codes) + 1
      BY <1>5, <3>1, <3>2 DEF Issued
    <3>3. CASE m \in 1..Len(codes)
      <4>1. /\ Same(codes'[m], codes[m])
            /\ codes'[m].state = IF m \in LiveOf(new.email, new.purpose, new.role)
                                 THEN "replaced" ELSE codes[m].state
        BY <1>5, <3>3 DEF Issued
      <4>2. m \in LiveOf(e, p, r) /\ m \notin LiveOf(new.email, new.purpose, new.role)
        BY <1>1, <3>1, <3>3, <4>1 DEF LiveOf, LiveFor, Same
      <4> QED BY <4>2
    <3> QED BY <1>1, <3>1, <3>2, <3>3
  <2>2. CASE here
    BY <2>1, <2>2
  <2>3. CASE ~here
    BY <2>1, <2>3 DEF OneLive
  <2> QED BY <2>2, <2>3
<1>6. ASSUME NEW S, NEW x \in {"used", "dropped", "withdrawn"}, Changes(S, x)
      PROVE  OneLive'
  <2> SUFFICES ASSUME NEW e \in Emails, NEW p \in Purposes, NEW r \in SignupRoles
               PROVE  LiveOf(e, p, r)' \subseteq LiveOf(e, p, r)
    BY DEF OneLive
  <2>1. ASSUME NEW m \in LiveOf(e, p, r)' PROVE m \in LiveOf(e, p, r)
    <3>1. m \in 1..Len(codes) /\ m \in DOMAIN codes'
      BY <1>3, <1>6, <2>1 DEF LiveOf, LiveFor, Changes
    <3>2. /\ Same(codes'[m], codes[m])
          /\ codes'[m].state = IF m \in S THEN x ELSE codes[m].state
      BY <1>6, <3>1 DEF Changes
    <3> QED BY <1>1, <2>1, <3>1, <3>2 DEF LiveOf, LiveFor, Same
  <2> QED BY <2>1
<1> QED
  BY <1>4, <1>5, <1>6 DEF CodeChange

\* MailedCodeLasts for one code.
Newer(i) ==
  \E j \in DOMAIN codes :
    /\ j > i /\ codes[j].email = codes[i].email
    /\ codes[j].purpose = codes[i].purpose /\ codes[j].role = codes[i].role

Lasts(i) ==
  \/ codes[i].state \in {"live", "used", "dropped"}
  \/ codes[i].state = "withdrawn" /\ codes[i].unsent
  \/ Newer(i)

LEMMA LastsKept ==
  ASSUME CodesType, MailedCodeLasts, CodeChange
  PROVE  MailedCodeLasts'
<1>1. Len(codes) \in Nat /\ DOMAIN codes = 1..Len(codes)
  BY CodeAt
<1>2. /\ CodesType' /\ Len(codes') \in Nat /\ Len(codes) <= Len(codes')
      /\ \A i \in 1..Len(codes) : Same(codes'[i], codes[i])
  BY CodesGrow
<1>3. DOMAIN codes' = 1..Len(codes')
  BY <1>2, LenProperties DEF CodesType
<1>4. \A i \in DOMAIN codes : Lasts(i)
  BY DEF MailedCodeLasts, Lasts, Newer
<1>5. ASSUME NEW i \in DOMAIN codes, Newer(i) PROVE Newer(i)'
  BY <1>1, <1>2, <1>3, <1>5 DEF Newer, Same
<1>6. CASE codes' = codes
  BY <1>6 DEF MailedCodeLasts
<1>7. ASSUME NEW new \in Code, Issued(new), new.state = "live", NEW i \in DOMAIN codes'
      PROVE  Lasts(i)'
  <2>1. CASE i = Len(codes) + 1
    BY <1>7, <2>1 DEF Issued, Lasts
  <2>2. CASE i \in 1..Len(codes)
    <3>1. /\ Same(codes'[i], codes[i]) /\ codes'[i].unsent = codes[i].unsent
          /\ codes'[i].state = IF i \in LiveOf(new.email, new.purpose, new.role)
                               THEN "replaced" ELSE codes[i].state
      BY <1>7, <2>2 DEF Issued
    <3>2. CASE i \in LiveOf(new.email, new.purpose, new.role)
      <4>1. /\ codes[i].email = new.email /\ codes[i].purpose = new.purpose
            /\ codes[i].role = new.role
        BY <3>2 DEF LiveOf, LiveFor
      <4>2. /\ Len(codes) + 1 \in DOMAIN codes' /\ Len(codes) + 1 > i
            /\ codes'[Len(codes) + 1] = new
        BY <1>1, <1>3, <1>7, <2>2 DEF Issued
      <4> QED BY <3>1, <4>1, <4>2 DEF Lasts, Newer, Same
    <3>3. CASE i \notin LiveOf(new.email, new.purpose, new.role)
      BY <1>1, <1>4, <1>5, <2>2, <3>1, <3>3 DEF Lasts
    <3> QED BY <3>2, <3>3
  <2> QED BY <1>1, <1>3, <1>7, <2>1, <2>2 DEF Issued
<1>8. ASSUME NEW S, NEW x \in {"used", "dropped", "withdrawn"}, Changes(S, x),
             NEW i \in DOMAIN codes'
      PROVE  Lasts(i)'
  <2>1. i \in 1..Len(codes)
    BY <1>3, <1>8 DEF Changes
  <2>2. /\ codes[i].unsent => codes'[i].unsent
        /\ codes'[i].state = IF i \in S THEN x ELSE codes[i].state
        /\ codes'[i].unsent \/ x # "withdrawn" \/ i \notin S
    BY <1>8, <2>1 DEF Changes
  <2>3. Lasts(i)
    BY <1>1, <1>4, <2>1
  <2> QED BY <1>1, <1>5, <2>1, <2>2, <2>3 DEF Lasts
<1> QED
  BY <1>6, <1>7, <1>8 DEF CodeChange, MailedCodeLasts, Lasts, Newer

-----------------------------------------------------------------------------
(* The stores of the login.                                                 *)

StoresInv ==
  /\ pkce \subseteq Entry /\ IsFiniteSet(pkce) /\ Cardinality(pkce) <= StoreLimit + 1
  /\ tokens \subseteq Token
  /\ CallsType
  /\ sessions \in [Logins -> Nat]
  /\ started \subseteq Logins

LEMMA FreshStore ==
  ASSUME StoresInv
  PROVE  /\ Fresh(pkce) \subseteq Entry /\ IsFiniteSet(Fresh(pkce))
         /\ Cardinality(Fresh(pkce)) <= StoreLimit + 1
<1>1. Fresh(pkce) \subseteq pkce
  BY DEF Fresh
<1>2. /\ IsFiniteSet(Fresh(pkce)) /\ Cardinality(Fresh(pkce)) <= Cardinality(pkce)
      /\ Cardinality(Fresh(pkce)) \in Nat /\ Cardinality(pkce) \in Nat
  BY <1>1, FS_Subset, FS_CardinalityType DEF StoresInv
<1> QED
  BY <1>1, <1>2, OAuthAssumption DEF StoresInv

\* A store one larger.
LEMMA OneMore ==
  ASSUME NEW S, IsFiniteSet(S), NEW x
  PROVE  /\ IsFiniteSet(S \cup {x}) /\ Cardinality(S) \in Nat
         /\ Cardinality(S \cup {x}) <= Cardinality(S) + 1
<1>1. IsFiniteSet(S \cup {x}) /\ (Cardinality(S \cup {x}) = Cardinality(S)
                                  \/ Cardinality(S \cup {x}) = Cardinality(S) + 1)
  BY FS_AddElement
<1>2. Cardinality(S) \in Nat
  BY FS_CardinalityType
<1> QED
  BY <1>1, <1>2

LEMMA PkceKept ==
  ASSUME StoresInv, OAuthNext
  PROVE  pkce' \subseteq Entry /\ IsFiniteSet(pkce') /\ Cardinality(pkce') <= StoreLimit + 1
<1>1. ASSUME NEW l \in Logins, NEW r \in Roles, Authorize(l, r)
      PROVE  pkce' \subseteq Entry /\ IsFiniteSet(pkce') /\ Cardinality(pkce') <= StoreLimit + 1
  <2>1. CASE HasSpace(Fresh(pkce))
    <3> DEFINE F == Fresh(pkce)
               x == [login |-> l, role |-> r, expired |-> FALSE]
    <3>1. pkce' = F \cup {x}
      BY <1>1, <2>1 DEF Authorize
    <3>2. x \in Entry
      BY DEF Entry
    <3>3. F \subseteq Entry /\ IsFiniteSet(F) /\ Cardinality(F) <= StoreLimit
      BY <2>1, FreshStore DEF HasSpace
    <3> HIDE DEF F, x
    <3>4. /\ IsFiniteSet(F \cup {x}) /\ Cardinality(F) \in Nat
          /\ Cardinality(F \cup {x}) <= Cardinality(F) + 1
      BY <3>3, OneMore
    <3>5. Cardinality(F \cup {x}) \in Nat
      BY <3>4, FS_CardinalityType
    <3>6. Cardinality(F \cup {x}) <= StoreLimit + 1
      BY <3>3, <3>4, <3>5, OAuthAssumption
    <3> QED BY <3>1, <3>2, <3>3, <3>4, <3>6
  <2>2. CASE ~HasSpace(Fresh(pkce))
    BY <1>1, <2>2, FreshStore DEF Authorize
  <2> QED BY <2>1, <2>2
<1>2. ASSUME NEW x \in pkce, pkce' = pkce \ {x}
      PROVE  pkce' \subseteq Entry /\ IsFiniteSet(pkce') /\ Cardinality(pkce') <= StoreLimit + 1
  <2>1. pkce' \subseteq pkce
    BY <1>2
  <2>2. /\ IsFiniteSet(pkce') /\ Cardinality(pkce') <= Cardinality(pkce)
        /\ Cardinality(pkce') \in Nat /\ Cardinality(pkce) \in Nat
    BY <2>1, FS_Subset, FS_CardinalityType DEF StoresInv
  <2> QED BY <2>1, <2>2, OAuthAssumption DEF StoresInv
<1>3. ASSUME NEW x \in pkce, ExpireEntry(x)
      PROVE  pkce' \subseteq Entry /\ IsFiniteSet(pkce') /\ Cardinality(pkce') <= StoreLimit + 1
  <2> DEFINE R == pkce \ {x}  y == [x EXCEPT !.expired = TRUE]
  <2>1. pkce' = R \cup {y}
    BY <1>3 DEF ExpireEntry
  <2>2. x \in Entry /\ y \in Entry /\ R \subseteq Entry
    BY DEF StoresInv, Entry
  <2>3. /\ IsFiniteSet(R) /\ Cardinality(R) = Cardinality(pkce) - 1
        /\ Cardinality(pkce) \in Nat
    BY FS_RemoveElement, FS_CardinalityType DEF StoresInv
  <2> HIDE DEF R, y
  <2>4. /\ IsFiniteSet(R \cup {y}) /\ Cardinality(R) \in Nat
        /\ Cardinality(R \cup {y}) <= Cardinality(R) + 1
    BY <2>3, OneMore
  <2>5. Cardinality(R \cup {y}) \in Nat
    BY <2>4, FS_CardinalityType
  <2>6. Cardinality(R \cup {y}) <= StoreLimit + 1
    BY <2>3, <2>4, <2>5, OAuthAssumption DEF StoresInv
  <2> QED BY <2>1, <2>2, <2>4, <2>6
<1>4. CASE CleanupStores
  BY <1>4, FreshStore DEF CleanupStores
<1>5. CASE UNCHANGED pkce
  BY <1>5 DEF StoresInv
<1> QED
  BY <1>1, <1>2, <1>3, <1>4, <1>5 DEF OAuthNext, CallbackBegin, Popped, CallbackMatched,
     CallbackNewUser, CallbackFailed, Exchange, ExpireToken

LEMMA StoresKept ==
  ASSUME TypeOK, StoresInv, [Next]_vars
  PROVE  StoresInv'
<1>1. CASE UNCHANGED oauth
  BY <1>1 DEF oauth, StoresInv, CallsType
<1>2. CASE OAuthNext
  <2>1. pkce' \subseteq Entry /\ IsFiniteSet(pkce') /\ Cardinality(pkce') <= StoreLimit + 1
    BY <1>2, PkceKept
  <2>2. started' \subseteq Logins
    BY <1>2 DEF StoresInv, OAuthNext, Authorize, CallbackBegin, CallbackMatched,
       CallbackNewUser, CallbackFailed, Exchange, ExpireToken, ExpireEntry, CleanupStores
  <2>3. sessions' \in [Logins -> Nat]
    <3>1. ASSUME NEW x \in tokens, Exchange(x) PROVE sessions' \in [Logins -> Nat]
      <4>1. x.login \in Logins
        BY DEF StoresInv, Token
      <4>2. sessions[x.login] + 1 \in Nat
        BY <4>1 DEF StoresInv
      <4> QED BY <3>1, <4>1, <4>2 DEF Exchange, StoresInv
    <3> QED
      BY <1>2, <3>1 DEF StoresInv, OAuthNext, Authorize, CallbackBegin, CallbackMatched,
         CallbackNewUser, CallbackFailed, ExpireToken, ExpireEntry, CleanupStores
  <2>4. CallsType'
    <3>1. ASSUME NEW k \in Callbacks, NEW x \in pkce, CallbackBegin(k, x) PROVE CallsType'
      <4>1. x \in Entry /\ x.login \in Logins /\ x.role \in Roles
        BY DEF StoresInv, Entry
      <4>2. NoCall \in Call /\ [pc |-> "awaiting", login |-> x.login, role |-> x.role] \in Call
        BY <4>1 DEF NoCall, Call
      <4> QED BY <3>1, <4>2 DEF CallbackBegin, CallsType, StoresInv
    <3>2. ASSUME NEW k \in Callbacks, calls' = [calls EXCEPT ![k] = NoCall] PROVE CallsType'
      BY <3>2 DEF CallsType, StoresInv, NoCall, Call
    <3>3. CASE UNCHANGED calls
      BY <3>3 DEF CallsType, StoresInv
    <3> QED
      BY <1>2, <3>1, <3>2, <3>3 DEF OAuthNext, Authorize, CallbackMatched,
         CallbackNewUser, CallbackFailed, Exchange, ExpireToken, ExpireEntry, CleanupStores
  <2>5. tokens' \subseteq Token
    <3>1. ASSUME NEW k \in Callbacks, NEW e \in Emails, NEW a \in Roles,
                 calls[k].pc = "awaiting", GiveToken(calls[k].login, e, a)
          PROVE  tokens' \subseteq Token
      <4>1. calls[k] \in Call
        BY DEF StoresInv, CallsType
      <4>2. calls[k].login \in Logins
        BY <3>1, <4>1 DEF Call
      <4> QED BY <3>1, <4>2 DEF GiveToken, StoresInv, Token
    <3>2. CASE tokens' \subseteq tokens
      BY <3>2 DEF StoresInv
    <3>3. ASSUME NEW k \in Callbacks, NEW e \in Emails, CallbackMatched(k, e)
          PROVE  tokens' \subseteq Token
      <4>1. calls[k].role \in Roles
        <5>1. calls[k] \in Call
          BY DEF StoresInv, CallsType
        <5> QED BY <3>3, <5>1 DEF CallbackMatched, Call
      <4>2. Match(e, calls[k].role) \subseteq Roles
        BY <4>1 DEF Match, Roles
      <4> QED BY <3>1, <3>2, <3>3, <4>2 DEF CallbackMatched
    <3>4. ASSUME NEW k \in Callbacks, NEW e \in Emails, CallbackNewUser(k, e)
          PROVE  tokens' \subseteq Token
      <4>1. calls[k].role \in Roles
        <5>1. calls[k] \in Call
          BY DEF StoresInv, CallsType
        <5> QED BY <3>4, <5>1 DEF CallbackNewUser, Call
      <4> QED BY <3>1, <3>4, <4>1 DEF CallbackNewUser
    <3> QED
      BY <1>2, <3>2, <3>3, <3>4 DEF OAuthNext, Authorize, CallbackBegin,
         CallbackFailed, Exchange, ExpireToken, ExpireEntry, CleanupStores
  <2> QED BY <2>1, <2>2, <2>3, <2>4, <2>5 DEF StoresInv
<1> QED
  BY <1>1, <1>2 DEF Next, vars, oauth

-----------------------------------------------------------------------------
(* A login is in one place: its entry, one call, one code or a session.     *)

Entries(l) == {x \in pkce : x.login = l}
Waiting(l) == {k \in Callbacks : calls[k].pc = "awaiting" /\ calls[k].login = l}
Codes(l) == {x \in tokens : x.login = l}

Single(S) == \A x, y \in S : x = y

InOnePlace(l) ==
  /\ Single(Entries(l)) /\ Single(Waiting(l)) /\ Single(Codes(l))
  /\ Entries(l) = {} \/ Waiting(l) = {}
  /\ Entries(l) = {} \/ Codes(l) = {}
  /\ Waiting(l) = {} \/ Codes(l) = {}
  /\ sessions[l] # 0 => sessions[l] = 1 /\ Entries(l) = {} /\ Waiting(l) = {} /\ Codes(l) = {}
  /\ l \notin started =>
       sessions[l] = 0 /\ Entries(l) = {} /\ Waiting(l) = {} /\ Codes(l) = {}

LoginInv == \A l \in Logins : InOnePlace(l)

\* Nothing comes to the login, and it has the same sessions.
Quiet(l) ==
  /\ Entries(l)' \subseteq Entries(l) /\ Waiting(l)' \subseteq Waiting(l)
  /\ Codes(l)' \subseteq Codes(l)
  /\ sessions'[l] = sessions[l] /\ (l \in started => l \in started')

LEMMA QuietKept ==
  ASSUME NEW l, InOnePlace(l), Quiet(l)
  PROVE  InOnePlace(l)'
BY DEF InOnePlace, Quiet, Single

\* The steps of the stores, for a login l.
LEMMA AuthorizeOnePlace ==
  ASSUME StoresInv, NEW l \in Logins, InOnePlace(l), NEW m \in Logins, NEW r \in Roles,
         Authorize(m, r)
  PROVE  InOnePlace(l)'
<1> DEFINE new == [login |-> m, role |-> r, expired |-> FALSE]
<1>1. CASE pkce' = Fresh(pkce) /\ UNCHANGED started
  BY <1>1, QuietKept DEF Authorize, Quiet, Entries, Waiting, Codes, Fresh
<1>2. CASE pkce' = Fresh(pkce) \cup {new} /\ started' = started \cup {m}
  <2>1. CASE l = m
    <3>1. /\ Entries(l) = {} /\ Waiting(l) = {} /\ Codes(l) = {} /\ sessions[l] = 0
          /\ m \notin started
      BY <2>1 DEF Authorize, InOnePlace
    <3>2. Entries(l)' \subseteq {new}
      BY <1>2, <3>1 DEF Entries, Fresh
    <3>3. Waiting(l)' = {} /\ Codes(l)' = {} /\ sessions'[l] = 0 /\ l \in started'
      BY <1>2, <2>1, <3>1 DEF Authorize, Waiting, Codes
    <3> QED BY <3>2, <3>3 DEF InOnePlace, Single
  <2>2. CASE l # m
    BY <1>2, <2>2, QuietKept DEF Authorize, Quiet, Entries, Waiting, Codes, Fresh
  <2> QED BY <2>1, <2>2
<1> QED
  BY <1>1, <1>2 DEF Authorize

LEMMA BeginOnePlace ==
  ASSUME StoresInv, NEW l \in Logins, InOnePlace(l), NEW k \in Callbacks, NEW x \in pkce,
         CallbackBegin(k, x)
  PROVE  InOnePlace(l)'
<1>1. /\ pkce' = pkce \ {x} /\ calls[k] = NoCall
      /\ calls' = [calls EXCEPT ![k] = IF x.expired THEN NoCall
                    ELSE [pc |-> "awaiting", login |-> x.login, role |-> x.role]]
      /\ tokens' = tokens /\ sessions' = sessions /\ started' = started
  BY DEF CallbackBegin, Popped
<1>2. calls \in [Callbacks -> Call]
  BY DEF StoresInv, CallsType
<1>3. CASE x.expired
  <2>1. calls' = calls
    BY <1>1, <1>2, <1>3
  <2> QED BY <1>1, <2>1, QuietKept DEF Quiet, Entries, Waiting, Codes
<1>4. CASE ~x.expired
  <2>1. /\ calls'[k].pc = "awaiting" /\ calls'[k].login = x.login
        /\ \A j \in Callbacks : j # k => calls'[j] = calls[j]
    BY <1>1, <1>2, <1>4
  <2>2. CASE x.login = l
    <3>1. x \in Entries(l)
      BY <2>2 DEF Entries
    <3>2. Waiting(l) = {} /\ Codes(l) = {} /\ sessions[l] = 0 /\ l \in started
      BY <3>1 DEF InOnePlace
    <3>3. Entries(l)' = {}
      BY <1>1, <3>1 DEF InOnePlace, Entries, Single
    <3>4. Waiting(l)' \subseteq {k}
      BY <2>1, <3>2 DEF Waiting
    <3>5. Codes(l)' = {} /\ sessions'[l] = 0 /\ l \in started'
      BY <1>1, <3>2 DEF Codes
    <3> QED BY <3>3, <3>4, <3>5 DEF InOnePlace, Single
  <2>3. CASE x.login # l
    <3>1. Waiting(l)' \subseteq Waiting(l)
      BY <2>1, <2>3 DEF Waiting
    <3> QED BY <1>1, <3>1, QuietKept DEF Quiet, Entries, Codes
  <2> QED BY <2>2, <2>3
<1> QED
  BY <1>3, <1>4

\* A call that ends, with or without a temporary code.
LEMMA CallEndOnePlace ==
  ASSUME StoresInv, NEW l \in Logins, InOnePlace(l), NEW k \in Callbacks,
         calls[k].pc = "awaiting", calls' = [calls EXCEPT ![k] = NoCall],
         tokens' = tokens \/ \E e, a : GiveToken(calls[k].login, e, a),
         UNCHANGED <<pkce, sessions, started>>
  PROVE  InOnePlace(l)'
<1>1. /\ calls'[k].pc = "none"
      /\ \A j \in Callbacks : j # k => calls'[j] = calls[j]
  BY DEF StoresInv, CallsType, NoCall
<1>2. Entries(l)' = Entries(l) /\ sessions'[l] = sessions[l] /\ started' = started
  BY DEF Entries
<1>3. CASE Codes(l)' \subseteq Codes(l)
  <2>1. Waiting(l)' \subseteq Waiting(l)
    BY <1>1 DEF Waiting
  <2> QED BY <1>2, <1>3, <2>1, QuietKept DEF Quiet
<1>4. CASE ~(Codes(l)' \subseteq Codes(l))
  <2>1. PICK e, a : tokens' = tokens \cup {[login |-> calls[k].login, email |-> e, role |-> a]}
    BY <1>4 DEF Codes, GiveToken
  <2> DEFINE t == [login |-> calls[k].login, email |-> e, role |-> a]
  <2>2. calls[k].login = l
    BY <1>4, <2>1 DEF Codes
  <2>3. k \in Waiting(l)
    BY <2>2 DEF Waiting
  <2>4. Entries(l) = {} /\ Codes(l) = {} /\ sessions[l] = 0 /\ l \in started
    BY <2>3 DEF InOnePlace
  <2>5. Waiting(l)' = {}
    BY <1>1, <2>3 DEF InOnePlace, Waiting, Single
  <2>6. Codes(l)' \subseteq {t}
    BY <2>1, <2>4 DEF Codes
  <2> QED BY <1>2, <2>4, <2>5, <2>6 DEF InOnePlace, Single
<1> QED
  BY <1>3, <1>4

LEMMA ExchangeOnePlace ==
  ASSUME StoresInv, NEW l \in Logins, InOnePlace(l), NEW x \in tokens, Exchange(x)
  PROVE  InOnePlace(l)'
<1>1. x.login \in Logins
  BY DEF StoresInv, Token
<1>2. /\ Entries(l)' = Entries(l) /\ Waiting(l)' = Waiting(l) /\ started' = started
      /\ Codes(l)' = Codes(l) \ {x}
  BY DEF Exchange, Entries, Waiting, Codes
<1>3. sessions'[l] = IF x.login = l THEN sessions[l] + 1 ELSE sessions[l]
  BY <1>1 DEF Exchange, StoresInv
<1>4. CASE x.login = l
  <2>1. x \in Codes(l)
    BY <1>4 DEF Codes
  <2>2. Entries(l) = {} /\ Waiting(l) = {} /\ sessions[l] = 0 /\ l \in started
    BY <2>1 DEF InOnePlace
  <2>3. Codes(l)' = {}
    BY <1>2, <2>1 DEF InOnePlace, Single
  <2>4. sessions'[l] = 1
    BY <1>3, <1>4, <2>2
  <2> QED BY <1>2, <2>2, <2>3, <2>4 DEF InOnePlace, Single
<1>5. CASE x.login # l
  BY <1>2, <1>3, <1>5, QuietKept DEF Quiet
<1> QED
  BY <1>4, <1>5

LEMMA ExpireOnePlace ==
  ASSUME StoresInv, NEW l \in Logins, InOnePlace(l), NEW x \in pkce, ExpireEntry(x)
  PROVE  InOnePlace(l)'
<1> DEFINE y == [x EXCEPT !.expired = TRUE]
<1>1. pkce' = (pkce \ {x}) \cup {y} /\ y.login = x.login
  BY DEF ExpireEntry, StoresInv, Entry
<1>2. /\ Waiting(l)' = Waiting(l) /\ Codes(l)' = Codes(l) /\ started' = started
      /\ sessions' = sessions
  BY DEF ExpireEntry, Waiting, Codes
<1> HIDE DEF y
<1>3. CASE x.login = l
  <2>1. x \in Entries(l)
    BY <1>3 DEF Entries
  <2>2. Waiting(l) = {} /\ Codes(l) = {} /\ sessions[l] = 0 /\ l \in started
    BY <2>1 DEF InOnePlace
  <2>3. Entries(l)' \subseteq {y}
    BY <1>1, <2>1 DEF InOnePlace, Entries, Single
  <2> QED BY <1>2, <2>2, <2>3 DEF InOnePlace, Single
<1>4. CASE x.login # l
  BY <1>1, <1>2, <1>4, QuietKept DEF Quiet, Entries
<1> QED
  BY <1>3, <1>4

LEMMA LoginKept ==
  ASSUME StoresInv, LoginInv, [Next]_vars
  PROVE  LoginInv'
<1> SUFFICES ASSUME NEW l \in Logins PROVE InOnePlace(l)'
  BY DEF LoginInv
<1>0. InOnePlace(l)
  BY DEF LoginInv
<1>1. CASE UNCHANGED oauth
  BY <1>0, <1>1, QuietKept DEF oauth, Quiet, Entries, Waiting, Codes
<1>2. ASSUME NEW m \in Logins, NEW r \in Roles, Authorize(m, r) PROVE InOnePlace(l)'
  BY <1>0, <1>2, AuthorizeOnePlace
<1>3. ASSUME NEW k \in Callbacks, NEW x \in pkce, CallbackBegin(k, x) PROVE InOnePlace(l)'
  BY <1>0, <1>3, BeginOnePlace
<1>4. ASSUME NEW k \in Callbacks, NEW e \in Emails,
             CallbackMatched(k, e) \/ CallbackNewUser(k, e) \/ CallbackFailed(k)
      PROVE  InOnePlace(l)'
  <2>1. calls[k].pc = "awaiting" /\ calls' = [calls EXCEPT ![k] = NoCall]
        /\ UNCHANGED <<pkce, sessions, started>>
    BY <1>4 DEF CallbackMatched, CallbackNewUser, CallbackFailed
  <2>2. tokens' = tokens \/ \E f, a : GiveToken(calls[k].login, f, a)
    BY <1>4 DEF CallbackMatched, CallbackNewUser, CallbackFailed
  <2> QED BY <1>0, <2>1, <2>2, CallEndOnePlace
<1>5. ASSUME NEW k \in Callbacks, CallbackFailed(k) PROVE InOnePlace(l)'
  BY <1>0, <1>5, CallEndOnePlace DEF CallbackFailed
<1>6. ASSUME NEW x \in tokens, Exchange(x) PROVE InOnePlace(l)'
  BY <1>0, <1>6, ExchangeOnePlace
<1>7. ASSUME NEW x \in tokens, ExpireToken(x) PROVE InOnePlace(l)'
  BY <1>0, <1>7, QuietKept DEF ExpireToken, Quiet, Entries, Waiting, Codes
<1>8. ASSUME NEW x \in pkce, ExpireEntry(x) PROVE InOnePlace(l)'
  BY <1>0, <1>8, ExpireOnePlace
<1>9. CASE CleanupStores
  BY <1>0, <1>9, QuietKept DEF CleanupStores, Quiet, Entries, Waiting, Codes, Fresh
<1> QED
  BY <1>1, <1>2, <1>3, <1>4, <1>5, <1>6, <1>7, <1>8, <1>9 DEF Next, OAuthNext, vars, oauth

-----------------------------------------------------------------------------
(* The theorems.                                                            *)

IInv == AccInv /\ OneLive /\ MailedCodeLasts /\ StoresInv /\ LoginInv

LEMMA InitInv == OAuthInit => IInv
<1> SUFFICES ASSUME OAuthInit PROVE IInv
  OBVIOUS
<1>1. CodesType /\ DOMAIN codes = {} /\ Len(codes) = 0
  BY AccountsAssumption DEF OAuthInit, Init, CodesType
<1>2. ASSUME NEW e \in Emails, NEW r \in Roles
      PROVE  acc[e][r] \in Account /\ acc[e][r].origin # "oauth" /\ ~(acc[e][r].pw > 0)
  <2> DEFINE given == [state |-> "active", pw |-> OwnPassword, project |-> None,
                       origin |-> "given"]
  <2>1. acc[e][r] = NoAccount \/ acc[e][r] = given
    BY DEF OAuthInit, Init
  <2>2. OwnPassword \in NoPassword..MaxCodes /\ ~(OwnPassword > 0) /\ ~(NoPassword > 0)
    BY AccountsAssumption DEF OwnPassword, NoPassword
  <2>3. given \in Account /\ given.origin # "oauth" /\ ~(given.pw > 0)
    BY <2>2 DEF Account
  <2>4. NoAccount \in Account /\ NoAccount.origin # "oauth" /\ ~(NoAccount.pw > 0)
    BY <2>2, AccountTypes
  <2> QED BY <2>1, <2>3, <2>4
<1>3. acc \in [Emails -> [Roles -> Account]]
  <2>1. acc \in [Emails -> {[r \in Roles |-> NoAccount],
                            [r \in Roles |->
                               IF r = "admin" THEN [state |-> "active", pw |-> OwnPassword,
                                                    project |-> None, origin |-> "given"]
                               ELSE NoAccount]}]
    BY DEF OAuthInit, Init
  <2>2. \A e \in Emails : acc[e] \in [Roles -> Account]
    <3> SUFFICES ASSUME NEW e \in Emails PROVE acc[e] \in [Roles -> Account]
      OBVIOUS
    <3>1. acc[e] = [r \in Roles |-> acc[e][r]]
      BY <2>1
    <3> QED BY <1>2, <3>1
  <2> QED BY <2>1, <2>2
<1>4. TypeOK
  BY <1>1, <1>3, IdleType DEF TypeOK, CodesType, OAuthInit, Init
<1>5. AccInv
  BY <1>1, <1>2, <1>4 DEF AccInv, CodesLegit, OAuthInv, PasswordInv
<1>6. OneLive /\ MailedCodeLasts
  BY <1>1 DEF OneLive, LiveOf, LiveFor, MailedCodeLasts
<1>7. StoresInv
  <2>1. IsFiniteSet({}) /\ Cardinality({}) = 0
    BY FS_EmptySet
  <2> QED BY <2>1, OAuthAssumption DEF OAuthInit, StoresInv, CallsType, NoCall, Call
<1>8. LoginInv
  BY DEF OAuthInit, LoginInv, InOnePlace, Single, Entries, Waiting, Codes, NoCall
<1> QED
  BY <1>5, <1>6, <1>7, <1>8 DEF IInv

LEMMA StepInv == IInv /\ [Next]_vars => IInv'
<1> SUFFICES ASSUME IInv, [Next]_vars PROVE IInv'
  OBVIOUS
<1>1. AccInv /\ TypeOK /\ CodesType /\ StoresInv /\ CallsType
  BY TypeFacts DEF IInv, AccInv, StoresInv
<1>2. AccChange /\ CodeChange /\ ReqChange
  BY <1>1, NextChange
<1>3. AccInv'
  BY <1>1, <1>2, AccPreserved
<1>4. OneLive' /\ MailedCodeLasts'
  BY <1>1, <1>2, OneLiveKept, LastsKept DEF IInv
<1>5. StoresInv' /\ LoginInv'
  BY <1>1, StoresKept, LoginKept DEF IInv
<1> QED
  BY <1>3, <1>4, <1>5 DEF IInv

LEMMA Invariant == Spec => []IInv
BY InitInv, StepInv, PTL DEF Spec

\* The tables, requests and stores have their types, and _pkce_store never has
\* more than one entry above its limit.
THEOREM TypeCorrect == Spec => []OAuthTypeOK
<1>1. IInv => OAuthTypeOK
  BY DEF IInv, AccInv, StoresInv, CallsType, OAuthTypeOK
<1> QED
  BY <1>1, Invariant, PTL

\* An address has at most one unverified record per signup_role, however many
\* requests cross.
THEOREM OneRecord == Spec => []OneRecordPerRole
<1>1. ASSUME OneLive, NEW e \in Emails, NEW p \in Purposes, NEW r \in SignupRoles
      PROVE  Cardinality(LiveOf(e, p, r)) <= 1
  <2> DEFINE S == LiveOf(e, p, r)
  <2>1. \A i, j \in S : i = j
    BY <1>1 DEF OneLive
  <2> HIDE DEF S
  <2>2. S = {} \/ \E i : S = {i}
    BY <2>1
  <2>3. Cardinality(S) = 0 \/ Cardinality(S) = 1
    BY <2>2, FS_EmptySet, FS_Singleton
  <2> QED BY <2>3 DEF S
<1>2. IInv => OneRecordPerRole
  BY <1>1 DEF IInv, OneRecordPerRole
<1> QED
  BY <1>2, Invariant, PTL

\* No request takes away the code that another one has mailed.
THEOREM MailedLasts == Spec => []MailedCodeLasts
<1>1. IInv => MailedCodeLasts
  BY DEF IInv
<1> QED
  BY <1>1, Invariant, PTL

\* A password was set by a code issued for the account that has it.
THEOREM OwnCode == Spec => []PasswordByOwnCode
<1>1. IInv => PasswordByOwnCode
  BY DEF IInv, AccInv, PasswordInv, IssuedFor, PasswordByOwnCode
<1> QED
  BY <1>1, Invariant, PTL

\* An account made by a login with DataGSM has no password.
THEOREM NoOAuthPassword == Spec => []OAuthAccountsHaveNoPassword
<1>1. IInv => OAuthAccountsHaveNoPassword
  BY DEF IInv, AccInv, OAuthInv, OAuthAccountsHaveNoPassword
<1> QED
  BY <1>1, Invariant, PTL

\* A login, whatever calls its browser repeats, leads to one session at most.
THEOREM OneSession == Spec => []OneSessionPerLogin
<1>1. ASSUME LoginInv, NEW l \in Logins PROVE sessions[l] <= 1
  BY <1>1 DEF LoginInv, InOnePlace
<1>2. IInv => OneSessionPerLogin
  BY <1>1 DEF IInv, OneSessionPerLogin
<1> QED
  BY <1>2, Invariant, PTL
=============================================================================
