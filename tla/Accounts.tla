------------------------------ MODULE Accounts ------------------------------
(***************************************************************************)
(* The accounts, and the codes sent by mail that create them and reset     *)
(* their passwords (api/routes/auth.py).                                   *)
(*                                                                         *)
(* An address has at most one account per role.  Every handler runs on the *)
(* event loop and gives way only where it awaits the school's directory or *)
(* the mail server: what it read before is older than what it writes after.*)
(* A code is known by its place in the order of issue.                     *)
(***************************************************************************)
EXTENDS Integers, Sequences, FiniteSets

CONSTANTS
  Emails,       \* addresses
  Projects,     \* names of projects
  Clients,      \* requests that may be in flight at once
  MaxAttempts,  \* 5 in the code
  MaxCodes,     \* bound of the codes issued
  Faults        \* "db": the insertion of a code may fail after the deletion

ASSUME AccountsAssumption ==
  /\ IsFiniteSet(Emails) /\ Clients # {}
  /\ MaxAttempts \in Nat \ {0} /\ MaxCodes \in Nat
  /\ Faults \subseteq {"db"}

VARIABLES
  acc,    \* table users
  codes,  \* every code issued; the table email_verifications has the live ones
  req     \* the request of each client

accVars == <<acc, codes, req>>

Roles == {"user", "project_owner", "admin"}
SignupRoles == {"user", "project_owner"}
None == "none"

\* hashed_password: none, or what it was last set by: a code, or its owner.
NoPassword == -1
OwnPassword == 0

\* An account; origin is how it came to be (history).
Account ==
  [state: {"none", "pending", "active"}, pw: NoPassword..MaxCodes,
   project: Projects \cup {None}, origin: {"none", "given", "code", "oauth"}]
NoAccount == [state |-> "none", pw |-> NoPassword, project |-> None, origin |-> "none"]

\* signup_role: the role of a signup, or password_reset:<role>.
Purposes == {"signup", "reset"}

\* A code with what its record holds.  A record that expires is refused like
\* one with MaxAttempts attempts, until the code is sent again.  account is the
\* role of the account it was issued for, unsent a reset whose mail failed, and
\* state tells what became of it (history).
Code ==
  [email: Emails, purpose: Purposes, role: SignupRoles, project: Projects \cup {None},
   attempts: 0..MaxAttempts, account: Roles, unsent: BOOLEAN,
   state: {"live", "used", "replaced", "withdrawn", "dropped"}]

Idle == [pc |-> "idle"]
Request ==
  [pc: {"idle"}] \cup
  [pc: {"lookup"}, email: Emails, role: SignupRoles, project: Projects \cup {None}] \cup
  [pc: {"mail"}, code: 1..MaxCodes, withdraw: BOOLEAN]

TypeOK ==
  /\ acc \in [Emails -> [Roles -> Account]]
  /\ codes \in Seq(Code) /\ Len(codes) <= MaxCodes
  /\ req \in [Clients -> Request]
  /\ \A c \in Clients : req[c].pc = "mail" => req[c].code \in DOMAIN codes

\* Administrators are made by hand; no code of the service makes one.
Init ==
  /\ acc \in [Emails -> {[r \in Roles |-> NoAccount],
                         [r \in Roles |->
                            IF r = "admin" THEN [state |-> "active", pw |-> OwnPassword,
                                                 project |-> None, origin |-> "given"]
                            ELSE NoAccount]}]
  /\ codes = <<>>
  /\ req = [c \in Clients |-> Idle]

Goto(c, r) == req' = [req EXCEPT ![c] = r]
Active(e, r) == acc[e][r].state = "active"

\* The unverified records of an address, of one signup_role or of any.
LiveFor(e) == {i \in DOMAIN codes : codes[i].email = e /\ codes[i].state = "live"}
LiveOf(e, p, r) == {i \in LiveFor(e) : codes[i].purpose = p /\ codes[i].role = r}

Changed(S, s) == [i \in DOMAIN codes |->
                    IF i \in S THEN [codes[i] EXCEPT !.state = s] ELSE codes[i]]

-----------------------------------------------------------------------------
(* Issuing codes.                                                           *)

\* The records with the same address and signup_role go, the new one comes.
Issue(c, new, withdraw) ==
  /\ Len(codes) < MaxCodes
  /\ codes' = Append(Changed(LiveOf(new.email, new.purpose, new.role), "replaced"), new)
  /\ Goto(c, [pc |-> "mail", code |-> Len(codes) + 1, withdraw |-> withdraw])
  /\ UNCHANGED acc

\* signup and request_password_reset do so in two transactions: the second may
\* fail.
IssueLost(c, e, p, r) ==
  /\ "db" \in Faults
  /\ codes' = Changed(LiveOf(e, p, r), "dropped")
  /\ Goto(c, Idle)
  /\ UNCHANGED acc

NewCode(e, p, r, project, account) ==
  [email |-> e, purpose |-> p, role |-> r, project |-> project, attempts |-> 0,
   account |-> account, unsent |-> FALSE, state |-> "live"]

\* signup and signup_project: an owner's project must not have an owner yet,
\* approved or waiting for approval; then the directory is awaited.
OwnersOf(p) == {e \in Emails : acc[e]["project_owner"].state # "none"
                                 /\ acc[e]["project_owner"].project = p}

Signup(c, e) ==
  /\ req[c] = Idle /\ acc[e]["user"].state = "none"
  /\ Goto(c, [pc |-> "lookup", email |-> e, role |-> "user", project |-> None])
  /\ UNCHANGED <<acc, codes>>

SignupProject(c, e, p) ==
  /\ req[c] = Idle /\ acc[e]["project_owner"].state = "none" /\ OwnersOf(p) = {}
  /\ Goto(c, [pc |-> "lookup", email |-> e, role |-> "project_owner", project |-> p])
  /\ UNCHANGED <<acc, codes>>

\* The old records deleted before the directory is awaited.
SignupIssue_DeletedBefore(c) ==
  /\ req[c].pc = "lookup"
  /\ \/ Goto(c, Idle) /\ UNCHANGED <<acc, codes>>
     \/ LET r == req[c] IN
        /\ Len(codes) < MaxCodes
        /\ codes' = Append(codes, NewCode(r.email, "signup", r.role, r.project, r.role))
        /\ Goto(c, [pc |-> "mail", code |-> Len(codes) + 1, withdraw |-> FALSE])
        /\ UNCHANGED acc

\* The directory answers: not a student, not of this project or no answer at
\* all; or the code is issued.
SignupIssue(c) ==
  /\ req[c].pc = "lookup"
  /\ \/ Goto(c, Idle) /\ UNCHANGED <<acc, codes>>
     \/ LET r == req[c] IN
        \/ Issue(c, NewCode(r.email, "signup", r.role, r.project, r.role), FALSE)
        \/ IssueLost(c, r.email, "signup", r.role)

\* The active account of a role; the tab for users serves an administrator who
\* has no user account.
ResetAccount(e, r) ==
  IF Active(e, r) THEN {r}
  ELSE IF r = "user" /\ Active(e, "admin") THEN {"admin"} ELSE {}

Resettable_AnyAccount(e, a) == TRUE
Resettable(e, a) == acc[e][a].pw # NoPassword

RequestPasswordReset(c, e, r) ==
  /\ req[c] = Idle
  /\ \E a \in ResetAccount(e, r) :
       /\ Resettable(e, a)
       /\ \/ Issue(c, NewCode(e, "reset", r, None, a), TRUE)
          \/ IssueLost(c, e, "reset", r)

\* The record verify_email and resend_code look at: the newest of the address.
VerifyRecord(e) == {i \in LiveFor(e) : \A j \in LiveFor(e) : j <= i}

\* resend_code sends its code anew, in one transaction.
ResendCode(c, e) ==
  /\ req[c] = Idle
  /\ \E i \in VerifyRecord(e) :
       Issue(c, NewCode(e, codes[i].purpose, codes[i].role, codes[i].project,
                        codes[i].account), FALSE)

\* A password reset that could not be mailed withdraws its own record.
Withdrawn_AllOfRole(i) == LiveOf(codes[i].email, codes[i].purpose, codes[i].role)
Withdrawn(i) == {i} \cap LiveFor(codes[i].email)

Mail(c) ==
  /\ req[c].pc = "mail"
  /\ LET i == req[c].code IN
     \/ UNCHANGED codes
     \/ /\ req[c].withdraw
        /\ codes' = [Changed(Withdrawn(i), "withdrawn") EXCEPT ![i].unsent = TRUE]
  /\ Goto(c, Idle)
  /\ UNCHANGED acc

-----------------------------------------------------------------------------
(* Entering codes.                                                          *)

\* The record confirm_password_reset looks at.
ResetRecord_Latest(e, r) == VerifyRecord(e)
ResetRecord(e, r) ==
  {i \in LiveOf(e, "reset", r) : \A j \in LiveOf(e, "reset", r) : j <= i}

Enterable(i) == codes[i].attempts < MaxAttempts

WrongCode(i) ==
  /\ Enterable(i)
  /\ codes' = [codes EXCEPT ![i].attempts = @ + 1]
  /\ UNCHANGED <<acc, req>>

SetAccount(e, r, a) == acc' = [acc EXCEPT ![e] = [@ EXCEPT ![r] = a]]

\* Any record but an owner's makes a user account, with the password in it; a
\* record of a password reset has none.
Verify(i) ==
  LET k == codes[i]
      owner == k.purpose = "signup" /\ k.role = "project_owner"
      r == IF owner THEN "project_owner" ELSE "user" IN
  /\ Enterable(i) /\ acc[k.email][r].state = "none"
  /\ SetAccount(k.email, r,
       [state |-> IF owner THEN "pending" ELSE "active",
        pw |-> IF k.purpose = "signup" THEN i ELSE NoPassword,
        project |-> IF owner THEN k.project ELSE None, origin |-> "code"])
  /\ codes' = [codes EXCEPT ![i].state = "used"]
  /\ UNCHANGED req

ConfirmPasswordReset(i) ==
  LET e == codes[i].email IN
  /\ Enterable(i)
  /\ \E a \in ResetAccount(e, codes[i].role) :
       SetAccount(e, a, [acc[e][a] EXCEPT !.pw = i])
  /\ codes' = [codes EXCEPT ![i].state = "used"]
  /\ UNCHANGED req

-----------------------------------------------------------------------------
(* The accounts.                                                            *)
ChangePassword(e, r) ==
  /\ Active(e, r) /\ acc[e][r].pw # NoPassword
  /\ SetAccount(e, r, [acc[e][r] EXCEPT !.pw = OwnPassword])
  /\ UNCHANGED <<codes, req>>

Approve(e, r) ==
  /\ acc[e][r].state = "pending"
  /\ SetAccount(e, r, [acc[e][r] EXCEPT !.state = "active"])
  /\ UNCHANGED <<codes, req>>

Reject(e, r) ==
  /\ acc[e][r].state = "pending"
  /\ SetAccount(e, r, NoAccount)
  /\ UNCHANGED <<codes, req>>

Expire(i) ==
  /\ codes[i].state = "live" /\ Enterable(i)
  /\ codes' = [codes EXCEPT ![i].attempts = MaxAttempts]
  /\ UNCHANGED <<acc, req>>

CodeStep(e) ==
  \/ \E c \in Clients :
       \/ Signup(c, e) \/ ResendCode(c, e)
       \/ \E p \in Projects : SignupProject(c, e, p)
       \/ \E r \in SignupRoles : RequestPasswordReset(c, e, r)
  \/ \E i \in VerifyRecord(e) : Verify(i) \/ WrongCode(i)
  \/ \E r \in SignupRoles : \E i \in ResetRecord(e, r) :
       ConfirmPasswordReset(i) \/ WrongCode(i)

AccountStep(e, r) == ChangePassword(e, r) \/ Approve(e, r) \/ Reject(e, r)

AccNext ==
  \/ \E e \in Emails : CodeStep(e) \/ \E r \in Roles : AccountStep(e, r)
  \/ \E c \in Clients : SignupIssue(c) \/ Mail(c)
  \/ \E i \in DOMAIN codes : Expire(i)

AccSpec == Init /\ [][AccNext]_accVars

-----------------------------------------------------------------------------
(* Properties.                                                              *)

\* However signups, resends and resets of one address cross each other while
\* they await directory and mail, the address has one unverified record per
\* signup_role: the comment "단일 레코드 보장" of confirm_password_reset.
OneRecordPerRole ==
  \A e \in Emails, p \in Purposes, r \in SignupRoles : Cardinality(LiveOf(e, p, r)) <= 1

\* A code that was mailed can be entered until it is used, a newer one takes
\* its place or the insertion of the newer one fails; a mail that fails never
\* takes away the code another request has sent.
MailedCodeLasts ==
  \A i \in DOMAIN codes :
    \/ codes[i].state \in {"live", "used", "dropped"}
    \/ codes[i].state = "withdrawn" /\ codes[i].unsent
    \/ \E j \in DOMAIN codes :
         /\ j > i /\ codes[j].email = codes[i].email
         /\ codes[j].purpose = codes[i].purpose /\ codes[j].role = codes[i].role

\* The password of an account was set by a code for this very account: one it
\* was created with, or a reset issued for it, whatever accounts the address
\* got or lost between request and entry.  A user account also takes the reset
\* issued for the administrator before the user account existed.
PasswordByOwnCode ==
  \A e \in Emails, r \in Roles :
    LET i == acc[e][r].pw IN
    i > 0 => /\ codes[i].email = e
             /\ \/ codes[i].account = r
                \/ codes[i].account = "admin" /\ r = "user"

=============================================================================
