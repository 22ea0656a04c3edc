------------------------------ MODULE EmailLinks ------------------------------
(***************************************************************************)
(* The links that arrive by e-mail, for one account: routers/auth.py       *)
(* (register, verify_email, resend_verification, forgot_password,          *)
(* reset_password) with the pages Register, VerifyEmail, ForgotPassword    *)
(* and ResetPassword.                                                      *)
(*                                                                         *)
(* A request reads the row, writes it (the UPDATE holds the row's lock to  *)
(* the end of the transaction), sends the mail, and commits: the mail is   *)
(* out before the link is in the table.  A handler that fails rolls back.  *)
(* A link that has expired is like none for every query.                   *)
(***************************************************************************)
EXTENDS Naturals, FiniteSets

CONSTANTS
  Request,    \* the requests the server may have under way at once
  NoRequest,  \* a slot without a request
  MaxLinks,   \* bound: links made
  MaxMishaps  \* bound: requests that fail before or after their mail, answers lost,
              \* pages reloaded while they wait, accounts toggled

ASSUME LinkBounds == MaxLinks \in Nat /\ MaxMishaps \in Nat

VARIABLES
  account,    \* "none", "unverified" or "verified"
  active,     \* users.is_active
  verifyHash, \* the valid email_verification_token_hash: a link, or 0
  resetHash,  \* the valid reset_token_hash: a link, or 0
  req,        \* the requests under way
  lock,       \* the request that holds the row
  made,       \* number of links made: they are 1, 2, ...
  mails,      \* links in the inbox, with what they are for
  spent,      \* links used or expired
  waiting,    \* per page, the request it waits for: its button is disabled
  said,       \* per page, what it says of the last request
  token,      \* the link VerifyEmail and ResetPassword were opened with, or 0
  opened,     \* history: links a page was opened with
  did,        \* history: links that verified the account or set a password
  causes,     \* history: what may have cost the user a link
  mailMishaps

row == <<account, active, verifyHash, resetHash>>
server == <<row, req, lock, made, mails, spent>>
mailPages == <<waiting, said, token>>
mailHistory == <<opened, did, causes, mailMishaps>>
mailVars == <<server, mailPages, mailHistory>>

Link == 1..MaxLinks
Ops == {"register", "resend", "forgot", "verify", "reset"}
Under == [op : Ops, stage : {"read", "written", "mailed"}, link : 0..MaxLinks]
Says == {"nothing", "done", "failed"}

ASSUME NoRequestIsNone == NoRequest \notin Request \cup Under

MailTypeOK ==
  /\ account \in {"none", "unverified", "verified"} /\ active \in BOOLEAN
  /\ verifyHash \in 0..MaxLinks /\ resetHash \in 0..MaxLinks
  /\ req \in [Request -> Under \cup {NoRequest}]
  /\ lock \in Request \cup {NoRequest}
  /\ made \in 0..MaxLinks
  /\ mails \subseteq [for : {"verify", "reset"}, link : Link]
  /\ spent \subseteq Link
  /\ waiting \in [Ops -> Request \cup {NoRequest}]
  /\ said \in [Ops -> Says]
  /\ token \in [{"verify", "reset"} -> 0..MaxLinks]
  /\ opened \subseteq Link /\ did \subseteq Link
  /\ causes \subseteq {"overlap", "undone", "unheard", "reran", "reopened", "overtaken"}
  /\ mailMishaps \in 0..MaxMishaps

MailInit ==
  /\ account = "none" /\ active = TRUE
  /\ verifyHash = 0 /\ resetHash = 0
  /\ req = [r \in Request |-> NoRequest] /\ lock = NoRequest
  /\ made = 0 /\ mails = {} /\ spent = {}
  /\ waiting = [op \in Ops |-> NoRequest] /\ said = [op \in Ops |-> "nothing"]
  /\ token = [op \in {"verify", "reset"} |-> 0]
  /\ opened = {} /\ did = {} /\ causes = {} /\ mailMishaps = 0

MailMishap == mailMishaps < MaxMishaps /\ mailMishaps' = mailMishaps + 1

Begin(r, op, stage, l) ==
  req[r] = NoRequest /\ req' = [req EXCEPT ![r] = [op |-> op, stage |-> stage, link |-> l]]

\* What a page shows of an answer to the end: a form that succeeded is gone,
\* a link that failed is called invalid, the rest is a message above the form.
Kept(op, says) ==
  IF op = "resend" \/ (op \in {"register", "forgot"} /\ says = "failed")
  THEN "nothing" ELSE says

\* The button of the page: disabled while it waits.
Submit(r, op) ==
  /\ waiting[op] = NoRequest /\ said[op] # "done"
  /\ waiting' = [waiting EXCEPT ![op] = r]
  /\ said' = [said EXCEPT ![op] = "nothing"]
  /\ UNCHANGED token

SubmitRegister(r) == Submit(r, "register")
SubmitResend(r) == Submit(r, "resend")
SubmitForgot(r) == Submit(r, "forgot")
SubmitReset(r) == token["reset"] # 0 /\ Submit(r, "reset")

\* The answer of r reaches the page that waits for it, if one does.
Answer(r, says) ==
  IF \E op \in Ops : waiting[op] = r
  THEN LET op == CHOOSE o \in Ops : waiting[o] = r IN
       /\ waiting' = [waiting EXCEPT ![op] = NoRequest]
       /\ said' = [said EXCEPT ![op] = Kept(op, says)]
       /\ UNCHANGED token
  ELSE UNCHANGED mailPages

At(r, stage) == req[r] # NoRequest /\ req[r].stage = stage

\* The transaction ends; r gives the lock back.
Over(r) ==
  /\ req' = [req EXCEPT ![r] = NoRequest]
  /\ lock' = IF lock = r THEN NoRequest ELSE lock

\* Reads that another request of the same kind may overtake.
Overlapping(op) ==
  causes' = IF \E r \in Request : req[r] # NoRequest /\ req[r].op = op
            THEN causes \cup {"overlap"} ELSE causes

-----------------------------------------------------------------------------
(* Links are made: register, resend_verification, forgot_password.         *)

\* A second registration of the address waits for the first, and fails.
Register(r) ==
  /\ account = "none" /\ made < MaxLinks /\ lock = NoRequest
  /\ Begin(r, "register", "written", made + 1)
  /\ made' = made + 1 /\ lock' = r
  /\ SubmitRegister(r)
  /\ UNCHANGED <<row, mails, spent, mailHistory>>

\* The page is opened anew: it waits for nothing and says nothing.
Reload(op) ==
  /\ op \in {"register", "resend", "forgot"}
  /\ \/ waiting[op] # NoRequest /\ MailMishap
     \/ said[op] = "done" /\ UNCHANGED mailMishaps
  /\ waiting' = [waiting EXCEPT ![op] = NoRequest]
  /\ said' = [said EXCEPT ![op] = "nothing"]
  /\ UNCHANGED <<server, token, opened, did, causes>>

\* An account that is verified gets the same answer, and no mail.
Resend(r) ==
  /\ account = "unverified"
  /\ Begin(r, "resend", "read", 0)
  /\ Overlapping("resend") /\ SubmitResend(r)
  /\ UNCHANGED <<row, lock, made, mails, spent, opened, did, mailMishaps>>

\* Variation: a valid link is replaced.
ForgotAlways(r) ==
  /\ account # "none" /\ active
  /\ Begin(r, "forgot", "read", 0)
  /\ Overlapping("forgot") /\ SubmitForgot(r)
  /\ UNCHANGED <<row, lock, made, mails, spent, opened, did, mailMishaps>>

\* While a link is valid there is no other.
Forgot(r) ==
  /\ account # "none" /\ active /\ resetHash = 0
  /\ Begin(r, "forgot", "read", 0)
  /\ Overlapping("forgot") /\ SubmitForgot(r)
  /\ UNCHANGED <<row, lock, made, mails, spent, opened, did, mailMishaps>>

\* The flush of the new link waits for the row.
WriteLink(r) ==
  /\ At(r, "read") /\ req[r].op \in {"resend", "forgot"}
  /\ lock = NoRequest /\ made < MaxLinks
  /\ lock' = r /\ made' = made + 1
  /\ req' = [req EXCEPT ![r].stage = "written", ![r].link = made + 1]
  /\ UNCHANGED <<row, mails, spent, mailPages, mailHistory>>

SendMail(r) ==
  /\ At(r, "written") /\ req[r].op \in {"register", "resend", "forgot"}
  /\ mails' = mails \cup
       {[for |-> IF req[r].op = "forgot" THEN "reset" ELSE "verify",
         link |-> req[r].link]}
  /\ req' = [req EXCEPT ![r].stage = "mailed"]
  /\ UNCHANGED <<row, lock, made, spent, mailPages, mailHistory>>

\* The mail does not leave; what the handler clears is rolled back with the rest.
MailFails(r) ==
  /\ MailMishap
  /\ At(r, "written") /\ req[r].op \in {"register", "resend", "forgot"}
  /\ Over(r) /\ Answer(r, "failed")
  /\ UNCHANGED <<row, made, mails, spent, opened, did, causes>>

\* The UPDATE of resend_verification and forgot_password writes by primary
\* key, whatever has become of the row since it was read.
CommitLink(r) ==
  /\ At(r, "mailed")
  /\ account' = IF req[r].op = "register" THEN "unverified" ELSE account
  /\ verifyHash' = IF req[r].op \in {"register", "resend"} THEN req[r].link ELSE verifyHash
  /\ resetHash' = IF req[r].op = "forgot" THEN req[r].link ELSE resetHash
  /\ Over(r) /\ Answer(r, "done")
  /\ UNCHANGED <<active, made, mails, spent, mailHistory>>

\* The mail is out, but its transaction is rolled back: the mail server's reply is
\* lost, record_request or the commit fails, or the process dies.
FailsAfterMail(r) ==
  /\ MailMishap /\ At(r, "mailed")
  /\ causes' = causes \cup {"undone"}
  /\ Over(r) /\ Answer(r, "failed")
  /\ UNCHANGED <<row, made, mails, spent, opened, did>>

-----------------------------------------------------------------------------
(* Links are used: VerifyEmail with verify_email, ResetPassword with       *)
(* reset_password.                                                         *)

\* The page is opened with a link; VerifyEmail posts it at once.
OpenVerify(r, l) ==
  /\ waiting["verify"] = NoRequest
  /\ [for |-> "verify", link |-> l] \in mails
  /\ Begin(r, "verify", "read", IF verifyHash = l THEN l ELSE 0)
  /\ token' = [token EXCEPT !["verify"] = l]
  /\ waiting' = [waiting EXCEPT !["verify"] = r]
  /\ said' = [said EXCEPT !["verify"] = "nothing"]
  /\ opened' = opened \cup {l}
  /\ causes' = IF l \in opened THEN causes \cup {"reopened"} ELSE causes
  /\ UNCHANGED <<row, lock, made, mails, spent, did, mailMishaps>>

\* verifyEmail is a new function when AuthProvider renders with the answer of
\* getMe: the effect runs again, and the answer to its first post is ignored.
Rerun(r) ==
  /\ waiting["verify"] # NoRequest /\ "reran" \notin causes
  /\ Begin(r, "verify", "read", IF verifyHash = token["verify"] THEN verifyHash ELSE 0)
  /\ waiting' = [waiting EXCEPT !["verify"] = r]
  /\ causes' = causes \cup {"reran"}
  /\ UNCHANGED <<row, lock, made, mails, spent, said, token, opened, did, mailMishaps>>

OpenReset(l) ==
  /\ [for |-> "reset", link |-> l] \in mails
  /\ token["reset"] # l \/ said["reset"] # "nothing" \/ waiting["reset"] # NoRequest
  /\ token' = [token EXCEPT !["reset"] = l]
  /\ waiting' = [waiting EXCEPT !["reset"] = NoRequest]
  /\ said' = [said EXCEPT !["reset"] = "nothing"]
  /\ opened' = opened \cup {l}
  /\ causes' = IF l \in opened THEN causes \cup {"reopened"} ELSE causes
  /\ UNCHANGED <<server, did, mailMishaps>>

ResetRequest(r) ==
  /\ SubmitReset(r)
  /\ Begin(r, "reset", "read",
           IF resetHash = token["reset"] /\ active THEN resetHash ELSE 0)
  /\ UNCHANGED <<row, lock, made, mails, spent, mailHistory>>

\* No account has the link, or it is disabled.
Refused(r) ==
  /\ At(r, "read") /\ req[r].op \in {"verify", "reset"} /\ req[r].link = 0
  /\ Over(r) /\ Answer(r, "failed")
  /\ UNCHANGED <<row, made, mails, spent, mailHistory>>

\* Variation: a disabled account is refused after the write.
VerifyThenRefuse(r) ==
  /\ At(r, "read") /\ req[r].op = "verify" /\ req[r].link # 0 /\ lock = NoRequest
  /\ account' = "verified" /\ verifyHash' = 0
  /\ spent' = spent \cup {req[r].link} /\ did' = did \cup {req[r].link}
  /\ Over(r) /\ Answer(r, IF active THEN "done" ELSE "failed")
  /\ UNCHANGED <<active, resetHash, made, mails, opened, causes, mailMishaps>>

Verify(r) ==
  /\ At(r, "read") /\ req[r].op = "verify" /\ req[r].link # 0 /\ lock = NoRequest
  /\ account' = "verified" /\ verifyHash' = 0
  /\ spent' = spent \cup {req[r].link} /\ did' = did \cup {req[r].link}
  /\ Over(r) /\ Answer(r, "done")
  /\ UNCHANGED <<active, resetHash, made, mails, opened, causes, mailMishaps>>

\* It clears whatever link the row holds by now.
Reset(r) ==
  /\ At(r, "read") /\ req[r].op = "reset" /\ req[r].link # 0 /\ lock = NoRequest
  /\ resetHash' = 0
  /\ spent' = spent \cup {req[r].link} /\ did' = did \cup {req[r].link}
  /\ causes' = IF resetHash \in {0, req[r].link} THEN causes
               ELSE causes \cup {"overtaken"}
  /\ Over(r) /\ Answer(r, "done")
  /\ UNCHANGED <<account, active, verifyHash, made, mails, opened, mailMishaps>>

\* The answer a page waits for is lost: it shows a failure.
Unheard(op) ==
  /\ MailMishap /\ waiting[op] # NoRequest
  /\ waiting' = [waiting EXCEPT ![op] = NoRequest]
  /\ said' = [said EXCEPT ![op] = Kept(op, "failed")]
  /\ causes' = causes \cup {"unheard"}
  /\ UNCHANGED <<server, token, opened, did>>

\* 24 hours, or one, have passed.
Expire(l) ==
  /\ l \in {verifyHash, resetHash} /\ lock = NoRequest
  /\ spent' = spent \cup {l}
  /\ verifyHash' = IF verifyHash = l THEN 0 ELSE verifyHash
  /\ resetHash' = IF resetHash = l THEN 0 ELSE resetHash
  /\ UNCHANGED <<account, active, req, lock, made, mails, mailPages, mailHistory>>

\* The administrator's toggle.
ToggleActive ==
  /\ MailMishap
  /\ account # "none" /\ lock = NoRequest
  /\ active' = ~active
  /\ UNCHANGED <<account, verifyHash, resetHash, req, lock, made, mails, spent,
                 mailPages, opened, did, causes>>

MailNext ==
  \/ \E r \in Request :
       \/ Register(r) \/ Resend(r) \/ Forgot(r)
       \/ WriteLink(r) \/ SendMail(r) \/ MailFails(r) \/ CommitLink(r) \/ FailsAfterMail(r)
       \/ Rerun(r) \/ Refused(r) \/ Verify(r) \/ ResetRequest(r) \/ Reset(r)
       \/ \E l \in Link : OpenVerify(r, l)
  \/ \E op \in Ops : Reload(op) \/ Unheard(op)
  \/ \E l \in Link : OpenReset(l) \/ Expire(l)
  \/ ToggleActive

MailSpec == MailInit /\ [][MailNext]_mailVars

-----------------------------------------------------------------------------
(* Properties.                                                             *)

\* l was mailed for the purpose, its transaction is over, and nobody used it.
Waiting(purpose, l) ==
  /\ [for |-> purpose, link |-> l] \in mails
  /\ l \notin spent
  /\ \A r \in Request : req[r] # NoRequest => req[r].link # l

\* A reset link that was mailed works until it is used or expires
\* (forgot_password does not overwrite a link that is still valid), unless two
\* requests for one overlapped, a request failed after its mail was out, or a
\* reset with an earlier link was under way.
ResetLinkLives ==
  \A l \in Link :
    Waiting("reset", l) => resetHash = l \/ causes \cap {"overlap", "undone", "overtaken"} # {}

\* The newest verification mail of an unverified account works, whatever the
\* order of the requests, unless it expired or its request failed after the mail.
NewestLinkVerifies ==
  \A l \in Link :
    /\ account = "unverified" /\ Waiting("verify", l)
    /\ \A m \in mails : m.for = "verify" => m.link <= l
    => verifyHash = l \/ "undone" \in causes

\* A mailed link is good for what its mail says: the reset link of
\* forgot_password and the newest verification link of register and resend.
MailedLinksWork == ResetLinkLives /\ NewestLinkVerifies

\* A page that says its link failed, when that link verified the account or
\* set the password, was opened twice, ran its effect twice or lost an answer.
FailureIsReal ==
  \A op \in {"verify", "reset"} :
    said[op] = "failed" /\ token[op] \in did =>
      causes \cap {"reran", "reopened", "unheard"} # {}

\* A link works while its mail says so, and what its page says of it is true.
LinksDoAsTheySay == MailedLinksWork /\ FailureIsReal
=============================================================================
