--------------------------- MODULE AccountRecords ---------------------------
(***************************************************************************)
(* The row of one account and the links mailed to its owner.  A request    *)
(* reads the row, decides, and commits later; its UPDATE writes the        *)
(* columns it has changed, and those only.  Requests in progress together  *)
(* do not lock what they read.                                             *)
(*                                                                         *)
(* is_active, is_superuser and the profile are set by admins and owners    *)
(* and decide nothing here; sign-ins are in LoginLockout and               *)
(* TokenSessions.                                                          *)
(***************************************************************************)
EXTENDS Naturals

CONSTANTS
    Visits,         \* requests that may be in progress together
    Links,          \* verification and reset links that are ever mailed
    Addresses,      \* email addresses of the owner
    Secrets         \* OTP secrets; each is drawn once

VARIABLES
    account,        \* the row, or NoAccount
    link,           \* link[l]: what l is for and the address it went to
    used,           \* the UsedToken rows
    visit,          \* visit[v]: what v is about to commit
    openings,       \* openings[l]: how often l had its effect
    proven,         \* secrets the owner has shown a code of
    otpCrossed      \* two requests about the one-time password have overlapped

accountVars == <<account, link, used, visit, openings, proven, otpCrossed>>

NoAccount == [email |-> "none"]
NoSecret == "none"
NotMailed == [purpose |-> "none"]
Away == [does |-> "nothing", sets |-> <<>>]

\* A User row as sign-up and the first social login insert it.
NewAccount(a, social) ==
    [email |-> a, confirmed |-> social, password |-> ~social, social |-> social,
     enabled |-> FALSE, verified |-> FALSE, secret |-> NoSecret]

Exists == account # NoAccount

\* Only what differs from the row as it was read is written.
Dirty(new) == [f \in {g \in DOMAIN new : new[g] # account[g]} |-> new[f]]

\* Requests about the one-time password that are in progress.
OtpVisits == {v \in Visits : visit[v].does = "otp"}

\* A request has read the row, and was shown codes of these secrets.
Show(v, q, secrets) ==
    /\ visit[v] = Away
    /\ visit' = [visit EXCEPT ![v] = q]
    /\ proven' = proven \cup secrets
    /\ otpCrossed' = (otpCrossed \/ (q.does = "otp" /\ OtpVisits # {}))
    /\ UNCHANGED <<account, link, used, openings>>

Arrive(v, q) == Show(v, q, {})

Update(v, new) == Arrive(v, [does |-> "update", sets |-> Dirty(new)])

UpdateOtp(v, new, secrets) == Show(v, [does |-> "otp", sets |-> Dirty(new)], secrets)

-----------------------------------------------------------------------------
(* Handlers, up to their commit.                                           *)

\* POST /signup/: the username is free.
SignUp(v, a) ==
    /\ ~Exists
    /\ Arrive(v, [does |-> "insert", sets |-> NewAccount(a, FALSE)])

\* find_or_create_social_user: an account with the address is linked, and confirmed,
\* for the provider has verified the address.
SocialLogin(v, a) ==
    \/ /\ ~Exists
       /\ Arrive(v, [does |-> "insert", sets |-> NewAccount(a, TRUE)])
    \/ /\ Exists /\ ~account.social /\ account.email = a
       /\ Update(v, [social |-> TRUE, confirmed |-> TRUE])

\* PATCH /users/me with another address.
ChangeEmail(v, a) ==
    /\ Exists
    /\ Update(v, [email |-> a, confirmed |-> FALSE])

\* POST /change-password/: the present password is right.
ChangePassword(v) ==
    /\ Exists /\ account.password
    /\ Update(v, [password |-> TRUE])

Drawn == {account.secret} \cup proven
    \cup {visit[w].sets.secret : w \in {x \in Visits : "secret" \in DOMAIN visit[x].sets}}

\* POST /otp/enable/: a new secret, not in use yet.
EnableOtp(v, s) ==
    /\ Exists /\ ~account.enabled
    /\ s \notin Drawn
    /\ UpdateOtp(v, [secret |-> s, verified |-> FALSE], {})

\* Mutant: any code will do.
ActivateOtp(v) ==
    /\ Exists /\ account.secret # NoSecret
    /\ UpdateOtp(v, [enabled |-> TRUE, verified |-> TRUE], {})

\* POST /otp/verify/: the code is one of the secret in the row.
VerifyOtp(v) ==
    /\ Exists /\ account.secret # NoSecret
    /\ UpdateOtp(v, [enabled |-> TRUE, verified |-> TRUE], {account.secret})

\* Mutant: whether OTP has been verified is left as it is.
SwitchOtpOff(v) ==
    /\ Exists /\ account.enabled /\ account.password
    /\ UpdateOtp(v, [enabled |-> FALSE, secret |-> NoSecret], {})

\* POST /otp/disable/: OTP is enabled and the password is right.
DisableOtp(v) ==
    /\ Exists /\ account.enabled /\ account.password
    /\ UpdateOtp(v, [enabled |-> FALSE, verified |-> FALSE, secret |-> NoSecret], {})

-----------------------------------------------------------------------------
(* Links.                                                                  *)

\* POST /resend-verification/ and POST /password-reset-request/: nothing is written.
MailLink(l, purpose) ==
    /\ Exists
    /\ link[l] = NotMailed
    /\ purpose = "verify" => ~account.confirmed
    /\ link' = [link EXCEPT ![l] = [purpose |-> purpose, to |-> account.email]]
    /\ UNCHANGED <<account, used, visit, openings, proven, otpCrossed>>

\* The 1 or 24 hours of a link end.
LinkExpires(l) ==
    /\ link[l] # NotMailed /\ link[l].purpose # "expired"
    /\ link' = [link EXCEPT ![l].purpose = "expired"]
    /\ UNCHANGED <<account, used, visit, openings, proven, otpCrossed>>

Opened(purpose) ==
    IF purpose = "verify" THEN [confirmed |-> TRUE] ELSE [password |-> TRUE]

\* POST /verify-email/ and POST /password-reset-confirm/, up to the commit.
OpenLink(v, l) ==
    /\ Exists
    /\ link[l].purpose \in {"verify", "reset"}
    /\ l \notin used
    /\ Arrive(v, [does |-> "open", link |-> l, sets |-> Dirty(Opened(link[l].purpose))])

-----------------------------------------------------------------------------
(* Commits.                                                                *)

Written(q) == [f \in DOMAIN account |-> IF f \in DOMAIN q.sets THEN q.sets[f] ELSE account[f]]

Leave(v) == visit' = [visit EXCEPT ![v] = Away]

\* The username and the email are unique: the second insert fails.
CommitInsert(v) ==
    /\ visit[v].does = "insert"
    /\ account' = IF Exists THEN account ELSE visit[v].sets
    /\ Leave(v)
    /\ UNCHANGED <<link, used, openings, proven, otpCrossed>>

CommitUpdate(v) ==
    /\ visit[v].does \in {"update", "otp"}
    /\ account' = Written(visit[v])
    /\ Leave(v)
    /\ UNCHANGED <<link, used, openings, proven, otpCrossed>>

\* Mutant: the jti has no unique constraint.
CommitOpeningAnyhow(v) ==
    /\ visit[v].does = "open"
    /\ account' = Written(visit[v])
    /\ used' = used \cup {visit[v].link}
    /\ openings' = [openings EXCEPT ![visit[v].link] = @ + 1]
    /\ Leave(v)
    /\ UNCHANGED <<link, proven, otpCrossed>>

\* The jti of a used token is unique: the commit of a second use fails as a whole.
CommitOpening(v) ==
    /\ visit[v].does = "open"
    /\ LET l == visit[v].link IN
       IF l \in used THEN UNCHANGED <<account, used, openings>>
       ELSE /\ account' = Written(visit[v])
            /\ used' = used \cup {l}
            /\ openings' = [openings EXCEPT ![l] = @ + 1]
    /\ Leave(v)
    /\ UNCHANGED <<link, proven, otpCrossed>>

\* Any failure before the commit, or the death of the process.
Fail(v) ==
    /\ visit[v] # Away
    /\ Leave(v)
    /\ UNCHANGED <<account, link, used, openings, proven, otpCrossed>>

AccountInit ==
    /\ account = NoAccount
    /\ link = [l \in Links |-> NotMailed]
    /\ used = {}
    /\ visit = [v \in Visits |-> Away]
    /\ openings = [l \in Links |-> 0]
    /\ proven = {}
    /\ otpCrossed = FALSE

AccountNext ==
    \/ \E v \in Visits :
          \/ \E a \in Addresses : SignUp(v, a) \/ SocialLogin(v, a) \/ ChangeEmail(v, a)
          \/ ChangePassword(v) \/ VerifyOtp(v) \/ DisableOtp(v)
          \/ \E s \in Secrets : EnableOtp(v, s)
          \/ \E l \in Links : OpenLink(v, l)
          \/ CommitInsert(v) \/ CommitUpdate(v) \/ CommitOpening(v) \/ Fail(v)
    \/ \E l \in Links : LinkExpires(l) \/ \E p \in {"verify", "reset"} : MailLink(l, p)

AccountSpec == AccountInit /\ [][AccountNext]_accountVars

-----------------------------------------------------------------------------
(* Properties.                                                             *)

\* A link has its effect once, however many requests open it together.
LinkWorksOnce == \A l \in Links : openings[l] <= 1

\* enabled and verified say the same, in every interleaving: both are asked for at
\* every sign-in, and a row with one of them would ask for no code at all.
OtpFlagsAgree == Exists => account.enabled = account.verified

\* Who has to show codes has shown one of that very secret, unless two requests about
\* it have overlapped: nobody is locked out by a secret that never left the server.
OtpSecretProven ==
    Exists /\ account.enabled /\ ~otpCrossed => account.secret \in proven
=============================================================================
