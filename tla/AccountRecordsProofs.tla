------------------------ MODULE AccountRecordsProofs ------------------------
(***************************************************************************)
(* Proofs about AccountRecords, for any number of requests, links,         *)
(* addresses and secrets.                                                  *)
(*                                                                         *)
(* Only the requests about the one-time password write its columns, and    *)
(* they write enabled and verified together or neither, since the row they *)
(* read had them equal.  While no two of them overlap, the row they read   *)
(* is the row they write.                                                  *)
(***************************************************************************)
EXTENDS AccountRecords, TLAPS

OtpColumns == {"enabled", "verified", "secret"}

Sets(v) == DOMAIN visit[v].sets

\* The row has the columns, and the flags agree.
RowOk ==
    Exists =>
        /\ OtpColumns \subseteq DOMAIN account
        /\ account.enabled \in BOOLEAN
        /\ account.enabled = account.verified

\* What the requests in progress are about to write.
InsertOk(v) ==
    visit[v].does = "insert" =>
        /\ OtpColumns \subseteq Sets(v)
        /\ visit[v].sets.enabled = FALSE /\ visit[v].sets.verified = FALSE

OtherOk(v) ==
    visit[v].does \in {"update", "open"} => Exists /\ Sets(v) \cap OtpColumns = {}

OtpOk(v) ==
    visit[v].does = "otp" =>
        /\ Exists
        /\ "enabled" \in Sets(v) <=> "verified" \in Sets(v)
        /\ "enabled" \in Sets(v) =>
              /\ visit[v].sets.enabled \in BOOLEAN
              /\ visit[v].sets.enabled = visit[v].sets.verified

LinkOk(v) == visit[v].does = "open" => visit[v].link \in Links

VisitsOk == \A v \in Visits : InsertOk(v) /\ OtherOk(v) /\ OtpOk(v) /\ LinkOk(v)

\* The columns after the commit of v, if nothing else is committed before.
EnabledAfter(v) == IF "enabled" \in Sets(v) THEN visit[v].sets.enabled ELSE account.enabled
SecretAfter(v) == IF "secret" \in Sets(v) THEN visit[v].sets.secret ELSE account.secret

SecretFits(v) == EnabledAfter(v) => SecretAfter(v) \in proven

ProvenAfter == \A v \in OtpVisits : SecretFits(v)
OneAtATime == \A v, w \in OtpVisits : v = w

OpeningsOk == openings = [l \in Links |-> IF l \in used THEN 1 ELSE 0]

AccountInv ==
    /\ visit = [v \in Visits |-> visit[v]]
    /\ otpCrossed \in BOOLEAN
    /\ RowOk
    /\ VisitsOk
    /\ OpeningsOk
    /\ ~otpCrossed => OneAtATime /\ ProvenAfter /\ OtpSecretProven

-----------------------------------------------------------------------------

\* A row with the columns is a row.
LEMMA ColumnsExist ==
    ASSUME NEW row, "enabled" \in DOMAIN row
    PROVE  row # NoAccount
<1>1. DOMAIN NoAccount = {"email"}
      BY DEF NoAccount
<1>2. "enabled" # "email"
      OBVIOUS
<1>3. QED BY <1>1, <1>2

\* What an UPDATE writes: the columns whose value has changed.
LEMMA DirtyColumns ==
    ASSUME NEW new
    PROVE  /\ DOMAIN Dirty(new) = {g \in DOMAIN new : new[g] # account[g]}
           /\ \A f \in DOMAIN Dirty(new) : Dirty(new)[f] = new[f]
BY DEF Dirty

\* What a commit leaves in the row.
LEMMA WrittenColumns ==
    ASSUME NEW q
    PROVE  /\ DOMAIN Written(q) = DOMAIN account
           /\ \A f \in DOMAIN account :
                 Written(q)[f] = IF f \in DOMAIN q.sets THEN q.sets[f] ELSE account[f]
BY DEF Written

LEMMA AccountInitInv == AccountInit => AccountInv
<1> SUFFICES ASSUME AccountInit PROVE AccountInv
    OBVIOUS
<1>1. \A v \in Visits : visit[v].does = "nothing"
      BY DEF AccountInit, Away
<1>2. ~Exists
      BY DEF AccountInit, Exists
<1>3. visit = [v \in Visits |-> visit[v]] /\ otpCrossed \in BOOLEAN
      BY DEF AccountInit
<1>4. VisitsOk
      BY <1>1 DEF VisitsOk, InsertOk, OtherOk, OtpOk, LinkOk
<1>5. OneAtATime /\ ProvenAfter
      BY <1>1 DEF OneAtATime, ProvenAfter, OtpVisits
<1>6. QED BY <1>2, <1>3, <1>4, <1>5
          DEF AccountInit, AccountInv, RowOk, OpeningsOk, OtpSecretProven

-----------------------------------------------------------------------------
(* Requests up to their commit.                                            *)

\* A request that is not about the one-time password.
LEMMA ArriveKeepsInv ==
    ASSUME AccountInv, NEW v \in Visits, NEW q, Arrive(v, q),
           q.does \in {"insert", "update", "open"},
           InsertOk(v)', OtherOk(v)', LinkOk(v)'
    PROVE  AccountInv'
<1>1. /\ visit' = [visit EXCEPT ![v] = q]
      /\ UNCHANGED <<account, link, used, openings>>
      /\ proven' = proven /\ otpCrossed' = otpCrossed
      BY DEF Arrive, Show, AccountInv
<1>2. visit' = [w \in Visits |-> visit'[w]] /\ visit'[v] = q
      BY <1>1 DEF AccountInv
<1>3. \A w \in Visits \ {v} : visit'[w] = visit[w]
      BY <1>1 DEF AccountInv
<1>4. VisitsOk'
  <2> SUFFICES ASSUME NEW w \in Visits
               PROVE  (InsertOk(w) /\ OtherOk(w) /\ OtpOk(w) /\ LinkOk(w))'
      BY DEF VisitsOk
  <2>1. CASE w = v
        BY <1>2, <2>1 DEF OtpOk
  <2>2. CASE w # v
        BY <1>1, <1>3, <2>2
        DEF AccountInv, VisitsOk, InsertOk, OtherOk, OtpOk, LinkOk, Sets, Exists
  <2>3. QED BY <2>1, <2>2
<1>5. OtpVisits' \subseteq OtpVisits /\ v \notin OtpVisits'
      BY <1>2, <1>3 DEF OtpVisits
<1>6. (~otpCrossed => OneAtATime /\ ProvenAfter /\ OtpSecretProven)'
  <2> SUFFICES ASSUME ~otpCrossed
               PROVE  (OneAtATime /\ ProvenAfter /\ OtpSecretProven)'
      BY <1>1
  <2>1. OneAtATime'
        BY <1>5 DEF AccountInv, OneAtATime
  <2>2. ProvenAfter'
    <3> SUFFICES ASSUME NEW w \in OtpVisits'
                 PROVE  SecretFits(w)'
        BY DEF ProvenAfter
    <3>1. w \in OtpVisits /\ visit'[w] = visit[w]
          BY <1>3, <1>5 DEF OtpVisits
    <3>2. QED BY <1>1, <3>1 DEF AccountInv, ProvenAfter, SecretFits, EnabledAfter,
                                  SecretAfter, Sets
  <2>3. OtpSecretProven'
        BY <1>1 DEF AccountInv, OtpSecretProven, Exists
  <2>4. QED BY <2>1, <2>2, <2>3
<1>7. (RowOk /\ OpeningsOk /\ otpCrossed \in BOOLEAN)'
      BY <1>1 DEF AccountInv, RowOk, OpeningsOk, Exists
<1>8. QED BY <1>2, <1>4, <1>6, <1>7 DEF AccountInv

\* An UPDATE of columns that are not those of the one-time password.
LEMMA UpdateKeepsInv ==
    ASSUME AccountInv, NEW v \in Visits, NEW new, Exists, Update(v, new),
           DOMAIN new \cap OtpColumns = {}
    PROVE  AccountInv'
<1> DEFINE q == [does |-> "update", sets |-> Dirty(new)]
<1>1. visit'[v] = q /\ Arrive(v, q) /\ Exists'
      BY DEF Update, Arrive, Show, AccountInv, Exists
<1>2. q.does = "update" /\ DOMAIN q.sets \cap OtpColumns = {}
      BY DirtyColumns
<1> HIDE DEF q
<1>3. InsertOk(v)' /\ OtherOk(v)' /\ LinkOk(v)'
      BY <1>1, <1>2 DEF InsertOk, OtherOk, LinkOk, Sets
<1>4. QED BY <1>1, <1>2, <1>3, ArriveKeepsInv

LEMMA OpenLinkKeepsInv ==
    ASSUME AccountInv, NEW v \in Visits, NEW l \in Links, OpenLink(v, l)
    PROVE  AccountInv'
<1> DEFINE q == [does |-> "open", link |-> l, sets |-> Dirty(Opened(link[l].purpose))]
<1>1. visit'[v] = q /\ Arrive(v, q) /\ Exists'
      BY DEF OpenLink, Arrive, Show, AccountInv, Exists
<1>2. DOMAIN Opened(link[l].purpose) \cap OtpColumns = {}
      BY DEF Opened, OtpColumns
<1>3. q.does = "open" /\ q.link = l /\ DOMAIN q.sets \cap OtpColumns = {}
      BY <1>2, DirtyColumns
<1> HIDE DEF q
<1>4. InsertOk(v)' /\ OtherOk(v)' /\ LinkOk(v)'
      BY <1>1, <1>3 DEF InsertOk, OtherOk, LinkOk, Sets
<1>5. QED BY <1>1, <1>3, <1>4, ArriveKeepsInv

LEMMA InsertKeepsInv ==
    ASSUME AccountInv, NEW v \in Visits, NEW a, NEW social,
           Arrive(v, [does |-> "insert", sets |-> NewAccount(a, social)])
    PROVE  AccountInv'
<1> DEFINE q == [does |-> "insert", sets |-> NewAccount(a, social)]
<1>1. visit'[v] = q /\ Arrive(v, q)
      BY DEF Arrive, Show, AccountInv
<1>2. /\ q.does = "insert" /\ OtpColumns \subseteq DOMAIN q.sets
      /\ q.sets.enabled = FALSE /\ q.sets.verified = FALSE
      BY DEF NewAccount, OtpColumns
<1> HIDE DEF q
<1>3. InsertOk(v)' /\ OtherOk(v)' /\ LinkOk(v)'
      BY <1>1, <1>2 DEF InsertOk, OtherOk, LinkOk, Sets
<1>4. QED BY <1>1, <1>2, <1>3, ArriveKeepsInv

\* A request about the one-time password: it must find the row as it leaves it, if it
\* is the only one, and write both flags or none.
LEMMA OtpKeepsInv ==
    ASSUME AccountInv, NEW v \in Visits, NEW new, NEW secrets, Exists,
           UpdateOtp(v, new, secrets),
           OtpOk(v)', SecretFits(v)'
    PROVE  AccountInv'
<1> DEFINE q == [does |-> "otp", sets |-> Dirty(new)]
<1>1. /\ visit[v] = Away
      /\ visit' = [visit EXCEPT ![v] = q]
      /\ UNCHANGED <<account, link, used, openings>>
      /\ proven' = proven \cup secrets
      /\ otpCrossed' = (otpCrossed \/ OtpVisits # {})
      BY DEF UpdateOtp, Show
<1>2. q.does = "otp"
      OBVIOUS
<1> HIDE DEF q
<1>3. visit' = [w \in Visits |-> visit'[w]] /\ visit'[v] = q
      BY <1>1 DEF AccountInv
<1>4. \A w \in Visits \ {v} : visit'[w] = visit[w]
      BY <1>1 DEF AccountInv
<1>5. VisitsOk'
  <2> SUFFICES ASSUME NEW w \in Visits
               PROVE  (InsertOk(w) /\ OtherOk(w) /\ OtpOk(w) /\ LinkOk(w))'
      BY DEF VisitsOk
  <2>1. CASE w = v
        BY <1>2, <1>3, <2>1 DEF InsertOk, OtherOk, LinkOk
  <2>2. CASE w # v
        BY <1>1, <1>4, <2>2
        DEF AccountInv, VisitsOk, InsertOk, OtherOk, OtpOk, LinkOk, Sets, Exists
  <2>3. QED BY <2>1, <2>2
<1>6. (~otpCrossed => OneAtATime /\ ProvenAfter /\ OtpSecretProven)'
  <2> SUFFICES ASSUME ~otpCrossed, OtpVisits = {}
               PROVE  (OneAtATime /\ ProvenAfter /\ OtpSecretProven)'
      BY <1>1
  <2>1. OtpVisits' = {v}
        BY <1>2, <1>3, <1>4 DEF OtpVisits
  <2>2. (OneAtATime /\ ProvenAfter)'
        BY <2>1 DEF OneAtATime, ProvenAfter
  <2>3. OtpSecretProven'
        BY <1>1 DEF AccountInv, OtpSecretProven, Exists
  <2>4. QED BY <2>2, <2>3
<1>7. (RowOk /\ OpeningsOk)'
      BY <1>1 DEF AccountInv, RowOk, OpeningsOk, Exists
<1>8. otpCrossed' \in BOOLEAN
      BY <1>1 DEF AccountInv
<1>9. QED BY <1>3, <1>5, <1>6, <1>7, <1>8 DEF AccountInv

LEMMA EnableOtpKeepsInv ==
    ASSUME AccountInv, NEW v \in Visits, NEW s, EnableOtp(v, s)
    PROVE  AccountInv'
<1> DEFINE new == [secret |-> s, verified |-> FALSE]
<1>1. /\ Exists /\ account.enabled = FALSE /\ account.verified = FALSE
      BY DEF EnableOtp, AccountInv, RowOk
<1>2. UpdateOtp(v, new, {}) /\ account' = account /\ visit'[v].sets = Dirty(new)
      BY DEF EnableOtp, UpdateOtp, Show, AccountInv
<1>3. DOMAIN new = {"secret", "verified"} /\ new.verified = FALSE
      OBVIOUS
<1> HIDE DEF new
<1>4. "enabled" \notin Sets(v)' /\ "verified" \notin Sets(v)'
      BY <1>1, <1>2, <1>3 DEF Dirty, Sets
<1>5. OtpOk(v)' /\ SecretFits(v)'
      BY <1>1, <1>2, <1>4 DEF OtpOk, SecretFits, EnabledAfter, Exists
<1>6. QED BY <1>1, <1>2, <1>5, OtpKeepsInv

LEMMA VerifyOtpKeepsInv ==
    ASSUME AccountInv, NEW v \in Visits, VerifyOtp(v)
    PROVE  AccountInv'
<1> DEFINE new == [enabled |-> TRUE, verified |-> TRUE]
<1>1. Exists /\ account.enabled \in BOOLEAN /\ account.enabled = account.verified
      BY DEF VerifyOtp, AccountInv, RowOk
<1>2. /\ UpdateOtp(v, new, {account.secret}) /\ account' = account
      /\ visit'[v].sets = Dirty(new)
      /\ account.secret \in proven'
      BY DEF VerifyOtp, UpdateOtp, Show, AccountInv
<1>3. DOMAIN new = {"enabled", "verified"} /\ new.enabled = TRUE /\ new.verified = TRUE
      OBVIOUS
<1> HIDE DEF new
<1>4. /\ "enabled" \in Sets(v)' <=> "verified" \in Sets(v)'
      /\ "secret" \notin Sets(v)'
      /\ "enabled" \in Sets(v)' => visit'[v].sets.enabled = TRUE /\ visit'[v].sets.verified = TRUE
      BY <1>1, <1>2, <1>3 DEF Dirty, Sets
<1>5. OtpOk(v)'
      BY <1>1, <1>2, <1>4 DEF OtpOk, Exists
<1>6. SecretFits(v)'
      BY <1>2, <1>4 DEF SecretFits, SecretAfter
<1>7. QED BY <1>1, <1>2, <1>5, <1>6, OtpKeepsInv

LEMMA DisableOtpKeepsInv ==
    ASSUME AccountInv, NEW v \in Visits, DisableOtp(v)
    PROVE  AccountInv'
<1> DEFINE new == [enabled |-> FALSE, verified |-> FALSE, secret |-> NoSecret]
<1>1. Exists /\ account.enabled = TRUE /\ account.verified = TRUE
      BY DEF DisableOtp, AccountInv, RowOk
<1>2. /\ UpdateOtp(v, new, {}) /\ account' = account
      /\ visit'[v].sets = Dirty(new)
      BY DEF DisableOtp, UpdateOtp, Show, AccountInv
<1>3. /\ DOMAIN new = {"enabled", "verified", "secret"}
      /\ new.enabled = FALSE /\ new.verified = FALSE
      OBVIOUS
<1> HIDE DEF new
<1>4. /\ "enabled" \in Sets(v)' /\ "verified" \in Sets(v)'
      /\ visit'[v].sets.enabled = FALSE /\ visit'[v].sets.verified = FALSE
      BY <1>1, <1>2, <1>3 DEF Dirty, Sets
<1>5. OtpOk(v)' /\ SecretFits(v)'
      BY <1>1, <1>2, <1>4 DEF OtpOk, SecretFits, EnabledAfter, Exists
<1>6. QED BY <1>1, <1>2, <1>5, OtpKeepsInv

-----------------------------------------------------------------------------
(* Commits, failures, links.                                               *)

\* The others when v is gone, and how far the row may have changed for them.
LEMMA LeaveKeepsVisits ==
    ASSUME AccountInv, NEW v \in Visits, Leave(v), Exists => Exists'
    PROVE  /\ visit' = [w \in Visits |-> visit'[w]]
           /\ VisitsOk'
           /\ OtpVisits' = OtpVisits \ {v}
           /\ \A w \in Visits \ {v} : visit'[w] = visit[w]
<1>1. /\ visit' = [w \in Visits |-> visit'[w]]
      /\ visit'[v].does = "nothing"
      BY DEF Leave, AccountInv, Away
<1>2. \A w \in Visits \ {v} : visit'[w] = visit[w]
      BY DEF Leave, AccountInv
<1>3. VisitsOk'
  <2> SUFFICES ASSUME NEW w \in Visits
               PROVE  (InsertOk(w) /\ OtherOk(w) /\ OtpOk(w) /\ LinkOk(w))'
      BY DEF VisitsOk
  <2>1. CASE w = v
        BY <1>1, <2>1 DEF InsertOk, OtherOk, OtpOk, LinkOk
  <2>2. CASE w # v
        BY <1>2, <2>2
        DEF AccountInv, VisitsOk, InsertOk, OtherOk, OtpOk, LinkOk, Sets
  <2>3. QED BY <2>1, <2>2
<1>4. OtpVisits' = OtpVisits \ {v}
      BY <1>1, <1>2 DEF OtpVisits
<1>5. QED BY <1>1, <1>2, <1>3, <1>4

\* When v leaves and the columns of the one-time password stay as they are, or v was
\* the one about them.
LEMMA LeaveKeepsOtp ==
    ASSUME AccountInv, NEW v \in Visits, Leave(v), Exists => Exists',
           UNCHANGED <<proven, otpCrossed>>,
           \/ Exists /\ account'.enabled = account.enabled /\ account'.secret = account.secret
           \/ ~Exists /\ ~Exists'
           \/ ~Exists /\ account'.enabled = FALSE
           \/ v \in OtpVisits /\ OtpSecretProven'
    PROVE  (~otpCrossed => OneAtATime /\ ProvenAfter /\ OtpSecretProven)'
<1> SUFFICES ASSUME ~otpCrossed
             PROVE  (OneAtATime /\ ProvenAfter /\ OtpSecretProven)'
    OBVIOUS
<1>1. OneAtATime'
      BY LeaveKeepsVisits DEF AccountInv, OneAtATime
<1>2. ProvenAfter'
  <2> SUFFICES ASSUME NEW w \in OtpVisits'
               PROVE  SecretFits(w)'
      BY DEF ProvenAfter
  <2>1. w \in OtpVisits /\ w # v /\ w \in Visits /\ visit'[w] = visit[w]
        BY LeaveKeepsVisits DEF OtpVisits
  <2>2. Exists /\ v \notin OtpVisits
        BY <2>1 DEF AccountInv, VisitsOk, OtpOk, OtpVisits, OneAtATime
  <2>3. account'.enabled = account.enabled /\ account'.secret = account.secret
        BY <2>2
  <2>4. SecretFits(w)
        BY <2>1 DEF AccountInv, ProvenAfter
  <2>5. QED BY <2>1, <2>3, <2>4 DEF SecretFits, EnabledAfter, SecretAfter, Sets
<1>3. OtpSecretProven'
      BY DEF AccountInv, OtpSecretProven
<1>4. QED BY <1>1, <1>2, <1>3

LEMMA CommitInsertKeepsInv ==
    ASSUME AccountInv, NEW v \in Visits, CommitInsert(v)
    PROVE  AccountInv'
<1>1. /\ Leave(v) /\ UNCHANGED <<proven, otpCrossed>> /\ OpeningsOk'
      BY DEF CommitInsert, AccountInv, OpeningsOk
<1>2. CASE Exists
  <2>1. account' = account /\ Exists' /\ RowOk'
        BY <1>2 DEF CommitInsert, Exists, AccountInv, RowOk
  <2>2. QED BY <1>1, <1>2, <2>1, LeaveKeepsVisits, LeaveKeepsOtp DEF AccountInv
<1>3. CASE ~Exists
  <2>1. account' = visit[v].sets /\ InsertOk(v)
        BY <1>3 DEF CommitInsert, AccountInv, VisitsOk
  <2>2. /\ OtpColumns \subseteq DOMAIN account'
        /\ account'.enabled = FALSE /\ account'.verified = FALSE
        BY <2>1 DEF CommitInsert, InsertOk, Sets
  <2>3. RowOk'
        BY <2>2 DEF RowOk
  <2>4. QED BY <1>1, <1>3, <2>2, <2>3, LeaveKeepsVisits, LeaveKeepsOtp DEF AccountInv
<1>4. QED BY <1>2, <1>3

\* A commit that writes columns into a row leaves a row.
LEMMA WrittenExists ==
    ASSUME AccountInv, NEW v \in Visits, Exists, account' = Written(visit[v])
    PROVE  /\ Exists'
           /\ OtpColumns \subseteq DOMAIN account'
           /\ \A f \in OtpColumns :
                 account'[f] = IF f \in Sets(v) THEN visit[v].sets[f] ELSE account[f]
<1>1. OtpColumns \subseteq DOMAIN account' /\ "enabled" \in DOMAIN account'
      BY WrittenColumns DEF AccountInv, RowOk, OtpColumns
<1>2. Exists'
      BY <1>1, ColumnsExist DEF Exists
<1>3. QED BY <1>1, <1>2, WrittenColumns DEF AccountInv, RowOk, Sets

LEMMA CommitUpdateKeepsInv ==
    ASSUME AccountInv, NEW v \in Visits, CommitUpdate(v)
    PROVE  AccountInv'
<1>1. /\ Leave(v) /\ UNCHANGED <<proven, otpCrossed>> /\ OpeningsOk'
      /\ account' = Written(visit[v])
      BY DEF CommitUpdate, AccountInv, OpeningsOk
<1>2. Exists /\ OtherOk(v) /\ OtpOk(v)
      BY DEF CommitUpdate, AccountInv, VisitsOk, OtherOk, OtpOk
<1>3. /\ account'.enabled = IF "enabled" \in Sets(v) THEN visit[v].sets.enabled ELSE account.enabled
      /\ account'.verified = IF "verified" \in Sets(v) THEN visit[v].sets.verified ELSE account.verified
      /\ account'.secret = IF "secret" \in Sets(v) THEN visit[v].sets.secret ELSE account.secret
      BY <1>1, <1>2, WrittenExists DEF OtpColumns
<1>4. CASE visit[v].does = "update"
  <2>1. /\ "enabled" \notin Sets(v) /\ "verified" \notin Sets(v) /\ "secret" \notin Sets(v)
        BY <1>2, <1>4 DEF OtherOk, OtpColumns
  <2>2. RowOk'
        BY <1>1, <1>2, <1>3, <2>1, WrittenExists DEF AccountInv, RowOk
  <2>3. QED BY <1>1, <1>2, <1>3, <2>1, <2>2, WrittenExists, LeaveKeepsVisits, LeaveKeepsOtp
            DEF AccountInv
<1>5. CASE visit[v].does = "otp"
  <2>1. RowOk'
        BY <1>1, <1>2, <1>3, <1>5, WrittenExists DEF AccountInv, RowOk, OtpOk
  <2>2. v \in OtpVisits
        BY <1>5 DEF OtpVisits
  <2>3. ~otpCrossed => SecretFits(v)
        BY <2>2 DEF AccountInv, ProvenAfter
  <2>4. OtpSecretProven'
        BY <1>1, <1>3, <2>3 DEF SecretFits, EnabledAfter, SecretAfter, OtpSecretProven
  <2>5. QED BY <1>1, <1>2, <2>1, <2>2, <2>4, WrittenExists, LeaveKeepsVisits, LeaveKeepsOtp
            DEF AccountInv
<1>6. QED BY <1>4, <1>5 DEF CommitUpdate

LEMMA CommitOpeningKeepsInv ==
    ASSUME AccountInv, NEW v \in Visits, CommitOpening(v)
    PROVE  AccountInv'
<1> DEFINE l == visit[v].link
<1>1. Leave(v) /\ UNCHANGED <<proven, otpCrossed>>
      BY DEF CommitOpening
<1>2. Exists /\ OtherOk(v) /\ l \in Links
      BY DEF CommitOpening, AccountInv, VisitsOk, OtherOk, LinkOk
<1>3. CASE l \in used
  <2>1. UNCHANGED <<account, used, openings>>
        BY <1>3 DEF CommitOpening
  <2>2. Exists' /\ RowOk' /\ OpeningsOk'
        BY <1>2, <2>1 DEF Exists, AccountInv, RowOk, OpeningsOk
  <2>3. QED BY <1>1, <1>2, <2>1, <2>2, LeaveKeepsVisits, LeaveKeepsOtp DEF AccountInv
<1>4. CASE l \notin used
  <2>1. /\ account' = Written(visit[v])
        /\ used' = used \cup {l}
        /\ openings' = [openings EXCEPT ![l] = @ + 1]
        BY <1>4 DEF CommitOpening
  <2>2. /\ "enabled" \notin Sets(v) /\ "verified" \notin Sets(v) /\ "secret" \notin Sets(v)
        BY <1>2 DEF CommitOpening, OtherOk, OtpColumns
  <2>3. /\ account'.enabled = account.enabled /\ account'.verified = account.verified
        /\ account'.secret = account.secret
        BY <1>2, <2>1, <2>2, WrittenExists DEF OtpColumns
  <2>4. RowOk'
        BY <1>2, <2>1, <2>3, WrittenExists DEF AccountInv, RowOk
  <2>5. OpeningsOk'
        BY <1>2, <1>4, <2>1 DEF AccountInv, OpeningsOk
  <2>6. QED BY <1>1, <1>2, <2>1, <2>3, <2>4, <2>5, WrittenExists, LeaveKeepsVisits,
               LeaveKeepsOtp
            DEF AccountInv
<1>5. QED BY <1>3, <1>4

LEMMA FailKeepsInv ==
    ASSUME AccountInv, NEW v \in Visits, Fail(v)
    PROVE  AccountInv'
<1>1. Leave(v) /\ UNCHANGED <<account, used, openings, proven, otpCrossed>>
      BY DEF Fail
<1>2. (Exists <=> Exists') /\ RowOk' /\ OpeningsOk'
      BY <1>1 DEF Exists, AccountInv, RowOk, OpeningsOk
<1>3. QED BY <1>1, <1>2, LeaveKeepsVisits, LeaveKeepsOtp DEF AccountInv

\* The links, the mails and the clock do not touch the row.
LEMMA LinksKeepInv ==
    ASSUME AccountInv, UNCHANGED <<account, used, visit, openings, proven, otpCrossed>>
    PROVE  AccountInv'
BY DEF AccountInv, RowOk, VisitsOk, InsertOk, OtherOk, OtpOk, LinkOk, OpeningsOk, OneAtATime,
       ProvenAfter, SecretFits, EnabledAfter, SecretAfter, OtpSecretProven, OtpVisits, Sets,
       Exists

LEMMA AccountNextInv == AccountInv /\ [AccountNext]_accountVars => AccountInv'
<1> SUFFICES ASSUME AccountInv, [AccountNext]_accountVars
             PROVE  AccountInv'
    OBVIOUS
<1>1. ASSUME NEW v \in Visits, NEW a \in Addresses, SignUp(v, a) \/ SocialLogin(v, a)
      PROVE  AccountInv'
  <2>1. DOMAIN [social |-> TRUE, confirmed |-> TRUE] \cap OtpColumns = {}
        BY DEF OtpColumns
  <2>2. QED BY <1>1, <2>1, InsertKeepsInv, UpdateKeepsInv DEF SignUp, SocialLogin
<1>2. ASSUME NEW v \in Visits, NEW a \in Addresses, ChangeEmail(v, a)
      PROVE  AccountInv'
  <2>1. DOMAIN [email |-> a, confirmed |-> FALSE] \cap OtpColumns = {}
        BY DEF OtpColumns
  <2>2. QED BY <1>2, <2>1, UpdateKeepsInv DEF ChangeEmail
<1>3. ASSUME NEW v \in Visits, ChangePassword(v)
      PROVE  AccountInv'
  <2>1. DOMAIN [password |-> TRUE] \cap OtpColumns = {}
        BY DEF OtpColumns
  <2>2. QED BY <1>3, <2>1, UpdateKeepsInv DEF ChangePassword
<1>4. CASE \E l \in Links : LinkExpires(l) \/ \E p \in {"verify", "reset"} : MailLink(l, p)
      BY <1>4, LinksKeepInv DEF LinkExpires, MailLink
<1>5. CASE UNCHANGED accountVars
      BY <1>5, LinksKeepInv DEF accountVars
<1>6. QED BY <1>1, <1>2, <1>3, <1>4, <1>5, VerifyOtpKeepsInv, DisableOtpKeepsInv,
             EnableOtpKeepsInv, OpenLinkKeepsInv, CommitInsertKeepsInv,
             CommitUpdateKeepsInv, CommitOpeningKeepsInv, FailKeepsInv
          DEF AccountNext

-----------------------------------------------------------------------------

LEMMA AccountInvariant == AccountSpec => []AccountInv
BY AccountInitInv, AccountNextInv, PTL DEF AccountSpec

\* A verification or reset link has its effect at most once (POST /verify-email/ and
\* POST /password-reset-confirm/): the UsedToken row stops the second commit.
THEOREM LinksWorkOnce == AccountSpec => []LinkWorksOnce
<1>1. AccountInv => LinkWorksOnce
      BY DEF AccountInv, OpeningsOk, LinkWorksOnce
<1>2. QED BY <1>1, AccountInvariant, PTL

\* The two flags of the one-time password are equal (POST /otp/enable/, /otp/verify/
\* and /otp/disable/, overlapping).
THEOREM FlagsAgree == AccountSpec => []OtpFlagsAgree
<1>1. AccountInv => OtpFlagsAgree
      BY DEF AccountInv, RowOk, OtpFlagsAgree
<1>2. QED BY <1>1, AccountInvariant, PTL

\* The secret codes are asked of has been proven, unless two requests about it have
\* overlapped.
THEOREM SecretsAreProven == AccountSpec => []OtpSecretProven
<1>1. AccountInv => OtpSecretProven
      BY DEF AccountInv, OtpSecretProven
<1>2. QED BY <1>1, AccountInvariant, PTL
=============================================================================
