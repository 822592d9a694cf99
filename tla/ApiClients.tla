----------------------------- MODULE ApiClients -----------------------------
(***************************************************************************)
(* The tokens in the client's storage: the response interceptors of the    *)
(* web and of the mobile client exchange the refresh token when a request  *)
(* is answered with 401, and send the request again.  The tabs of a        *)
(* browser share the storage, and nothing else.                            *)
(*                                                                         *)
(* All requests come from one address: an exchange revokes every token     *)
(* issued before (TokenSessions).  A token is "fresh", "stale" (expired or *)
(* revoked) or "none".                                                     *)
(***************************************************************************)
CONSTANTS
    Sends,          \* requests of the client that may be in progress together
    Tabs,
    Tab             \* Tab[q]: the tab that sends q; the mobile client has only one

ASSUME TabAssumption == Tab \in [Sends -> Tabs]

VARIABLES
    client,         \* "web" or "mobile"
    storage,        \* localStorage, or the secure storage of the phone
    refreshing,     \* tabs whose interceptor has isRefreshing set
    send,           \* send[q]: how far q has got
    excused,        \* something has happened that may cost the tokens
    calm            \* nothing new is sent, and no token expires, any more

clientVars == <<client, storage, refreshing, send, excused, calm>>

NoTokens == [access |-> "none", refresh |-> "none"]
FreshTokens == [access |-> "fresh", refresh |-> "fresh"]

Old(token) == IF token = "fresh" THEN "stale" ELSE token
OldPair(tokens) == [access |-> Old(tokens.access), refresh |-> Old(tokens.refresh)]

\* at: "idle", "sent", "refused" (answered with 401), "queued" (in failedQueue),
\* "exchange" (the refresh token has been sent), "exchanged" or "denied" (its answer).
\* again: the request has been sent again; clears: an error takes the tokens away.
Unsent == [at |-> "idle", tokens |-> NoTokens, again |-> FALSE, clears |-> FALSE]

Place(q) == IF client = "web" THEN Tab[q] ELSE "app"

Exchanging(q) == send[q].at \in {"exchange", "exchanged"}

\* An exchange that isRefreshing of q's tab says nothing about: of another tab, or of a
\* page that is being opened.
Unseen(x, q) == Exchanging(x) /\ (Place(x) # Place(q) \/ ~send[x].again)

ClientInit ==
    /\ client \in {"web", "mobile"}
    /\ storage = FreshTokens
    /\ refreshing = {}
    /\ send = [q \in Sends |-> Unsent]
    /\ excused = FALSE
    /\ calm = FALSE

-----------------------------------------------------------------------------
(* Requests and the server.                                                *)

\* The request interceptor puts the stored access token on the request.
SentNow(q, tokens) ==
    [send[q] EXCEPT !.at = "sent", !.tokens = [NoTokens EXCEPT !.access = tokens.access]]

ExchangeOf(q) ==
    [send[q] EXCEPT !.at = "exchange", !.tokens = [NoTokens EXCEPT !.refresh = storage.refresh]]

SendRequest(q) ==
    /\ ~calm
    /\ send[q] = Unsent
    /\ send' = [send EXCEPT ![q] = SentNow(q, storage)]
    /\ UNCHANGED <<client, storage, refreshing, excused, calm>>

\* A page is opened, or the app: web exchanges the refresh token without looking at
\* isRefreshing (ProtectedRoute), mobile asks who the user is (_restoreSession).
RestoreSession(q) ==
    /\ ~calm
    /\ send[q] = Unsent
    /\ storage.refresh # "none"
    /\ send' = [send EXCEPT ![q] =
           IF client = "web" THEN [ExchangeOf(q) EXCEPT !.clears = TRUE]
           ELSE [SentNow(q, storage) EXCEPT !.clears = TRUE]]
    /\ excused' = (excused \/ (client = "web" /\ \E x \in Sends : Exchanging(x)))
    /\ UNCHANGED <<client, storage, refreshing, calm>>

\* The request is over.  An error may cost the tokens: of a session that is being
\* restored, and of a request the mobile client has sent again (its catch block).
Ends(q) ==
    /\ send' = [send EXCEPT ![q] = Unsent]
    /\ UNCHANGED <<storage, refreshing>>

Errs(q) ==
    /\ send' = [send EXCEPT ![q] = Unsent]
    /\ storage' = IF send[q].clears THEN NoTokens ELSE storage
    /\ refreshing' = IF client = "mobile" /\ send[q].again THEN refreshing \ {Place(q)}
                     ELSE refreshing

Costs(q) == excused \/ send[q].clears

\* The server answers, or nobody does.
Answered(q) ==
    /\ send[q].at = "sent"
    /\ IF send[q].tokens.access = "fresh"
       THEN \/ Ends(q) /\ UNCHANGED excused
            \/ Errs(q) /\ excused' = Costs(q)
       ELSE /\ send' = [send EXCEPT ![q].at = "refused", ![q].tokens = NoTokens]
            /\ UNCHANGED <<storage, refreshing, excused>>
    /\ UNCHANGED <<client, calm>>

-----------------------------------------------------------------------------
(* 401.                                                                    *)

\* Web: the second 401 of a request that has had its exchange is final.
IsFinal(q) == client = "web" /\ send[q].again

\* Mutant: every request that is refused exchanges the token.
ExchangeAnyway(q) ==
    /\ send[q].at = "refused"
    /\ ~IsFinal(q)
    /\ storage.refresh # "none"
    /\ refreshing' = refreshing \cup {Place(q)}
    /\ send' = [send EXCEPT ![q] =
           [ExchangeOf(q) EXCEPT !.again = TRUE, !.clears = (client = "mobile" \/ @)]]
    /\ excused' = (excused \/ \E x \in Sends : Unseen(x, q))
    /\ UNCHANGED <<client, storage, calm>>

\* The first one sets the flag and sends the stored refresh token.
StartExchange(q) ==
    /\ send[q].at = "refused"
    /\ ~IsFinal(q)
    /\ Place(q) \notin refreshing
    /\ storage.refresh # "none"
    /\ refreshing' = refreshing \cup {Place(q)}
    /\ send' = [send EXCEPT ![q] =
           [ExchangeOf(q) EXCEPT !.again = TRUE, !.clears = (client = "mobile" \/ @)]]
    /\ excused' = (excused \/ \E x \in Sends : Unseen(x, q))
    /\ UNCHANGED <<client, storage, calm>>

\* There is no refresh token any more.
NothingToExchange(q) ==
    /\ send[q].at = "refused"
    /\ ~IsFinal(q)
    /\ Place(q) \notin refreshing
    /\ storage.refresh = "none"
    /\ storage' = NoTokens
    /\ send' = [send EXCEPT ![q] = Unsent]
    /\ UNCHANGED <<client, refreshing, excused, calm>>

\* The others wait for the first one (web), or give up (mobile).
WaitForExchange(q) ==
    /\ send[q].at = "refused"
    /\ ~IsFinal(q)
    /\ Place(q) \in refreshing
    /\ IF client = "web"
       THEN /\ send' = [send EXCEPT ![q].at = "queued"]
            /\ UNCHANGED <<storage, refreshing, excused>>
       ELSE /\ Errs(q)
            /\ excused' = Costs(q)
    /\ UNCHANGED <<client, calm>>

SecondRefusal(q) ==
    /\ send[q].at = "refused"
    /\ IsFinal(q)
    /\ Errs(q)
    /\ excused' = Costs(q)
    /\ UNCHANGED <<client, calm>>

\* POST /auth/refresh/ on the server: the token is exchanged, and all others become
\* stale; or it is refused; or the answer does not arrive.
Exchange(q) ==
    /\ send[q].at = "exchange"
    /\ \/ /\ send[q].tokens.refresh = "fresh"
          /\ \E heard \in BOOLEAN :
              /\ send' = [x \in Sends |->
                    IF x # q THEN [send[x] EXCEPT !.tokens = OldPair(@)]
                    ELSE [send[q] EXCEPT !.at = IF heard THEN "exchanged" ELSE "denied",
                                         !.tokens = IF heard THEN FreshTokens ELSE NoTokens]]
              /\ excused' = (excused \/ ~heard)
          /\ storage' = OldPair(storage)
       \/ /\ send[q].tokens.refresh # "fresh"
          /\ send' = [send EXCEPT ![q].at = "denied", ![q].tokens = NoTokens]
          /\ UNCHANGED <<storage, excused>>
       \/ /\ send' = [send EXCEPT ![q].at = "denied", ![q].tokens = NoTokens]
          /\ excused' = TRUE
          /\ UNCHANGED storage
    /\ UNCHANGED <<client, refreshing, calm>>

\* Those of the queue, when the interceptor of q's tab has answered it.
Queue(q) == IF send[q].again THEN {x \in Sends : send[x].at = "queued" /\ Place(x) = Place(q)} ELSE {}

Flag(q) == IF send[q].again THEN {Place(q)} ELSE {}

\* The new tokens are stored, and the request and the queue are sent again.
Exchanged(q) ==
    /\ send[q].at = "exchanged"
    /\ storage' = send[q].tokens
    /\ send' = [x \in Sends |-> IF x \in Queue(q) \cup {q} THEN SentNow(x, storage') ELSE send[x]]
    /\ refreshing' = refreshing \ Flag(q)
    /\ UNCHANGED <<client, excused, calm>>

\* Mutant: the queue is not told.
DeniedAlone(q) ==
    /\ send[q].at = "denied"
    /\ storage' = NoTokens
    /\ send' = [send EXCEPT ![q] = Unsent]
    /\ refreshing' = refreshing \ Flag(q)
    /\ UNCHANGED <<client, excused, calm>>

\* Whatever the reason, the tokens are removed, even if they are others by now.
Denied(q) ==
    /\ send[q].at = "denied"
    /\ storage' = NoTokens
    /\ send' = [x \in Sends |-> IF x \in Queue(q) \cup {q} THEN Unsent ELSE send[x]]
    /\ refreshing' = refreshing \ Flag(q)
    /\ UNCHANGED <<client, excused, calm>>

-----------------------------------------------------------------------------
(* The user.                                                               *)

\* Signing in revokes what was issued before.
LogIn ==
    /\ ~calm
    /\ storage = NoTokens
    /\ storage' = FreshTokens
    /\ send' = [q \in Sends |-> [send[q] EXCEPT !.tokens = OldPair(@)]]
    /\ excused' = \E q \in Sends : send[q] # Unsent
    /\ UNCHANGED <<client, refreshing, calm>>

\* POST /auth/logout/, then the tokens go.
LogOut ==
    /\ ~calm
    /\ storage' = NoTokens
    /\ send' = [q \in Sends |-> [send[q] EXCEPT !.tokens = OldPair(@)]]
    /\ excused' = TRUE
    /\ UNCHANGED <<client, refreshing, calm>>

\* ACCESS_TOKEN_EXPIRE_MINUTES have passed.
AccessExpires ==
    /\ ~calm
    /\ storage' = [storage EXCEPT !.access = Old(@)]
    /\ send' = [q \in Sends |-> [send[q] EXCEPT !.tokens.access = Old(@)]]
    /\ UNCHANGED <<client, refreshing, excused, calm>>

BecomeCalm ==
    /\ ~calm
    /\ calm' = TRUE
    /\ UNCHANGED <<client, storage, refreshing, send, excused>>

Proceeds(q) ==
    \/ Answered(q)
    \/ StartExchange(q) \/ NothingToExchange(q) \/ WaitForExchange(q) \/ SecondRefusal(q)
    \/ Exchange(q) \/ Exchanged(q) \/ Denied(q)

ClientNext ==
    \/ \E q \in Sends : SendRequest(q) \/ RestoreSession(q) \/ Proceeds(q)
    \/ LogIn \/ LogOut \/ AccessExpires \/ BecomeCalm

\* Requests time out, at the latest: every one of them is answered somehow.
ClientFairness == \A q \in Sends : WF_clientVars(Proceeds(q))

ClientSpec == ClientInit /\ [][ClientNext]_clientVars /\ ClientFairness

-----------------------------------------------------------------------------
(* Properties.                                                             *)

\* Nobody has to sign in again for another reason than an error, a logout, or two
\* exchanges together (two tabs, or a page that is just being opened): requests of one
\* tab that find their token expired all go on with the one that is exchanged for it.
SessionSurvives == storage.refresh = "none" => excused

\* Once nothing new is sent every request ends: those that wait in the queue of an
\* exchange are told, and requests do not refuse one another's tokens for ever.
RequestsEnd == calm /\ client = "web" ~> \A q \in Sends : send[q] = Unsent
=============================================================================
